------------------------------ MODULE Recording ------------------------------
(***************************************************************************)
(* Recording test results: app/services/executions.py (record_execution,   *)
(* _upsert_build, _cascade_block) and app/services/builds.py               *)
(* (create_build), run by concurrent requests against one PostgreSQL       *)
(* database at READ COMMITTED, the level the engine of app/db.py leaves    *)
(* in force.                                                               *)
(*                                                                         *)
(* A request is a sequence of steps separated by awaits.  What it writes   *)
(* is invisible to the others until it commits; a row it inserts under a   *)
(* unique key, or updates, makes a second writer of that row wait.         *)
(* created_at is now(), the instant the TRANSACTION began, and the current *)
(* result of a case in a build is the row with the greatest created_at.    *)
(* The dependency graph and the plan's cases are fixed here: their own     *)
(* operations are other services.                                          *)
(***************************************************************************)
EXTENDS Naturals, FiniteSets

CONSTANTS
  Cases,         \* the test cases that exist
  Builds,        \* (plan, build name) pairs of plans that exist: builds' unique key
  Registered,    \* builds that may already exist, without metadata
  Fields,        \* metadata columns of a build: commit_id, branch, base_commit
  Values,        \* what a recorder may supply for them
  Recorders,     \* the clients, each with one report to get recorded
  Requests,      \* the reports they may have
  DependsOn,     \* pairs <<case, prerequisite>>
  Members,       \* Members[b]: the cases of b's plan
  MaxAttempts,   \* bound: how often a client sends its report
  MaxCrashes,    \* bound: how many requests die on the way
  None           \* SQL NULL

Statuses == {"pass", "fail", "blocked", "not_run", "in_progress"}
Flags == {"cascade", "bad_step"}
Metadata == [Fields -> Values \cup {None}]

(***************************************************************************)
(* A request names a case and a build that may not exist (NotFound); a     *)
(* build of None is a result recorded outside any plan.  create_build      *)
(* writes no base_commit.                                                  *)
(***************************************************************************)
ASSUME RequestsAssumption ==
  \A q \in Requests : /\ q.kind \in {"record", "register"}
                      /\ q.status \in Statuses
                      /\ q.meta \in Metadata
                      /\ q.flags \subseteq Flags
                      /\ q.kind = "register" =>
                           /\ q.build # None
                           /\ "base_commit" \in Fields => q.meta["base_commit"] = None

ASSUME DomainAssumption ==
  /\ None \notin Builds \cup Recorders \cup Values \cup Metadata
  /\ Registered \subseteq Builds
  /\ DependsOn \subseteq Cases \X Cases
  /\ Members \in [Builds -> SUBSET Cases]
  /\ MaxAttempts \in Nat \ {0}
  /\ MaxCrashes \in Nat

VARIABLES
  rows,       \* committed executions
  present,    \* committed builds
  meta,       \* their metadata
  owner,      \* the transaction whose uncommitted write locks a build row
  clock,      \* what the next transaction reads as now()
  pc, req,    \* each request's place in the handler, and its body
  started,    \* created_at of the rows its current transaction inserts
  seen,       \* the build its SELECT returned, None for no row
  todo,       \* downstream cases the cascade has still to look at
  pend,       \* cases it has added a blocked execution for, uncommitted
  crashes,    \* requests that have died
  attempts,   \* how often the client has sent the report
  lost,       \* how often it saw an error after its result was committed
  degraded    \* requests whose cascade failed and was rolled back

db == <<rows, present, meta, owner>>
client == <<crashes, attempts, lost, degraded>>
vars == <<rows, present, meta, owner, clock, pc, req, started, seen, todo, pend,
          crashes, attempts, lost, degraded>>

(***************************************************************************)
(* The handler's places, by what the request holds in the database.        *)
(***************************************************************************)
Uncommitted == {"select", "write", "commit"}
Committed == {"cascade", "block", "reply"}
Final == {"done", "rejected", "failed"}

Row == [build: Builds \cup {None}, case: Cases, status: Statuses,
        created: Nat, end: Nat, by: Recorders, origin: {"reported", "cascade"}]

-----------------------------------------------------------------------------
(***************************************************************************)
(* Operators                                                               *)
(***************************************************************************)

\* Everything that depends on c, directly or not: the least set that holds c's
\* dependents and those of its members (the cycle-proof BFS of the code).
Dependents(c) == {d \in Cases : <<d, c>> \in DependsOn}

Downstream ==
  [c \in Cases \cup {q.case : q \in Requests} |->
     {d \in Cases : \A S \in SUBSET Cases :
                      (Dependents(c) \subseteq S /\ \A e \in S : Dependents(e) \subseteq S)
                        => d \in S}]

\* _resolve_case, _current_version_id and session.get(TestPlan): what raises NotFound.
Unresolved(q) == \/ q.kind = "record" /\ q.case \notin Cases
                 \/ q.build \notin Builds \cup {None}

Cascades(q) == /\ q.kind = "record"
               /\ "cascade" \in q.flags
               /\ q.status \in {"fail", "blocked"}
               /\ q.build # None

\* Mutant: the plan's cases are not consulted.
Targets_AnyPlan(q) == Downstream[q.case]

\* The cases a cascade looks at: what lies downstream, and in the plan.
Targets(q) == Downstream[q.case] \cap Members[q.build]

\* Mutant: the `already` query is dropped.
Recorded_Never(b, c) == FALSE

\* The cascade's `already` query: has c any result in build b?
Recorded(b, c) == \E x \in rows : x.build = b /\ x.case = c

\* Mutant: a field already set is written again.
Backfilled_Overwrite(r) == {f \in Fields : req[r].meta[f] # None}

\* The fields the request sets on the build it found: those it supplies and read as NULL.
Backfilled(r) == {f \in Fields : req[r].meta[f] # None /\ seen[r][f] = None}

\* The transaction's snapshot of the build, with the request's fields written to it.
Upserted(r) ==
  LET b == req[r].build
  IN  IF b = None THEN meta
      ELSE IF seen[r] = None THEN [meta EXCEPT ![b] = req[r].meta]
      ELSE [meta EXCEPT ![b] = [f \in Fields |->
              IF f \in Backfilled(r) THEN req[r].meta[f] ELSE meta[b][f]]]

Reported(r) == [build |-> req[r].build, case |-> req[r].case, status |-> req[r].status,
                created |-> started[r], end |-> clock, by |-> r, origin |-> "reported"]

Blocked(r, c) == [build |-> req[r].build, case |-> c, status |-> "blocked",
                  created |-> started[r], end |-> clock, by |-> r, origin |-> "cascade"]

Goto(r, place) == pc' = [pc EXCEPT ![r] = place]

\* The end of r's transaction: the row lock goes, and what the request remembered of
\* the database with it, whether it commits or rolls back.
EndTransaction(r) ==
  /\ owner' = [b \in Builds |-> IF owner[b] = r THEN None ELSE owner[b]]
  /\ started' = [started EXCEPT ![r] = 0]
  /\ seen' = [seen EXCEPT ![r] = None]
  /\ todo' = [todo EXCEPT ![r] = {}]
  /\ pend' = [pend EXCEPT ![r] = {}]

Rollback(r) == EndTransaction(r) /\ UNCHANGED <<rows, present, meta>>

-----------------------------------------------------------------------------
(***************************************************************************)
(* The primary transaction                                                 *)
(***************************************************************************)

\* Mutant: the case is not looked up.
Begin_NoCaseLookup(r) ==
  /\ pc[r] = "idle"
  /\ attempts' = [attempts EXCEPT ![r] = @ + 1]
  /\ clock' = clock + 1
  /\ started' = [started EXCEPT ![r] = clock]
  /\ Goto(r, IF req[r].build \notin Builds \cup {None} THEN "rejected" ELSE "select")
  /\ UNCHANGED <<db, req, seen, todo, pend, crashes, lost, degraded>>

\* The client sends its report; the first statement (authentication) opens the
\* transaction, then the case, its version and the plan are looked up.
Begin(r) ==
  /\ pc[r] = "idle"
  /\ attempts' = [attempts EXCEPT ![r] = @ + 1]
  /\ clock' = clock + 1
  /\ started' = [started EXCEPT ![r] = clock]
  /\ Goto(r, IF Unresolved(req[r]) THEN "rejected" ELSE "select")
  /\ UNCHANGED <<db, req, seen, todo, pend, crashes, lost, degraded>>

\* The SELECT of the build, ahead of the decision to insert or to backfill.
SelectBuild(r) ==
  /\ pc[r] = "select"
  /\ seen' = [seen EXCEPT ![r] = IF req[r].build \in present THEN meta[req[r].build] ELSE None]
  /\ Goto(r, "write")
  /\ UNCHANGED <<db, clock, req, started, todo, pend, client>>

\* Mutant: the upsert commits the build on its own.
InsertBuild_Commits(r) ==
  LET b == req[r].build
  IN  /\ pc[r] = "write" /\ b # None /\ seen[r] = None
      /\ owner[b] = None /\ b \notin present
      /\ present' = present \cup {b}
      /\ meta' = Upserted(r)
      /\ Goto(r, "commit")
      /\ UNCHANGED <<rows, owner, clock, req, started, seen, todo, pend, client>>

\* No row found and none has appeared since: the insert holds the unique key.
InsertBuild(r) ==
  LET b == req[r].build
  IN  /\ pc[r] = "write" /\ b # None /\ seen[r] = None
      /\ owner[b] = None /\ b \notin present
      /\ owner' = [owner EXCEPT ![b] = r]
      /\ Goto(r, "commit")
      /\ UNCHANGED <<rows, present, meta, clock, req, started, seen, todo, pend, client>>

\* No row found, but another request has committed one: IntegrityError, a 500.
LoseInsertRace(r) ==
  /\ pc[r] = "write" /\ req[r].build \in present /\ seen[r] = None
  /\ Rollback(r)
  /\ Goto(r, "failed")
  /\ UNCHANGED <<clock, req, client>>

\* A row found with fields to fill: the UPDATE locks it.
BackfillBuild(r) ==
  LET b == req[r].build
  IN  /\ pc[r] = "write" /\ b # None /\ seen[r] # None /\ Backfilled(r) # {}
      /\ owner[b] = None
      /\ owner' = [owner EXCEPT ![b] = r]
      /\ Goto(r, "commit")
      /\ UNCHANGED <<rows, present, meta, clock, req, started, seen, todo, pend, client>>

\* No build, or nothing to write on it.
LeaveBuild(r) ==
  /\ pc[r] = "write"
  /\ req[r].build = None \/ (seen[r] # None /\ Backfilled(r) = {})
  /\ Goto(r, "commit")
  /\ UNCHANGED <<db, clock, req, started, seen, todo, pend, client>>

\* Mutant: the session is not closed, so its transaction stays open.
RejectSteps_LeaksSession(r) ==
  /\ pc[r] = "commit" /\ req[r].kind = "record" /\ "bad_step" \in req[r].flags
  /\ Goto(r, "rejected")
  /\ UNCHANGED <<db, clock, req, started, seen, todo, pend, client>>

\* A step result for a step the version lacks: ValidationFailed after the execution
\* and the build were flushed.  The session closes without a commit.
RejectSteps(r) ==
  /\ pc[r] = "commit" /\ req[r].kind = "record" /\ "bad_step" \in req[r].flags
  /\ Rollback(r)
  /\ Goto(r, "rejected")
  /\ UNCHANGED <<clock, req, client>>

\* The build, its metadata and the execution (with its steps and claims) become
\* visible together.  create_build has no execution.
Commit(r) ==
  /\ pc[r] = "commit"
  /\ ~ (req[r].kind = "record" /\ "bad_step" \in req[r].flags)
  /\ rows' = IF req[r].kind = "record" THEN rows \cup {Reported(r)} ELSE rows
  /\ present' = present \cup ({req[r].build} \ {None})
  /\ meta' = Upserted(r)
  /\ EndTransaction(r)
  /\ Goto(r, IF Cascades(req[r]) THEN "cascade" ELSE "reply")
  /\ UNCHANGED <<clock, req, client>>

-----------------------------------------------------------------------------
(***************************************************************************)
(* The cascade: a second transaction of the same session                   *)
(***************************************************************************)

\* The dependents and the plan's cases are read.
CascadeBegin(r) ==
  /\ pc[r] = "cascade"
  /\ clock' = clock + 1
  /\ started' = [started EXCEPT ![r] = clock]
  /\ todo' = [todo EXCEPT ![r] = Targets(req[r])]
  /\ Goto(r, "block")
  /\ UNCHANGED <<db, req, seen, pend, client>>

\* Mutant: the first case found recorded ends the loop.
CascadeCheck_Breaks(r) ==
  /\ pc[r] = "block"
  /\ \E c \in todo[r] :
       LET already == Recorded(req[r].build, c)
       IN  /\ todo' = [todo EXCEPT ![r] = IF already THEN {} ELSE @ \ {c}]
           /\ pend' = [pend EXCEPT ![r] = IF already THEN @ ELSE @ \cup {c}]
  /\ UNCHANGED <<db, clock, pc, req, started, seen, client>>

\* One downstream case: a SELECT for an existing result, then an insert.  The code
\* takes them in discovery order; any order is allowed here.
CascadeCheck(r) ==
  /\ pc[r] = "block"
  /\ \E c \in todo[r] :
       /\ todo' = [todo EXCEPT ![r] = @ \ {c}]
       /\ pend' = [pend EXCEPT ![r] = IF Recorded(req[r].build, c) THEN @ ELSE @ \cup {c}]
  /\ UNCHANGED <<db, clock, pc, req, started, seen, client>>

CascadeCommit(r) ==
  /\ pc[r] = "block" /\ todo[r] = {}
  /\ rows' = rows \cup {Blocked(r, c) : c \in pend[r]}
  /\ EndTransaction(r)
  /\ Goto(r, "reply")
  /\ UNCHANGED <<present, meta, clock, req, client>>

\* Mutants: the handler's rollback takes the primary result with it; the failure
\* reaches the client.
CascadeFail_UndoesPrimary(r) ==
  /\ pc[r] \in {"cascade", "block"}
  /\ rows' = {x \in rows : x.by # r}
  /\ EndTransaction(r)
  /\ degraded' = degraded \cup {r}
  /\ Goto(r, "reply")
  /\ UNCHANGED <<present, meta, clock, req, crashes, attempts, lost>>

CascadeFail_Propagates(r) ==
  /\ pc[r] \in {"cascade", "block"}
  /\ Rollback(r)
  /\ degraded' = degraded \cup {r}
  /\ Goto(r, "failed")
  /\ UNCHANGED <<clock, req, crashes, attempts, lost>>

\* Any exception in the cascade: its pending rows are discarded, and the request
\* still answers with the primary result.
CascadeFail(r) ==
  /\ pc[r] \in {"cascade", "block"}
  /\ Rollback(r)
  /\ degraded' = degraded \cup {r}
  /\ Goto(r, "reply")
  /\ UNCHANGED <<clock, req, crashes, attempts, lost>>

-----------------------------------------------------------------------------
(***************************************************************************)
(* The client                                                              *)
(***************************************************************************)

Reply(r) ==
  /\ pc[r] = "reply"
  /\ Goto(r, "done")
  /\ UNCHANGED <<db, clock, req, started, seen, todo, pend, client>>

\* The worker or the connection dies: PostgreSQL rolls the open transaction back,
\* and the client sees an error whether or not the result was committed.
Crash(r) ==
  /\ pc[r] \in Uncommitted \cup Committed
  /\ crashes < MaxCrashes /\ crashes' = crashes + 1
  /\ Rollback(r)
  /\ lost' = IF pc[r] \in Committed THEN [lost EXCEPT ![r] = @ + 1] ELSE lost
  /\ Goto(r, "failed")
  /\ UNCHANGED <<clock, req, attempts, degraded>>

\* A client that saw an error may send the same report again, as a new request.
Retry(r) ==
  /\ pc[r] = "failed" /\ attempts[r] < MaxAttempts
  /\ Goto(r, "idle")
  /\ degraded' = degraded \ {r}
  /\ UNCHANGED <<db, clock, req, started, seen, todo, pend, crashes, attempts, lost>>

-----------------------------------------------------------------------------
Init ==
  /\ rows = {}
  /\ present \in {{}, Registered}
  /\ meta = [b \in Builds |-> [f \in Fields |-> None]]
  /\ owner = [b \in Builds |-> None]
  /\ clock = 0
  /\ pc = [r \in Recorders |-> "idle"]
  /\ req \in [Recorders -> Requests]
  /\ started = [r \in Recorders |-> 0]
  /\ seen = [r \in Recorders |-> None]
  /\ todo = [r \in Recorders |-> {}]
  /\ pend = [r \in Recorders |-> {}]
  /\ crashes = 0
  /\ attempts = [r \in Recorders |-> 0]
  /\ lost = [r \in Recorders |-> 0]
  /\ degraded = {}

Primary(r) == \/ Begin(r) \/ SelectBuild(r)
              \/ InsertBuild(r) \/ LoseInsertRace(r) \/ BackfillBuild(r) \/ LeaveBuild(r)
              \/ RejectSteps(r) \/ Commit(r)

Cascade(r) == CascadeBegin(r) \/ CascadeCheck(r) \/ CascadeCommit(r) \/ CascadeFail(r)

Next == \E r \in Recorders : Primary(r) \/ Cascade(r) \/ Reply(r) \/ Crash(r) \/ Retry(r)

Spec == Init /\ [][Next]_vars

\* The server keeps running each request it has accepted; nothing obliges a worker to
\* die or a client to retry.
Fairness == \A r \in Recorders : WF_vars(Primary(r) \/ Cascade(r) \/ Reply(r))

FairSpec == Spec /\ Fairness

-----------------------------------------------------------------------------
(***************************************************************************)
(* Properties                                                              *)
(***************************************************************************)

TypeOK ==
  /\ rows \subseteq Row
  /\ present \subseteq Builds
  /\ meta \in [Builds -> Metadata]
  /\ owner \in [Builds -> Recorders \cup {None}]
  /\ clock \in Nat
  /\ pc \in [Recorders -> {"idle"} \cup Uncommitted \cup Committed \cup Final]
  /\ req \in [Recorders -> Requests]
  /\ started \in [Recorders -> Nat]
  /\ seen \in [Recorders -> Metadata \cup {None}]
  /\ todo \in [Recorders -> SUBSET Cases]
  /\ pend \in [Recorders -> SUBSET Cases]
  /\ crashes \in 0..MaxCrashes
  /\ attempts \in [Recorders -> 0..MaxAttempts]
  /\ lost \in [Recorders -> Nat]
  /\ degraded \subseteq Recorders

\* The results r's own reports put in the database.
Primaries(r) == {x \in rows : x.by = r /\ x.origin = "reported"}

\* The current result of case c in build b (the view latest_result_per_build_case).
Current(b, c) == {x \in rows : /\ x.build = b /\ x.case = c
                               /\ \A y \in rows : y.build = b /\ y.case = c
                                                    => y.created <= x.created}

\* Every attempt of a report leaves exactly the result its client was told of, or one
\* more for each answer that was lost after the commit: a rejected, rolled back or
\* race-losing attempt leaves none, and a failed cascade neither loses the primary
\* result nor makes the client repeat it (record_execution's commit and its except).
OneResultPerAnswer ==
  \A r \in Recorders :
    req[r].kind = "record" =>
      Cardinality(Primaries(r)) = lost[r] + (IF pc[r] \in Committed \cup {"done"} THEN 1 ELSE 0)

\* An auto-block has a cause: it is for a case of the build's plan, and an earlier failed
\* or blocked report of a case upstream of it is committed in the same build.
BlockedHasCause ==
  \A x \in rows : x.origin = "cascade" =>
    \E y \in rows : /\ y.origin = "reported" /\ y.build = x.build /\ y.by = x.by
                    /\ y.status \in {"fail", "blocked"}
                    /\ y.created < x.created
                    /\ x.case \in Downstream[y.case] \cap Members[x.build]

\* A cascade blocks no case that had any result in the build before the cascade began:
\* only a result whose transaction overlapped the cascade's can end up beside an
\* auto-block that ranks above it.
CascadeSkipsRecorded ==
  \A x \in rows : x.origin = "cascade" =>
    \A y \in rows : y.build = x.build /\ y.case = x.case => y.end > x.created

\* When a cascading report is answered and its cascade did not fail, no downstream case
\* of the plan is left without a result in the build.
CascadeIsComplete ==
  \A r \in Recorders :
    pc[r] \in {"reply", "done"} /\ r \notin degraded /\ Cascades(req[r])
      => \A c \in Targets(req[r]) : Recorded(req[r].build, c)

\* Metadata is recorded with its report or not at all: whatever a build shows was
\* supplied by a request that committed (the upsert shares the report's transaction).
MetadataHasRecorder ==
  \A b \in Builds, f \in Fields : meta[b][f] # None =>
    \E r \in Recorders : /\ req[r].build = b /\ req[r].meta[f] = meta[b][f]
                         /\ pc[r] \in Committed \cup {"done"} \/ lost[r] > 0

\* A build's field, once set, changes only at the commit of a request that had read it
\* as NULL: a request that saw a value never overwrites it, and nothing clears one
\* (the backfill conditions of _upsert_build and create_build).
OnlyStaleReadsOverwrite ==
  [][\A b \in Builds, f \in Fields :
       meta[b][f] # None /\ meta'[b][f] # meta[b][f] =>
         \E r \in Recorders : /\ pc[r] = "commit" /\ pc'[r] # "commit"
                              /\ req[r].build = b /\ seen[r] # None /\ seen[r][f] = None
                              /\ meta'[b][f] = req[r].meta[f] /\ meta'[b][f] # None]_vars

\* Every request is answered: no request waits for ever for a build row another holds,
\* whatever crashes, races and rejections happen (session close releases the lock).
EveryRequestSettles == \A r \in Recorders : <>[](pc[r] \in Final)

\* How far a report got, as far as anyone but the server can tell.
Standing(p) == CASE p \in {"idle"} \cup Uncommitted -> "pending"
                 [] p \in {"cascade", "block"} -> "spreading"
                 [] p = "reply" -> "settled"
                 [] p = "done" -> "answered"
                 [] p = "rejected" -> "refused"
                 [] p = "failed" -> "error"

Promise == INSTANCE Ledger
             WITH Spreads <- {q \in Requests : Cascades(q)},
                  Scope <- [q \in Requests |-> Targets(q)],
                  standing <- [r \in Recorders |-> Standing(pc[r])]

\* Whatever the interleaving, crashes and retries, the database changes as if each report
\* were posted in one step and its auto-blocks in another (record_execution's two commits).
ImplementsLedger == Promise!Spec

\* The claim of _cascade_block's docstring, "never overrides a real result": no step
\* turns a case's current result in a build from a reported one into an auto-block.
NeverOverridesRealResult ==
  [][\A x \in rows : x.origin = "reported" /\ x \in Current(x.build, x.case) =>
       \A y \in Current(x.build, x.case)' : y.origin = "reported"]_vars

\* The claim of _upsert_build's comment, "the first recorder to supply each field wins":
\* a field once set keeps its value.
FirstSupplierWins ==
  [][\A b \in Builds, f \in Fields : meta[b][f] # None => meta'[b][f] = meta[b][f]]_vars

=============================================================================
