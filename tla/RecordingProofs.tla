--------------------------- MODULE RecordingProofs ---------------------------
(***************************************************************************)
(* Proofs about Recording: type correctness and the safety properties of   *)
(* the cascade and of the build's metadata, for any number of recorders,   *)
(* cases, builds and retries.                                              *)
(*                                                                         *)
(* The properties speak of committed rows; the invariant that carries them *)
(* speaks of what each request in flight still holds: which place of the   *)
(* handler it is at, what it has read, and how its transaction's start     *)
(* compares with the rows.                                                 *)
(***************************************************************************)
EXTENDS Recording, FiniteSetTheorems, TLAPS

\* A request that got past its lookups names a case and a build that exist.
Resolved ==
  \A r \in Recorders :
    pc[r] \in Uncommitted \cup Committed \cup {"done"} => ~Unresolved(req[r])

\* A client about to send has an attempt left.
AttemptLeft == \A r \in Recorders : pc[r] = "idle" => attempts[r] < MaxAttempts

\* Every committed row began and ended in the past.
PastRows == \A x \in rows : x.created < clock /\ x.end <= clock

\* So did every open transaction begin.
PastStart(r) == pc[r] \in Uncommitted \cup {"block"} => started[r] < clock

\* The report whose failure r's cascade spreads: committed, and older than the cascade.
Trigger(r) == {y \in rows : /\ y.origin = "reported" /\ y.by = r
                            /\ y.build = req[r].build /\ y.case = req[r].case
                            /\ y.status = req[r].status
                            /\ y.created < IF pc[r] = "block" THEN started[r] ELSE clock}

\* The cascade runs for a report that asks for it and is committed.
Caused(r) == pc[r] \in {"cascade", "block"} => Cascades(req[r]) /\ Trigger(r) # {}

\* It looks at nothing but its targets.
OnTarget(r) == IF pc[r] = "block" THEN todo[r] \cup pend[r] \subseteq Targets(req[r])
                                  ELSE todo[r] = {} /\ pend[r] = {}

\* A target it has dealt with is about to be blocked, or has a result.
Progress(r) ==
  pc[r] = "block" =>
    \A c \in Targets(req[r]) : c \in todo[r] \cup pend[r] \/ Recorded(req[r].build, c)

\* A case about to be blocked has no result older than the cascade.
PendingUnrecorded(r) ==
  pc[r] = "block" =>
    \A c \in pend[r], y \in rows :
      y.build = req[r].build /\ y.case = c => y.end > started[r]

\* CascadeIsComplete for one request.
Complete(r) ==
  pc[r] \in {"reply", "done"} /\ r \notin degraded /\ Cascades(req[r])
    => \A c \in Targets(req[r]) : Recorded(req[r].build, c)

RequestInv(r) == /\ PastStart(r) /\ Caused(r) /\ OnTarget(r)
                 /\ Progress(r) /\ PendingUnrecorded(r) /\ Complete(r)

CascadeInv ==
  /\ PastRows /\ BlockedHasCause /\ CascadeSkipsRecorded
  /\ \A r \in Recorders : RequestInv(r)

\* A build that is not there has no metadata; a request found a row only if there is one;
\* a request about to insert one holds the unique key, so nobody else commits that build.
BuildInv ==
  /\ \A b \in Builds \ present, f \in Fields : meta[b][f] = None
  /\ \A r \in Recorders :
       pc[r] \in {"write", "commit"} /\ seen[r] # None => req[r].build \in present
  /\ \A r \in Recorders :
       pc[r] = "commit" /\ req[r].build # None /\ seen[r] = None
         => owner[req[r].build] = r /\ req[r].build \notin present

\* A report in flight is newer than everything its recorder has in the database.
Fresh ==
  \A r \in Recorders :
    pc[r] \in Uncommitted => \A x \in Primaries(r) : x.created < started[r]

-----------------------------------------------------------------------------
(***************************************************************************)
(* Type correctness                                                        *)
(***************************************************************************)

\* What TypeOK needs to be inductive.
TypeInv == TypeOK /\ Resolved /\ AttemptLeft

\* A request that is past its lookups has a build the schema knows, and a case if it
\* records one.
LEMMA ResolvedRequest ==
  ASSUME NEW q, ~Unresolved(q)
  PROVE  q.build \in Builds \cup {None} /\ (q.kind = "record" => q.case \in Cases)
  BY DEF Unresolved

\* The metadata after the upsert is well formed, whatever the request saw.
LEMMA UpsertedType ==
  ASSUME TypeOK, NEW r \in Recorders, ~Unresolved(req[r])
  PROVE  Upserted(r) \in [Builds -> Metadata]
<1>1. req[r].meta \in Metadata
  BY RequestsAssumption DEF TypeOK
<1>2. CASE req[r].build = None
  BY <1>2 DEF Upserted, TypeOK
<1>3. CASE req[r].build # None /\ seen[r] = None
  BY <1>1, <1>3, ResolvedRequest DEF Upserted, TypeOK
<1>4. CASE req[r].build # None /\ seen[r] # None
  <2>1. [f \in Fields |-> IF f \in Backfilled(r) THEN req[r].meta[f]
                                               ELSE meta[req[r].build][f]] \in Metadata
    BY <1>1, <1>4, ResolvedRequest DEF Metadata, TypeOK
  <2> QED  BY <2>1, <1>4, ResolvedRequest DEF Upserted, TypeOK
<1> QED  BY <1>2, <1>3, <1>4

\* A target of a cascade is a case.
LEMMA TargetsAreCases == \A q \in Requests : Targets(q) \subseteq Cases
  BY DEF Targets, Downstream

\* Every initial state is well typed.
LEMMA TypeInit == Init => TypeInv
  BY DomainAssumption
     DEF Init, TypeInv, TypeOK, Resolved, AttemptLeft, Uncommitted, Committed, Final, Metadata, Row

\* Every step, one per handler step and client action, keeps the types.
LEMMA TypeStep == TypeInv /\ [Next]_vars => TypeInv'
<1> SUFFICES ASSUME TypeInv, [Next]_vars PROVE TypeInv'
  OBVIOUS
<1> USE DomainAssumption, RequestsAssumption
    DEF TypeInv, TypeOK, Resolved, AttemptLeft, Goto, Uncommitted, Committed, Final
<1>1. ASSUME NEW r \in Recorders, Begin(r) PROVE TypeInv'
  BY <1>1 DEF Begin, db
<1>2. ASSUME NEW r \in Recorders, SelectBuild(r) PROVE TypeInv'
  BY <1>2 DEF SelectBuild, db, client
<1>3. ASSUME NEW r \in Recorders, InsertBuild(r) PROVE TypeInv'
  BY <1>3 DEF InsertBuild, client
<1>4. ASSUME NEW r \in Recorders, LoseInsertRace(r) PROVE TypeInv'
  BY <1>4 DEF LoseInsertRace, Rollback, EndTransaction, client
<1>5. ASSUME NEW r \in Recorders, BackfillBuild(r) PROVE TypeInv'
  BY <1>5 DEF BackfillBuild, client
<1>6. ASSUME NEW r \in Recorders, LeaveBuild(r) PROVE TypeInv'
  BY <1>6 DEF LeaveBuild, db, client
<1>7. ASSUME NEW r \in Recorders, RejectSteps(r) PROVE TypeInv'
  BY <1>7 DEF RejectSteps, Rollback, EndTransaction, client
<1>8. ASSUME NEW r \in Recorders, Commit(r) PROVE TypeInv'
  <2>1. ~Unresolved(req[r])
    BY <1>8 DEF Commit
  <2>2. meta' \in [Builds -> Metadata]
    BY <1>8, <2>1, UpsertedType DEF Commit
  <2>3. rows' \subseteq Row
    <3>1. req[r].kind = "record" => Reported(r) \in Row
      BY <2>1, ResolvedRequest DEF Reported, Row
    <3> QED  BY <1>8, <3>1 DEF Commit
  <2>4. present' \subseteq Builds
    BY <1>8, <2>1, ResolvedRequest DEF Commit
  <2> QED  BY <1>8, <2>2, <2>3, <2>4 DEF Commit, EndTransaction, client
<1>9. ASSUME NEW r \in Recorders, CascadeBegin(r) PROVE TypeInv'
  BY <1>9, TargetsAreCases DEF CascadeBegin, db, client
<1>10. ASSUME NEW r \in Recorders, CascadeCheck(r) PROVE TypeInv'
  BY <1>10 DEF CascadeCheck, db, client
<1>11. ASSUME NEW r \in Recorders, CascadeCommit(r) PROVE TypeInv'
  <2>1. \A c \in pend[r] : Blocked(r, c) \in Row
    BY <1>11, ResolvedRequest DEF CascadeCommit, Blocked, Row, Statuses
  <2> QED  BY <1>11, <2>1 DEF CascadeCommit, EndTransaction, client
<1>12. ASSUME NEW r \in Recorders, CascadeFail(r) PROVE TypeInv'
  BY <1>12 DEF CascadeFail, Rollback, EndTransaction
<1>13. ASSUME NEW r \in Recorders, Reply(r) PROVE TypeInv'
  BY <1>13 DEF Reply, db, client
<1>14. ASSUME NEW r \in Recorders, Crash(r) PROVE TypeInv'
  BY <1>14 DEF Crash, Rollback, EndTransaction
<1>15. ASSUME NEW r \in Recorders, Retry(r) PROVE TypeInv'
  BY <1>15 DEF Retry, db
<1>16. CASE UNCHANGED vars
  BY <1>16 DEF vars
<1> QED
  BY <1>1, <1>2, <1>3, <1>4, <1>5, <1>6, <1>7, <1>8, <1>9, <1>10, <1>11, <1>12, <1>13,
     <1>14, <1>15, <1>16 DEF Next, Primary, Cascade

\* Every value the handlers compute stays in its domain: an execution names a case and a
\* build that exist, a client sends its report at most MaxAttempts times.
THEOREM TypeCorrect == Spec => []TypeOK
<1>1. TypeInv => TypeOK
  BY DEF TypeInv
<1> QED  BY <1>1, TypeInit, TypeStep, PTL DEF Spec
-----------------------------------------------------------------------------
(***************************************************************************)
(* The cascade                                                             *)
(***************************************************************************)

\* What a step of r leaves alone: every other request, and every committed row.
Frame(r) ==
  /\ rows \subseteq rows'
  /\ \A x \in rows' \ rows : x.end = clock
  /\ clock <= clock'
  /\ \A s \in Recorders \ {r} :
       /\ pc'[s] = pc[s] /\ req'[s] = req[s] /\ started'[s] = started[s]
       /\ todo'[s] = todo[s] /\ pend'[s] = pend[s]
       /\ s \in degraded' <=> s \in degraded
  /\ req'[r] = req[r]

Step(r) == Primary(r) \/ Cascade(r) \/ Reply(r) \/ Crash(r) \/ Retry(r)

\* What one step of r can touch: its own bookkeeping and the shared tables, never the
\* bookkeeping of another request (each request has a session of its own).
LEMMA StepFrame ==
  ASSUME TypeOK, NEW r \in Recorders, Step(r)
  PROVE  Frame(r)
<1> USE DEF TypeOK, Frame, Goto
<1>1. CASE Begin(r)
  BY <1>1 DEF Begin, db
<1>2. CASE SelectBuild(r)
  BY <1>2 DEF SelectBuild, db, client
<1>3. CASE InsertBuild(r) \/ BackfillBuild(r) \/ LeaveBuild(r)
  BY <1>3 DEF InsertBuild, BackfillBuild, LeaveBuild, db, client
<1>4. CASE LoseInsertRace(r) \/ RejectSteps(r)
  BY <1>4 DEF LoseInsertRace, RejectSteps, Rollback, EndTransaction, client
<1>5. CASE Commit(r)
  BY <1>5 DEF Commit, EndTransaction, Reported, client
<1>6. CASE CascadeBegin(r) \/ CascadeCheck(r)
  BY <1>6 DEF CascadeBegin, CascadeCheck, db, client
<1>7. CASE CascadeCommit(r)
  BY <1>7 DEF CascadeCommit, EndTransaction, Blocked, client
<1>8. CASE CascadeFail(r)
  BY <1>8 DEF CascadeFail, Rollback, EndTransaction
<1>9. CASE Reply(r) \/ Retry(r)
  BY <1>9 DEF Reply, Retry, db, client
<1>10. CASE Crash(r)
  BY <1>10 DEF Crash, Rollback, EndTransaction
<1> QED
  BY <1>1, <1>2, <1>3, <1>4, <1>5, <1>6, <1>7, <1>8, <1>9, <1>10 DEF Step, Primary, Cascade

\* A request in flight does not mind the steps of the others.
LEMMA OthersKept ==
  ASSUME TypeOK, TypeOK', PastRows, NEW r \in Recorders, Frame(r),
         NEW s \in Recorders, s # r, RequestInv(s)
  PROVE  RequestInv(s)'
<1> USE DEF TypeOK, Frame
<1>1. PastStart(s)'
  BY DEF RequestInv, PastStart
<1>2. Caused(s)'
  <2> SUFFICES ASSUME pc[s] \in {"cascade", "block"}
               PROVE  Cascades(req[s]) /\ Trigger(s)' # {}
    BY DEF Caused
  <2>1. Cascades(req[s]) /\ Trigger(s) # {}
    BY DEF RequestInv, Caused
  <2>2. PICK y \in Trigger(s) : TRUE
    BY <2>1
  <2>3. y \in rows /\ y.created \in Nat /\ started[s] \in Nat
    BY <2>2 DEF Trigger, Row
  <2>4. y \in Trigger(s)'
    BY <2>2, <2>3 DEF Trigger
  <2> QED  BY <2>1, <2>4
<1>3. OnTarget(s)'
  BY DEF RequestInv, OnTarget
<1>4. Progress(s)'
  BY DEF RequestInv, Progress, Recorded
<1>5. PendingUnrecorded(s)'
  BY DEF RequestInv, PendingUnrecorded, PastStart
<1>6. Complete(s)'
  BY DEF RequestInv, Complete, Recorded
<1> QED  BY <1>1, <1>2, <1>3, <1>4, <1>5, <1>6 DEF RequestInv

\* Each step of r keeps what r's place in the handler promises.
LEMMA OwnKept ==
  ASSUME TypeInv, TypeOK', PastRows, NEW r \in Recorders, RequestInv(r), Step(r)
  PROVE  RequestInv(r)'
<1> USE DEF TypeInv, TypeOK, Goto, Uncommitted, Committed, Final
<1>a. pc[r] # "block" => todo[r] = {} /\ pend[r] = {}
  BY DEF RequestInv, OnTarget
<1>1. CASE Begin(r)
  <2>1. pc'[r] \in {"rejected", "select"} /\ started'[r] < clock' /\ todo'[r] = {} /\ pend'[r] = {}
    BY <1>1, <1>a DEF Begin
  <2> QED  BY <2>1 DEF RequestInv, PastStart, Caused, OnTarget, Progress, PendingUnrecorded, Complete
<1>2. CASE SelectBuild(r) \/ InsertBuild(r) \/ BackfillBuild(r) \/ LeaveBuild(r)
  <2>1. /\ pc[r] \in Uncommitted /\ pc'[r] \in Uncommitted
        /\ started'[r] = started[r] /\ clock' = clock /\ todo'[r] = todo[r] /\ pend'[r] = pend[r]
    BY <1>2 DEF SelectBuild, InsertBuild, BackfillBuild, LeaveBuild, db, client
  <2> QED
    BY <2>1, <1>a DEF RequestInv, PastStart, Caused, OnTarget, Progress, PendingUnrecorded, Complete
<1>3. CASE LoseInsertRace(r) \/ RejectSteps(r) \/ Crash(r) \/ Retry(r)
  <2>1. pc'[r] \in {"idle", "rejected", "failed"} /\ todo'[r] = {} /\ pend'[r] = {}
    BY <1>3, <1>a DEF LoseInsertRace, RejectSteps, Crash, Retry, Rollback, EndTransaction
  <2> QED  BY <2>1 DEF RequestInv, PastStart, Caused, OnTarget, Progress, PendingUnrecorded, Complete
<1>4. CASE Commit(r)
  <2>1. /\ pc[r] = "commit" /\ req' = req /\ todo'[r] = {} /\ pend'[r] = {}
        /\ clock' = clock /\ started[r] < clock
        /\ pc'[r] = IF Cascades(req[r]) THEN "cascade" ELSE "reply"
    BY <1>4 DEF Commit, EndTransaction, RequestInv, PastStart
  <2>2. Caused(r)'
    <3> SUFFICES ASSUME Cascades(req[r]) PROVE Reported(r) \in Trigger(r)'
      BY <2>1 DEF Caused
    <3>1. Reported(r) \in rows'
      BY <1>4 DEF Commit, Cascades
    <3> QED  BY <2>1, <3>1 DEF Trigger, Reported
  <2> QED  BY <2>1, <2>2 DEF RequestInv, PastStart, OnTarget, Progress, PendingUnrecorded, Complete
<1>5. CASE CascadeBegin(r)
  <2>1. /\ pc[r] = "cascade" /\ pc'[r] = "block" /\ req' = req /\ rows' = rows
        /\ started'[r] = clock /\ clock' = clock + 1
        /\ todo'[r] = Targets(req[r]) /\ pend'[r] = {}
    BY <1>5, <1>a DEF CascadeBegin, db
  <2>2. Caused(r)'
    BY <2>1 DEF RequestInv, Caused, Trigger
  <2> QED  BY <2>1, <2>2 DEF RequestInv, PastStart, OnTarget, Progress, PendingUnrecorded, Complete
<1>6. CASE CascadeCheck(r)
  <2>1. /\ pc[r] = "block" /\ pc' = pc /\ req' = req /\ rows' = rows
        /\ started' = started /\ clock' = clock
    BY <1>6 DEF CascadeCheck, db
  <2>2. PICK c \in todo[r] :
          /\ todo'[r] = todo[r] \ {c}
          /\ pend'[r] = IF Recorded(req[r].build, c) THEN pend[r] ELSE pend[r] \cup {c}
    BY <1>6 DEF CascadeCheck
  <2>3. PastStart(r)' /\ Caused(r)' /\ Complete(r)'
    BY <2>1 DEF RequestInv, PastStart, Caused, Trigger, Complete
  <2>4. OnTarget(r)' /\ Progress(r)'
    BY <2>1, <2>2 DEF RequestInv, OnTarget, Progress, Recorded
  <2>5. PendingUnrecorded(r)'
    BY <2>1, <2>2 DEF RequestInv, PendingUnrecorded, Recorded
  <2> QED  BY <2>3, <2>4, <2>5 DEF RequestInv
<1>7. CASE CascadeCommit(r)
  <2>1. /\ pc[r] = "block" /\ todo[r] = {} /\ pc'[r] = "reply" /\ req' = req
        /\ todo'[r] = {} /\ pend'[r] = {}
        /\ rows' = rows \cup {Blocked(r, c) : c \in pend[r]}
    BY <1>7 DEF CascadeCommit, EndTransaction
  <2>2. ASSUME NEW c \in pend[r] PROVE Recorded(req[r].build, c)'
    <3>1. Blocked(r, c) \in rows'
      BY <2>1
    <3>2. Blocked(r, c).build = req[r].build /\ Blocked(r, c).case = c
      BY DEF Blocked
    <3> QED  BY <2>1, <3>1, <3>2 DEF Recorded
  <2>3. Complete(r)'
    BY <2>1, <2>2 DEF RequestInv, Progress, Complete, Recorded
  <2> QED  BY <2>1, <2>3 DEF RequestInv, PastStart, Caused, OnTarget, Progress, PendingUnrecorded
<1>8. CASE CascadeFail(r)
  <2>1. pc'[r] = "reply" /\ r \in degraded' /\ todo'[r] = {} /\ pend'[r] = {}
    BY <1>8 DEF CascadeFail, Rollback, EndTransaction
  <2> QED  BY <2>1 DEF RequestInv, PastStart, Caused, OnTarget, Progress, PendingUnrecorded, Complete
<1>9. CASE Reply(r)
  <2>1. /\ pc[r] = "reply" /\ pc'[r] = "done" /\ req' = req /\ rows' = rows
        /\ degraded' = degraded /\ todo' = todo /\ pend' = pend
    BY <1>9 DEF Reply, db, client
  <2> QED
    BY <2>1, <1>a
       DEF RequestInv, PastStart, Caused, OnTarget, Progress, PendingUnrecorded, Complete, Recorded
<1> QED
  BY <1>1, <1>2, <1>3, <1>4, <1>5, <1>6, <1>7, <1>8, <1>9 DEF Step, Primary, Cascade

\* The rows keep their cause and their order whatever r does.
LEMMA RowsKept ==
  ASSUME TypeInv, TypeOK', NEW r \in Recorders, RequestInv(r), Step(r), Frame(r),
         PastRows, BlockedHasCause, CascadeSkipsRecorded
  PROVE  PastRows' /\ BlockedHasCause' /\ CascadeSkipsRecorded'
<1> USE DEF TypeInv, TypeOK
<1>1. CASE rows' = rows
  <2>1. PastRows'
    BY <1>1 DEF Frame, PastRows, Row
  <2>2. BlockedHasCause' /\ CascadeSkipsRecorded'
    BY <1>1 DEF BlockedHasCause, CascadeSkipsRecorded
  <2> QED  BY <2>1, <2>2
<1>2. CASE Commit(r) /\ rows' # rows
  <2>1. rows' = rows \cup {Reported(r)} /\ clock' = clock /\ started[r] < clock
    BY <1>2 DEF Commit, RequestInv, PastStart, Uncommitted
  <2>2. /\ Reported(r).origin = "reported" /\ Reported(r).end = clock
        /\ Reported(r).created = started[r]
    BY DEF Reported
  <2>3. PastRows'
    BY <2>1, <2>2 DEF PastRows
  <2>4. BlockedHasCause'
    BY <2>1, <2>2 DEF BlockedHasCause
  <2>5. CascadeSkipsRecorded'
    BY <2>1, <2>2 DEF CascadeSkipsRecorded, PastRows
  <2> QED  BY <2>3, <2>4, <2>5
<1>3. CASE CascadeCommit(r)
  <2>1. /\ pc[r] = "block" /\ clock' = clock /\ started[r] < clock
        /\ rows' = rows \cup {Blocked(r, c) : c \in pend[r]}
    BY <1>3 DEF CascadeCommit, RequestInv, PastStart
  <2>2. \A c : /\ Blocked(r, c).origin = "cascade" /\ Blocked(r, c).end = clock
               /\ Blocked(r, c).created = started[r] /\ Blocked(r, c).by = r
               /\ Blocked(r, c).build = req[r].build /\ Blocked(r, c).case = c
    BY DEF Blocked
  <2>3. PastRows'
    BY <2>1, <2>2 DEF PastRows
  <2>4. BlockedHasCause'
    <3>1. PICK y \in Trigger(r) : TRUE
      BY <2>1 DEF RequestInv, Caused
    <3>2. /\ y \in rows /\ y.origin = "reported" /\ y.by = r /\ y.build = req[r].build
          /\ y.status \in {"fail", "blocked"} /\ y.created < started[r]
          /\ y.case = req[r].case
      BY <2>1, <3>1 DEF Trigger, RequestInv, Caused, Cascades
    <3>3. \A c \in pend[r] : c \in Downstream[y.case] \cap Members[req[r].build]
      BY <2>1, <3>2 DEF RequestInv, OnTarget, Targets
    <3> QED  BY <2>1, <2>2, <3>2, <3>3 DEF BlockedHasCause
  <2>5. CascadeSkipsRecorded'
    BY <2>1, <2>2 DEF CascadeSkipsRecorded, RequestInv, PendingUnrecorded, PastRows
  <2> QED  BY <2>3, <2>4, <2>5
<1>4. rows' = rows \/ Commit(r) \/ CascadeCommit(r)
  BY DEF Step, Primary, Cascade, Begin, SelectBuild, InsertBuild, LoseInsertRace,
         BackfillBuild, LeaveBuild, RejectSteps, CascadeBegin, CascadeCheck, CascadeFail,
         Reply, Crash, Retry, Rollback, EndTransaction, db
<1> QED  BY <1>1, <1>2, <1>3, <1>4

\* The cascade invariant holds before anything is recorded.
LEMMA CascadeInit == Init => CascadeInv
  BY DEF Init, CascadeInv, PastRows, BlockedHasCause, CascadeSkipsRecorded, RequestInv,
         PastStart, Caused, OnTarget, Progress, PendingUnrecorded, Complete, Uncommitted

\* Every step keeps the cascade invariant: RowsKept for the table, OwnKept for the
\* request that moved, OthersKept for the rest.
LEMMA CascadeStep == TypeInv /\ CascadeInv /\ [Next]_vars => CascadeInv'
<1> SUFFICES ASSUME TypeInv, CascadeInv, [Next]_vars PROVE CascadeInv'
  OBVIOUS
<1>1. TypeOK /\ TypeOK'
  BY TypeStep DEF TypeInv
<1>2. ASSUME NEW r \in Recorders, Step(r) PROVE CascadeInv'
  <2>1. Frame(r)
    BY <1>1, <1>2, StepFrame
  <2>2. \A s \in Recorders : RequestInv(s)'
    BY <1>1, <1>2, <2>1, OwnKept, OthersKept DEF CascadeInv
  <2> QED  BY <1>1, <1>2, <2>1, <2>2, RowsKept DEF CascadeInv
<1>3. CASE UNCHANGED vars
  BY <1>3 DEF vars, CascadeInv, PastRows, BlockedHasCause, CascadeSkipsRecorded, RequestInv,
              PastStart, Caused, Trigger, OnTarget, Progress, PendingUnrecorded, Complete, Recorded
<1> QED  BY <1>2, <1>3 DEF Next, Step

\* The types and the cascade invariant hold in every reachable state.
LEMMA CascadeInvariant == Spec => [](TypeInv /\ CascadeInv)
  BY TypeInit, TypeStep, CascadeInit, CascadeStep, PTL DEF Spec

\* An auto-block is never recorded without a committed failure upstream of it, in the same
\* build, however requests interleave, fail and are retried.
THEOREM BlockedHasCauseHolds == Spec => []BlockedHasCause
<1>1. CascadeInv => BlockedHasCause
  BY DEF CascadeInv
<1> QED  BY <1>1, CascadeInvariant, PTL

\* No result that was in the database when a cascade began is ranked below its auto-block.
THEOREM CascadeSkipsRecordedHolds == Spec => []CascadeSkipsRecorded
<1>1. CascadeInv => CascadeSkipsRecorded
  BY DEF CascadeInv
<1> QED  BY <1>1, CascadeInvariant, PTL

\* A cascade that is answered without an error has left no target unrecorded.
THEOREM CascadeIsCompleteHolds == Spec => []CascadeIsComplete
<1>1. CascadeInv => CascadeIsComplete
  BY DEF CascadeInv, RequestInv, Complete, CascadeIsComplete
<1> QED  BY <1>1, CascadeInvariant, PTL
-----------------------------------------------------------------------------
(***************************************************************************)
(* The build's metadata                                                    *)
(***************************************************************************)

\* A step that writes no build and moves r to a place outside write and commit, or to
\* one where it holds what that place requires, keeps BuildInv.
LEMMA BuildStep ==
  ASSUME TypeInv, BuildInv, NEW r \in Recorders, Step(r)
  PROVE  BuildInv'
<1> USE DomainAssumption DEF TypeInv, TypeOK, Goto, BuildInv
<1>1. CASE Begin(r) \/ CascadeBegin(r) \/ CascadeCheck(r) \/ Reply(r) \/ Retry(r)
  <2>1. /\ present' = present /\ meta' = meta /\ owner' = owner /\ req' = req /\ seen' = seen
        /\ pc'[r] \notin {"write", "commit"}
        /\ \A s \in Recorders \ {r} : pc'[s] = pc[s]
    BY <1>1 DEF Begin, CascadeBegin, CascadeCheck, Reply, Retry, db, client
  <2> QED  BY <2>1
<1>2. CASE SelectBuild(r)
  BY <1>2 DEF SelectBuild, db, client
<1>3. CASE InsertBuild(r)
  <2>1. req[r].build \in Builds /\ req[r].build \notin present
    BY <1>3, ResolvedRequest DEF InsertBuild, Resolved, Uncommitted
  <2>2. /\ present' = present /\ meta' = meta /\ req' = req /\ seen' = seen /\ seen[r] = None
        /\ owner[req[r].build] = None /\ owner' = [owner EXCEPT ![req[r].build] = r]
        /\ \A s \in Recorders \ {r} : pc'[s] = pc[s]
    BY <1>3 DEF InsertBuild
  <2> QED  BY <2>1, <2>2
<1>4. CASE BackfillBuild(r)
  <2>1. req[r].build \in Builds /\ req[r].build \in present
    BY <1>4, ResolvedRequest DEF BackfillBuild, Resolved, Uncommitted
  <2>2. /\ present' = present /\ meta' = meta /\ req' = req /\ seen' = seen /\ seen[r] # None
        /\ owner[req[r].build] = None /\ owner' = [owner EXCEPT ![req[r].build] = r]
        /\ pc[r] = "write" /\ \A s \in Recorders \ {r} : pc'[s] = pc[s]
    BY <1>4 DEF BackfillBuild
  <2> QED  BY <2>1, <2>2
<1>5. CASE LeaveBuild(r)
  <2>1. /\ present' = present /\ meta' = meta /\ owner' = owner /\ req' = req /\ seen' = seen
        /\ pc[r] = "write" /\ (req[r].build = None \/ seen[r] # None)
        /\ \A s \in Recorders \ {r} : pc'[s] = pc[s]
    BY <1>5 DEF LeaveBuild, db, client
  <2>2. \A s \in Recorders : pc'[s] \in {"write", "commit"} => pc[s] \in {"write", "commit"}
    BY <2>1
  <2> QED  BY <2>1, <2>2
<1>6. CASE \/ LoseInsertRace(r) \/ RejectSteps(r) \/ CascadeCommit(r) \/ CascadeFail(r)
           \/ Crash(r)
  <2>1. /\ present' = present /\ meta' = meta /\ req' = req
        /\ pc'[r] \notin {"write", "commit"}
        /\ owner' = [c \in Builds |-> IF owner[c] = r THEN None ELSE owner[c]]
        /\ \A s \in Recorders \ {r} : pc'[s] = pc[s] /\ seen'[s] = seen[s]
    BY <1>6 DEF LoseInsertRace, RejectSteps, CascadeCommit, CascadeFail, Crash, Rollback,
                EndTransaction
  <2>2. ASSUME NEW s \in Recorders \ {r}, pc[s] = "commit", req[s].build # None, seen[s] = None
        PROVE  owner'[req[s].build] = s /\ req[s].build \notin present
    <3>1. req[s].build \in Builds
      BY <2>2, ResolvedRequest DEF Resolved, Uncommitted
    <3> QED  BY <2>1, <2>2, <3>1
  <2> QED  BY <2>1, <2>2
<1>7. CASE Commit(r)
  <2> DEFINE b == req[r].build
  <2>1. /\ present' = present \cup ({b} \ {None}) /\ meta' = Upserted(r) /\ req' = req
        /\ pc[r] = "commit" /\ pc' = [pc EXCEPT ![r] = IF Cascades(req[r]) THEN "cascade" ELSE "reply"]
        /\ seen' = [seen EXCEPT ![r] = None]
        /\ owner' = [c \in Builds |-> IF owner[c] = r THEN None ELSE owner[c]]
    BY <1>7 DEF Commit, EndTransaction
  <2>2. b \in Builds \cup {None}
    BY <2>1, ResolvedRequest DEF Resolved, Uncommitted
  <2>3. \A c \in Builds : c # b => meta'[c] = meta[c]
    BY <2>1, <2>2 DEF Upserted
  <2>4. \A c \in Builds \ present', f \in Fields : meta'[c][f] = None
    BY <2>1, <2>3
  <2>5. ASSUME NEW s \in Recorders, pc'[s] \in {"write", "commit"}, seen'[s] # None
        PROVE  req'[s].build \in present'
    BY <2>1, <2>5
  <2>6. ASSUME NEW s \in Recorders, pc'[s] = "commit", req[s].build # None, seen'[s] = None
        PROVE  owner'[req[s].build] = s /\ req[s].build \notin present'
    <3>1. s # r /\ pc[s] = "commit" /\ seen[s] = None
      BY <2>1, <2>6
    <3>2. owner[req[s].build] = s /\ req[s].build \notin present
      BY <2>6, <3>1
    <3>3. req[s].build \in Builds
      BY <2>6, <3>1, ResolvedRequest DEF Resolved, Uncommitted
    <3>4. req[s].build # b
      BY <2>1, <3>1, <3>2, <3>3
    <3> QED  BY <2>1, <3>1, <3>2, <3>3, <3>4
  <2> QED  BY <2>1, <2>4, <2>5, <2>6
<1> QED
  BY <1>1, <1>2, <1>3, <1>4, <1>5, <1>6, <1>7 DEF Step, Primary, Cascade

\* What a request holds of a build while it upserts it holds in every reachable state.
LEMMA BuildInvariant == Spec => [](TypeInv /\ BuildInv)
<1>1. Init => BuildInv
  BY DEF Init, BuildInv
<1>2. TypeInv /\ BuildInv /\ [Next]_vars => BuildInv'
  <2>1. ASSUME TypeInv, BuildInv, UNCHANGED vars PROVE BuildInv'
    BY <2>1 DEF BuildInv, vars
  <2> QED  BY <2>1, BuildStep DEF Next, Step
<1> QED  BY <1>1, <1>2, TypeInit, TypeStep, PTL DEF Spec

\* One step changes metadata only by committing a request, which writes what it supplies
\* and only where it had read NULL.
LEMMA MetadataStep ==
  ASSUME TypeInv, BuildInv, NEW r \in Recorders, Step(r),
         NEW b \in Builds, NEW f \in Fields, meta'[b][f] # meta[b][f]
  PROVE  /\ Commit(r) /\ req[r].build = b /\ meta'[b][f] = req[r].meta[f] /\ meta'[b][f] # None
         /\ meta[b][f] # None => seen[r] # None /\ seen[r][f] = None
<1> USE DEF TypeInv, TypeOK
<1>1. Commit(r)
  BY DEF Step, Primary, Cascade, Begin, SelectBuild, InsertBuild, LoseInsertRace,
         BackfillBuild, LeaveBuild, RejectSteps, CascadeBegin, CascadeCheck, CascadeCommit,
         CascadeFail, Reply, Crash, Retry, Rollback, EndTransaction, db
<1>2. meta' = Upserted(r) /\ pc[r] = "commit"
  BY <1>1 DEF Commit
<1>3. req[r].build = b /\ b # None
  BY <1>2, DomainAssumption DEF Upserted
<1>4. CASE seen[r] = None
  <2>1. meta'[b] = req[r].meta
    BY <1>2, <1>3, <1>4 DEF Upserted
  <2>2. meta[b][f] = None
    BY <1>2, <1>3, <1>4 DEF BuildInv
  <2> QED  BY <1>1, <1>3, <2>1, <2>2
<1>5. CASE seen[r] # None
  <2>1. meta'[b][f] = IF f \in Backfilled(r) THEN req[r].meta[f] ELSE meta[b][f]
    BY <1>2, <1>3, <1>5 DEF Upserted
  <2> QED  BY <1>1, <1>3, <1>5, <2>1 DEF Backfilled
<1> QED  BY <1>4, <1>5

\* A field of a build, once set, is never cleared, and is overwritten only by a request
\* that had read it as NULL before it was set.
THEOREM OnlyStaleReadsOverwriteHolds == Spec => OnlyStaleReadsOverwrite
<1> DEFINE A == \A b \in Builds, f \in Fields :
       meta[b][f] # None /\ meta'[b][f] # meta[b][f] =>
         \E r \in Recorders : /\ pc[r] = "commit" /\ pc'[r] # "commit"
                              /\ req[r].build = b /\ seen[r] # None /\ seen[r][f] = None
                              /\ meta'[b][f] = req[r].meta[f] /\ meta'[b][f] # None
<1>1. TypeInv /\ BuildInv /\ [Next]_vars => [A]_vars
  <2> SUFFICES ASSUME TypeInv, BuildInv, Next, NEW b \in Builds, NEW f \in Fields,
                      meta[b][f] # None, meta'[b][f] # meta[b][f]
               PROVE  \E r \in Recorders :
                        /\ pc[r] = "commit" /\ pc'[r] # "commit"
                        /\ req[r].build = b /\ seen[r] # None /\ seen[r][f] = None
                        /\ meta'[b][f] = req[r].meta[f] /\ meta'[b][f] # None
    OBVIOUS
  <2>1. PICK r \in Recorders : Step(r)
    BY DEF Next, Step
  <2>2. Commit(r) /\ pc'[r] # "commit"
    BY <2>1, MetadataStep DEF Commit, Goto, TypeInv, TypeOK
  <2> QED  BY <2>1, <2>2, MetadataStep DEF Commit
<1> QED  BY <1>1, BuildInvariant, PTL DEF Spec, OnlyStaleReadsOverwrite

\* A request that has ever committed keeps having done so.
LEMMA CommittedKept ==
  ASSUME TypeOK, NEW r \in Recorders, Step(r), NEW s \in Recorders
  PROVE  /\ req'[s] = req[s]
         /\ pc[s] \in Committed \cup {"done"} \/ lost[s] > 0
              => pc'[s] \in Committed \cup {"done"} \/ lost'[s] > 0
<1> USE DEF TypeOK, Goto, Uncommitted, Committed, Final
<1>1. CASE Begin(r) \/ SelectBuild(r) \/ LoseInsertRace(r) \/ RejectSteps(r) \/ Retry(r)
  BY <1>1 DEF Begin, SelectBuild, LoseInsertRace, RejectSteps, Retry, Rollback, EndTransaction,
              db, client
<1>2. CASE InsertBuild(r) \/ BackfillBuild(r) \/ LeaveBuild(r)
  BY <1>2 DEF InsertBuild, BackfillBuild, LeaveBuild, client
<1>3. CASE Commit(r) \/ CascadeBegin(r) \/ CascadeCheck(r) \/ CascadeCommit(r)
  BY <1>3 DEF Commit, CascadeBegin, CascadeCheck, CascadeCommit, client
<1>4. CASE CascadeFail(r) \/ Reply(r)
  BY <1>4 DEF CascadeFail, Reply, client
<1>5. CASE Crash(r)
  BY <1>5 DEF Crash
<1> QED  BY <1>1, <1>2, <1>3, <1>4, <1>5 DEF Step, Primary, Cascade

\* No build shows a value supplied by a request that was rejected, rolled back or lost a
\* race and never got recorded.
THEOREM MetadataHasRecorderHolds == Spec => []MetadataHasRecorder
<1>1. Init => MetadataHasRecorder
  BY DEF Init, MetadataHasRecorder
<1>2. ASSUME TypeInv, BuildInv, MetadataHasRecorder, NEW r \in Recorders, Step(r)
      PROVE  MetadataHasRecorder'
  <2> SUFFICES ASSUME NEW b \in Builds, NEW f \in Fields, meta'[b][f] # None
               PROVE  \E s \in Recorders :
                        /\ req'[s].build = b /\ req'[s].meta[f] = meta'[b][f]
                        /\ pc'[s] \in Committed \cup {"done"} \/ lost'[s] > 0
    BY DEF MetadataHasRecorder
  <2>1. CASE meta'[b][f] = meta[b][f]
    <3>1. PICK s \in Recorders : /\ req[s].build = b /\ req[s].meta[f] = meta[b][f]
                                 /\ pc[s] \in Committed \cup {"done"} \/ lost[s] > 0
      BY <1>2, <2>1 DEF MetadataHasRecorder
    <3> QED  BY <1>2, <2>1, <3>1, CommittedKept DEF TypeInv
  <2>2. CASE meta'[b][f] # meta[b][f]
    <3>1. Commit(r) /\ req[r].build = b /\ meta'[b][f] = req[r].meta[f]
      BY <1>2, <2>2, MetadataStep
    <3>2. pc'[r] \in Committed /\ req' = req
      BY <1>2, <3>1 DEF Commit, Goto, Committed, TypeInv, TypeOK
    <3> QED  BY <3>1, <3>2
  <2> QED  BY <2>1, <2>2
<1>3. MetadataHasRecorder /\ UNCHANGED vars => MetadataHasRecorder'
  BY DEF MetadataHasRecorder, vars
<1>4. TypeInv /\ BuildInv /\ MetadataHasRecorder /\ [Next]_vars => MetadataHasRecorder'
  BY <1>2, <1>3 DEF Next, Step
<1> QED  BY <1>1, <1>4, BuildInvariant, PTL DEF Spec

-----------------------------------------------------------------------------
(***************************************************************************)
(* One result per answer                                                   *)
(***************************************************************************)

\* How many results r's client may account for.
Answers(r) == lost[r] + (IF pc[r] \in Committed \cup {"done"} THEN 1 ELSE 0)

Counted ==
  \A r \in Recorders :
    /\ IsFiniteSet(Primaries(r))
    /\ req[r].kind = "record" => Cardinality(Primaries(r)) = Answers(r)

\* Every step keeps the next created_at ahead of every row's.
LEMMA FreshStep ==
  ASSUME TypeInv, PastRows, Fresh, NEW r \in Recorders, Step(r)
  PROVE  Fresh'
<1> USE DEF TypeInv, TypeOK, Goto, Uncommitted, Committed, Final, Fresh, Primaries
<1>1. CASE Begin(r)
  BY <1>1 DEF Begin, db, PastRows
<1>2. CASE SelectBuild(r) \/ InsertBuild(r) \/ BackfillBuild(r) \/ LeaveBuild(r)
  BY <1>2 DEF SelectBuild, InsertBuild, BackfillBuild, LeaveBuild, db
<1>3. CASE LoseInsertRace(r) \/ RejectSteps(r) \/ CascadeFail(r) \/ Crash(r)
  BY <1>3 DEF LoseInsertRace, RejectSteps, CascadeFail, Crash, Rollback, EndTransaction
<1>4. CASE Commit(r)
  BY <1>4 DEF Commit, EndTransaction, Reported
<1>5. CASE CascadeBegin(r) \/ CascadeCheck(r) \/ Reply(r) \/ Retry(r)
  BY <1>5 DEF CascadeBegin, CascadeCheck, Reply, Retry, db
<1>6. CASE CascadeCommit(r)
  BY <1>6 DEF CascadeCommit, EndTransaction, Blocked
<1> QED  BY <1>1, <1>2, <1>3, <1>4, <1>5, <1>6 DEF Step, Primary, Cascade

\* Every step keeps the count: a commit adds one row and one answer due, a lost answer
\* moves from due to lost.
LEMMA CountedStep ==
  ASSUME TypeInv, Fresh, Counted, NEW r \in Recorders, Step(r)
  PROVE  Counted'
<1> USE DEF TypeInv, TypeOK, Goto, Uncommitted, Committed, Final, Counted
<1>1. CASE Commit(r)
  <2>1. /\ pc[r] = "commit" /\ pc'[r] \in Committed /\ lost' = lost /\ req' = req
        /\ \A s \in Recorders \ {r} : pc'[s] = pc[s]
    BY <1>1 DEF Commit, client
  <2>2. \A s \in Recorders \ {r} : Primaries(s)' = Primaries(s)
    BY <1>1 DEF Commit, Primaries, Reported
  <2>3. CASE req[r].kind = "record"
    <3>1. Primaries(r)' = Primaries(r) \cup {Reported(r)}
      BY <1>1, <2>3 DEF Commit, Primaries, Reported
    <3>2. Reported(r) \notin Primaries(r)
      BY <2>1 DEF Fresh, Reported
    <3>3. /\ IsFiniteSet(Primaries(r)')
          /\ Cardinality(Primaries(r)') = Cardinality(Primaries(r)) + 1
      BY <3>1, <3>2, FS_AddElement
    <3> QED  BY <2>1, <2>2, <2>3, <3>3 DEF Answers
  <2>4. CASE req[r].kind # "record"
    <3>1. Primaries(r)' = Primaries(r)
      BY <1>1, <2>4 DEF Commit, Primaries
    <3> QED  BY <2>1, <2>2, <2>4, <3>1 DEF Answers
  <2> QED  BY <2>3, <2>4
<1>2. ASSUME ~ Commit(r)
      PROVE  \A s \in Recorders : Primaries(s)' = Primaries(s)
  <2>1. CASE CascadeCommit(r)
    BY <2>1 DEF CascadeCommit, Primaries, Blocked
  <2>2. CASE ~ CascadeCommit(r)
    BY <1>2, <2>2 DEF Primaries, Step, Primary, Cascade, Begin, SelectBuild, InsertBuild,
         LoseInsertRace, BackfillBuild, LeaveBuild, RejectSteps, CascadeBegin, CascadeCheck,
         CascadeFail, Reply, Crash, Retry, Rollback, EndTransaction, db
  <2> QED  BY <2>1, <2>2
<1>3. ASSUME ~ Commit(r)
      PROVE  \A s \in Recorders : Answers(s)' = Answers(s) /\ req'[s] = req[s]
  <2> USE DEF Answers
  <2>1. CASE Begin(r) \/ SelectBuild(r) \/ LoseInsertRace(r) \/ RejectSteps(r) \/ Retry(r)
    BY <2>1 DEF Begin, SelectBuild, LoseInsertRace, RejectSteps, Retry, Rollback, EndTransaction,
                db, client
  <2>2. CASE InsertBuild(r) \/ BackfillBuild(r) \/ LeaveBuild(r)
    BY <2>2 DEF InsertBuild, BackfillBuild, LeaveBuild, client
  <2>3. CASE CascadeBegin(r) \/ CascadeCheck(r) \/ CascadeCommit(r)
    BY <2>3 DEF CascadeBegin, CascadeCheck, CascadeCommit, client
  <2>4. CASE CascadeFail(r) \/ Reply(r)
    BY <2>4 DEF CascadeFail, Reply, client
  <2>5. CASE Crash(r)
    BY <2>5 DEF Crash
  <2> QED  BY <1>3, <2>1, <2>2, <2>3, <2>4, <2>5 DEF Step, Primary, Cascade
<1> QED  BY <1>1, <1>2, <1>3

\* A client can account for every result its report left in the database: the one it was
\* told of, and one for each answer it lost after the commit.
THEOREM OneResultPerAnswerHolds == Spec => []OneResultPerAnswer
<1>1. Init => Fresh /\ Counted
  <2> SUFFICES ASSUME Init PROVE Fresh /\ Counted
    OBVIOUS
  <2>1. \A r \in Recorders : Primaries(r) = {}
    BY DEF Init, Primaries
  <2> QED
    BY <2>1, FS_EmptySet DEF Init, Fresh, Counted, Answers, Uncommitted, Committed
<1>2. TypeInv /\ CascadeInv /\ Fresh /\ Counted /\ [Next]_vars => Fresh' /\ Counted'
  <2> SUFFICES ASSUME TypeInv, CascadeInv, Fresh, Counted, [Next]_vars
               PROVE  Fresh' /\ Counted'
    OBVIOUS
  <2>1. CASE UNCHANGED vars
    BY <2>1 DEF vars, Fresh, Counted, Primaries, Answers
  <2>2. ASSUME NEW r \in Recorders, Step(r) PROVE Fresh' /\ Counted'
    BY <2>2, FreshStep, CountedStep DEF CascadeInv
  <2> QED  BY <2>1, <2>2 DEF Next, Step
<1>3. Counted => OneResultPerAnswer
  BY DEF Counted, Answers, OneResultPerAnswer
<1> QED  BY <1>1, <1>2, <1>3, CascadeInvariant, PTL DEF Spec

-----------------------------------------------------------------------------
(***************************************************************************)
(* Recording implements Ledger                                             *)
(***************************************************************************)

\* What a request has read of a build's metadata is still set.
SeenLasts ==
  \A r \in Recorders, f \in Fields :
    pc[r] \in {"write", "commit"} /\ seen[r] # None /\ seen[r][f] # None
      => meta[req[r].build][f] # None

LEMMA SeenLastsStep ==
  ASSUME TypeInv, BuildInv, SeenLasts, NEW r \in Recorders, Step(r)
  PROVE  SeenLasts'
<1> USE DEF TypeInv, TypeOK, Goto
<1>1. \A b \in Builds, f \in Fields : meta[b][f] # None => meta'[b][f] # None
  BY MetadataStep
<1>2. CASE SelectBuild(r)
  BY <1>2 DEF SelectBuild, SeenLasts, db, client
<1>3. CASE InsertBuild(r) \/ BackfillBuild(r) \/ LeaveBuild(r)
  <2>1. /\ seen' = seen /\ req' = req /\ meta' = meta /\ pc[r] = "write"
        /\ \A s \in Recorders \ {r} : pc'[s] = pc[s]
    BY <1>3 DEF InsertBuild, BackfillBuild, LeaveBuild, db, client
  <2> QED  BY <2>1 DEF SeenLasts
<1>4. CASE ~ (SelectBuild(r) \/ InsertBuild(r) \/ BackfillBuild(r) \/ LeaveBuild(r))
  <2>1. /\ req' = req /\ pc'[r] \notin {"write", "commit"}
        /\ \A s \in Recorders \ {r} : pc'[s] = pc[s] /\ seen'[s] = seen[s]
    BY <1>4 DEF Step, Primary, Cascade, Begin, LoseInsertRace, RejectSteps, Commit, CascadeBegin,
         CascadeCheck, CascadeCommit, CascadeFail, Reply, Crash, Retry, Rollback,
         EndTransaction, db, client
  <2> SUFFICES ASSUME NEW s \in Recorders, NEW f \in Fields, s # r,
                      pc[s] \in {"write", "commit"}, seen[s] # None, seen[s][f] # None
               PROVE  meta'[req[s].build][f] # None
    BY <2>1 DEF SeenLasts
  <2>2. req[s].build \in present /\ req[s].build \in Builds
    BY DEF BuildInv
  <2> QED  BY <1>1, <2>2 DEF SeenLasts
<1> QED  BY <1>2, <1>3, <1>4

\* The place of one request is all that the mapping sees of a step.
LEMMA StandingMoves ==
  ASSUME TypeOK, TypeOK', NEW r \in Recorders, NEW p, Goto(r, p), NEW from,
         Standing(pc[r]) \in from, req' = req
  PROVE  Promise!Moves(r, from, Standing(p))
  BY DEF Promise!Moves, Goto, TypeOK

\* A commit posts the report, whole.
LEMMA CommitPosts ==
  ASSUME TypeInv, TypeOK', BuildInv, SeenLasts, Fresh, NEW r \in Recorders, Commit(r)
  PROVE  Promise!Post(r)
<1> DEFINE b == req[r].build
<1>1. /\ pc[r] = "commit" /\ req' = req
      /\ Goto(r, IF Cascades(req[r]) THEN "cascade" ELSE "reply")
      /\ present' = present \cup ({b} \ {None}) /\ meta' = Upserted(r)
      /\ rows' = IF req[r].kind = "record" THEN rows \cup {Reported(r)} ELSE rows
  BY DEF Commit
<1>2. Promise!Moves(r, {"pending"},
                    IF req[r] \in {q \in Requests : Cascades(q)} THEN "spreading" ELSE "settled")
  <2>1. Standing(pc[r]) \in {"pending"}
    BY <1>1 DEF Standing, Uncommitted
  <2>2. req[r] \in {q \in Requests : Cascades(q)} <=> Cascades(req[r])
    BY DEF TypeInv, TypeOK
  <2>3. Standing("cascade") = "spreading" /\ Standing("reply") = "settled"
    BY DEF Standing, Uncommitted
  <2>4. CASE Cascades(req[r])
    BY <1>1, <2>1, <2>2, <2>3, <2>4, StandingMoves DEF TypeInv
  <2>5. CASE ~ Cascades(req[r])
    BY <1>1, <2>1, <2>2, <2>3, <2>5, StandingMoves DEF TypeInv
  <2> QED  BY <2>4, <2>5
<1>3. ASSUME req[r].kind = "record" PROVE Promise!PostResult(r)
  <2>1. Reported(r) \notin rows
    <3>1. ASSUME Reported(r) \in rows PROVE Reported(r) \in Primaries(r)
      BY <3>1 DEF Primaries, Reported
    <3>2. \A x \in Primaries(r) : x.created < started[r]
      BY <1>1 DEF Fresh, Uncommitted
    <3>3. started[r] \in Nat /\ Reported(r).created = started[r]
      BY DEF TypeInv, TypeOK, Reported
    <3> QED  BY <3>1, <3>2, <3>3
  <2>2. rows' = rows \cup {Reported(r)} /\ Reported(r) \in rows' \ rows
    BY <1>1, <1>3, <2>1
  <2>3. /\ Reported(r).build = b /\ Reported(r).case = req[r].case
        /\ Reported(r).status = req[r].status
        /\ Reported(r).by = r /\ Reported(r).origin = "reported"
    BY DEF Reported
  <2> QED  BY <2>2, <2>3 DEF Promise!PostResult
<1>4. Promise!PostBuild(r)
  <2>1. ASSUME NEW d \in Builds, NEW f \in Fields, meta'[d][f] # meta[d][f]
        PROVE  d = b /\ meta'[d][f] = req[r].meta[f]
    BY <2>1, MetadataStep DEF Step, Primary
  <2>2. ASSUME NEW f \in Fields, b \in Builds, meta[b][f] = None
        PROVE  meta'[b][f] = req[r].meta[f]
    <3>0. b # None
      BY <2>2, DomainAssumption
    <3>1. CASE seen[r] = None
      BY <1>1, <2>2, <3>0, <3>1 DEF Upserted, TypeInv, TypeOK
    <3>2. CASE seen[r] # None
      <4>1. seen[r][f] = None
        BY <1>1, <2>2, <3>2 DEF SeenLasts
      <4>2. meta'[b][f] = IF f \in Backfilled(r) THEN req[r].meta[f] ELSE meta[b][f]
        BY <1>1, <2>2, <3>0, <3>2 DEF Upserted, TypeInv, TypeOK
      <4> QED  BY <2>2, <4>1, <4>2 DEF Backfilled
    <3> QED  BY <3>1, <3>2
  <2> QED  BY <1>1, <2>1, <2>2 DEF Promise!PostBuild
<1> QED  BY <1>1, <1>2, <1>3, <1>4 DEF Promise!Post

\* The end of a cascade posts its auto-blocks, whole.
LEMMA CascadeSpreads ==
  ASSUME TypeInv, TypeOK', CascadeInv, NEW r \in Recorders, CascadeCommit(r)
  PROVE  Promise!Spread(r)
<1>1. /\ pc[r] = "block" /\ todo[r] = {} /\ req' = req /\ Goto(r, "reply")
      /\ rows' = rows \cup {Blocked(r, c) : c \in pend[r]}
      /\ present' = present /\ meta' = meta
  BY DEF CascadeCommit
<1>2. Promise!Moves(r, {"spreading"}, "settled")
  <2>1. Standing(pc[r]) \in {"spreading"} /\ Standing("reply") = "settled"
    BY <1>1 DEF Standing, Uncommitted
  <2> QED  BY <1>1, <2>1, StandingMoves DEF TypeInv
<1>3. req[r] \in Requests
  BY DEF TypeInv, TypeOK
<1> DEFINE scope == [q \in Requests |-> Targets(q)][req[r]]
<1>4. scope = Targets(req[r])
  BY <1>3
<1>5. \A c : /\ Blocked(r, c).build = req[r].build /\ Blocked(r, c).case = c
             /\ Blocked(r, c).status = "blocked" /\ Blocked(r, c).by = r
             /\ Blocked(r, c).origin = "cascade" /\ Blocked(r, c).created = started[r]
  BY DEF Blocked
<1>6. ASSUME NEW x \in rows' \ rows
      PROVE  /\ x.build = req[r].build /\ x.case \in scope
             /\ x.status = "blocked" /\ x.by = r /\ x.origin = "cascade"
             /\ \A y \in rows : y.build = x.build /\ y.case = x.case => y.end > x.created
             /\ \A y \in rows' \ rows : y.case = x.case => y = x
  <2>1. PICK c \in pend[r] : x = Blocked(r, c)
    BY <1>1
  <2>2. c \in Targets(req[r])
    BY <1>1 DEF CascadeInv, RequestInv, OnTarget
  <2>3. \A y \in rows : y.build = req[r].build /\ y.case = c => y.end > started[r]
    BY <1>1 DEF CascadeInv, RequestInv, PendingUnrecorded
  <2>4. \A y \in rows' \ rows : y.case = x.case => y = x
    BY <1>1, <1>5, <2>1
  <2> QED  BY <1>4, <1>5, <2>1, <2>2, <2>3, <2>4
<1>7. ASSUME NEW c \in scope
      PROVE  \E y \in rows' : y.build = req[r].build /\ y.case = c
  <2>1. c \in pend[r] \/ Recorded(req[r].build, c)
    BY <1>1, <1>4, <1>7 DEF CascadeInv, RequestInv, Progress
  <2> QED  BY <1>1, <1>5, <2>1 DEF Recorded
<1> QED  BY <1>1, <1>2, <1>6, <1>7 DEF Promise!Spread

\* A step that changes nothing anyone can see is a step of the request's standing, or none.
LEMMA Unseen ==
  ASSUME TypeInv, TypeOK', NEW r \in Recorders, Step(r), ~ Commit(r), ~ CascadeCommit(r)
  PROVE  [Promise!Next]_(Promise!vars)
<1> USE DEF TypeInv
<1>1. rows' = rows /\ present' = present /\ meta' = meta /\ req' = req
  BY DEF Step, Primary, Cascade, Begin, SelectBuild, InsertBuild, LoseInsertRace, BackfillBuild,
         LeaveBuild, RejectSteps, CascadeBegin, CascadeCheck, CascadeFail, Reply, Crash, Retry,
         Rollback, EndTransaction, db, client
<1>2. UNCHANGED Promise!shown
  BY <1>1 DEF Promise!shown
<1>3. ASSUME NEW p, Goto(r, p), Standing(p) = Standing(pc[r])
      PROVE  UNCHANGED Promise!vars
  BY <1>1, <1>3 DEF Promise!vars, Goto, TypeOK
<1>4. ASSUME NEW p, Goto(r, p), Standing(pc[r]) = "pending", Standing(p) = "refused"
      PROVE  Promise!Refuse(r)
  BY <1>1, <1>2, <1>4, StandingMoves DEF Promise!Refuse
<1>5. ASSUME NEW p, Goto(r, p), Standing(pc[r]) \in {"pending", "spreading", "settled"},
             Standing(p) = "error"
      PROVE  Promise!Fail(r)
  BY <1>1, <1>2, <1>5, StandingMoves DEF Promise!Fail
<1> USE DEF Standing, Uncommitted, Committed
<1>6. CASE Begin(r)
  <2>1. CASE Goto(r, "rejected")
    BY <1>4, <1>6, <2>1 DEF Begin, Promise!Next
  <2>2. CASE Goto(r, "select")
    BY <1>3, <1>6, <2>2 DEF Begin
  <2> QED  BY <1>6, <2>1, <2>2 DEF Begin
<1>7. CASE SelectBuild(r)
  BY <1>3, <1>7 DEF SelectBuild
<1>8. CASE InsertBuild(r) \/ BackfillBuild(r) \/ LeaveBuild(r)
  BY <1>3, <1>8 DEF InsertBuild, BackfillBuild, LeaveBuild
<1>9. CASE LoseInsertRace(r)
  BY <1>5, <1>9 DEF LoseInsertRace, Promise!Next
<1>10. CASE RejectSteps(r)
  BY <1>4, <1>10 DEF RejectSteps, Promise!Next
<1>11. CASE CascadeBegin(r)
  BY <1>3, <1>11 DEF CascadeBegin
<1>12. CASE CascadeCheck(r)
  <2>1. UNCHANGED Promise!vars
    BY <1>1, <1>12 DEF CascadeCheck, Promise!vars
  <2> QED  BY <2>1
<1>13. CASE CascadeFail(r)
  <2>1. Standing(pc[r]) \in {"spreading"} /\ Goto(r, "reply") /\ Standing("reply") = "settled"
    BY <1>13 DEF CascadeFail
  <2>2. Promise!GiveUpSpreading(r)
    BY <1>1, <1>2, <2>1, StandingMoves DEF Promise!GiveUpSpreading
  <2> QED  BY <2>2 DEF Promise!Next
<1>14. CASE Reply(r)
  <2>1. Standing(pc[r]) \in {"settled"} /\ Goto(r, "done") /\ Standing("done") = "answered"
    BY <1>14 DEF Reply
  <2>2. Promise!Answer(r)
    BY <1>1, <1>2, <2>1, StandingMoves DEF Promise!Answer
  <2> QED  BY <2>2 DEF Promise!Next
<1>15. CASE Crash(r)
  BY <1>5, <1>15 DEF Crash, Promise!Next
<1>16. CASE Retry(r)
  <2>1. Standing(pc[r]) \in {"error"} /\ Goto(r, "idle") /\ Standing("idle") = "pending"
    BY <1>16 DEF Retry
  <2>2. Promise!Resend(r)
    BY <1>1, <1>2, <2>1, StandingMoves DEF Promise!Resend
  <2> QED  BY <2>2 DEF Promise!Next
<1> QED
  BY <1>6, <1>7, <1>8, <1>9, <1>10, <1>11, <1>12, <1>13, <1>14, <1>15, <1>16
     DEF Step, Primary, Cascade

\* Every behaviour of the handlers is, seen from outside, a behaviour of the ledger.
THEOREM LedgerImplemented == Spec => ImplementsLedger
<1> DEFINE Inv == TypeInv /\ CascadeInv /\ BuildInv /\ Fresh /\ SeenLasts
<1>1. Init => Promise!Init
  BY DomainAssumption
     DEF Init, Promise!Init, Standing, Uncommitted
<1>2. Init => Fresh /\ SeenLasts
  BY DEF Init, Fresh, SeenLasts, Primaries, Uncommitted
<1>3. Inv /\ [Next]_vars => Fresh' /\ SeenLasts'
  <2> SUFFICES ASSUME Inv, [Next]_vars PROVE Fresh' /\ SeenLasts'
    OBVIOUS
  <2>1. CASE UNCHANGED vars
    BY <2>1 DEF vars, Fresh, SeenLasts, Primaries
  <2>2. ASSUME NEW r \in Recorders, Step(r) PROVE Fresh' /\ SeenLasts'
    BY <2>2, FreshStep, SeenLastsStep DEF CascadeInv
  <2> QED  BY <2>1, <2>2 DEF Next, Step
<1>4. Inv /\ TypeInv' /\ [Next]_vars => [Promise!Next]_(Promise!vars)
  <2> SUFFICES ASSUME Inv, TypeInv', [Next]_vars PROVE [Promise!Next]_(Promise!vars)
    OBVIOUS
  <2>1. CASE UNCHANGED vars
    BY <2>1 DEF vars, Promise!vars
  <2>2. ASSUME NEW r \in Recorders, Step(r) PROVE [Promise!Next]_(Promise!vars)
    <3>1. CASE Commit(r)
      BY <3>1, CommitPosts DEF Promise!Next, TypeInv
    <3>2. CASE CascadeCommit(r)
      BY <3>2, CascadeSpreads DEF Promise!Next, TypeInv
    <3>3. CASE ~ Commit(r) /\ ~ CascadeCommit(r)
      BY <2>2, <3>3, Unseen DEF TypeInv
    <3> QED  BY <3>1, <3>2, <3>3
  <2> QED  BY <2>1, <2>2 DEF Next, Step
<1>5. Spec => [](TypeInv /\ CascadeInv) /\ [](TypeInv /\ BuildInv)
  BY CascadeInvariant, BuildInvariant
<1> QED  BY <1>1, <1>2, <1>3, <1>4, <1>5, PTL DEF Spec, ImplementsLedger, Promise!Spec

-----------------------------------------------------------------------------
(***************************************************************************)
(* Requests that take turns                                                *)
(*                                                                         *)
(* Two claims of the code fail when requests overlap: the first recorder   *)
(* to supply a field wins, and a cascade never overrides a real result.    *)
(* Both hold of requests on one build that do not overlap, whatever        *)
(* crashes, is rejected or is sent again: the races are all that is wrong  *)
(* with them.                                                              *)
(***************************************************************************)

\* The server is working on r's report.
Busy(r) == pc[r] \in Uncommitted \cup Committed

\* It works on one report of a build at a time; reports outside any build may overlap.
InTurn ==
  \A r, s \in Recorders :
    Busy(r) /\ Busy(s) /\ req[r].build = req[s].build /\ req[r].build # None => r = s

\* What a request has read of its build is what the build still shows.
Sight ==
  \A r \in Recorders :
    pc[r] \in {"write", "commit"} /\ req[r].build # None
      => seen[r] = IF req[r].build \in present THEN meta[req[r].build] ELSE None

\* The transactions that will put their created_at on rows.
Open(r) == pc[r] \in Uncommitted \cup {"block"}

\* No two transactions have one created_at, so no report shares its own with an auto-block.
Stamped ==
  /\ \A r \in Recorders : Open(r) => \A x \in rows : x.created # started[r]
  /\ \A r, s \in Recorders : Open(r) /\ Open(s) /\ started[r] = started[s] => r = s
  /\ \A x, y \in rows : x.created = y.created => x.origin = y.origin

\* The cases a cascade is about to block still have no result.
StillUnrecorded ==
  \A r \in Recorders : pc[r] = "block" => \A c \in pend[r] : ~ Recorded(req[r].build, c)

\* A build changes only at the commit of a request for it.
LEMMA BuildWriter ==
  ASSUME TypeInv, NEW r \in Recorders, Step(r),
         NEW b \in Builds, meta'[b] # meta[b] \/ (b \in present') # (b \in present)
  PROVE  pc[r] = "commit" /\ req[r].build = b
<1> USE DEF TypeInv, TypeOK
<1>1. Commit(r)
  BY DEF Step, Primary, Cascade, Begin, SelectBuild, InsertBuild, LoseInsertRace,
         BackfillBuild, LeaveBuild, RejectSteps, CascadeBegin, CascadeCheck, CascadeCommit,
         CascadeFail, Reply, Crash, Retry, Rollback, EndTransaction, db
<1>2. meta' = Upserted(r) /\ present' = present \cup ({req[r].build} \ {None}) /\ pc[r] = "commit"
  BY <1>1 DEF Commit
<1> QED  BY <1>2 DEF Upserted

\* A request that has read its build has read what it shows now: only its own commit, which
\* ends its turn, changes the build.
LEMMA SightStep ==
  ASSUME TypeInv, TypeInv', InTurn, Sight, NEW r \in Recorders, Step(r)
  PROVE  Sight'
<1> USE DEF TypeInv, TypeOK, Goto
<1> SUFFICES ASSUME NEW s \in Recorders, pc'[s] \in {"write", "commit"}, req'[s].build # None
             PROVE  seen'[s] = IF req'[s].build \in present' THEN meta'[req'[s].build] ELSE None
  BY DEF Sight
<1>1. req'[s] = req[s] /\ req[s].build \in Builds
  BY StepFrame, ResolvedRequest DEF Frame, Resolved, Uncommitted
<1>2. CASE SelectBuild(r)
  BY <1>1, <1>2 DEF SelectBuild, Sight, db, client
<1>3. CASE ~ SelectBuild(r)
  <2>1. pc[s] \in {"write", "commit"} /\ seen'[s] = seen[s] /\ ~ (s = r /\ pc[s] = "commit")
    BY <1>3 DEF Step, Primary, Cascade, Begin, InsertBuild, LoseInsertRace,
         BackfillBuild, LeaveBuild, RejectSteps, Commit, CascadeBegin, CascadeCheck, CascadeCommit,
         CascadeFail, Reply, Crash, Retry, Rollback, EndTransaction, db, client
  <2>2. ASSUME pc[r] = "commit", req[r].build = req[s].build PROVE FALSE
    BY <1>1, <2>1, <2>2 DEF InTurn, Busy, Uncommitted
  <2>3. /\ meta'[req[s].build] = meta[req[s].build]
        /\ req[s].build \in present' <=> req[s].build \in present
    BY <1>1, <2>2, BuildWriter
  <2> QED  BY <1>1, <2>1, <2>3 DEF Sight
<1> QED  BY <1>2, <1>3

\* When the requests on a build take turns, the first recorder to supply a field wins, as
\* the comment of _upsert_build says: a field once set keeps its value.
THEOREM SerialFirstSupplierWins == Spec /\ []InTurn => FirstSupplierWins
<1> DEFINE A == \A b \in Builds, f \in Fields : meta[b][f] # None => meta'[b][f] = meta[b][f]
<1>1. Init => Sight
  BY DEF Init, Sight
<1>2. InTurn /\ TypeInv /\ TypeInv' /\ Sight /\ [Next]_vars => Sight'
  <2> SUFFICES ASSUME InTurn, TypeInv, TypeInv', Sight, [Next]_vars PROVE Sight'
    OBVIOUS
  <2>1. CASE UNCHANGED vars
    BY <2>1 DEF vars, Sight
  <2> QED  BY <2>1, SightStep DEF Next, Step
<1>3. TypeInv /\ BuildInv /\ Sight /\ [Next]_vars => [A]_vars
  <2> SUFFICES ASSUME TypeInv, BuildInv, Sight, Next, NEW b \in Builds, NEW f \in Fields,
                      meta[b][f] # None, meta'[b][f] # meta[b][f]
               PROVE  FALSE
    OBVIOUS
  <2>1. PICK r \in Recorders : Step(r)
    BY DEF Next, Step
  <2>2. Commit(r) /\ req[r].build = b /\ seen[r] # None /\ seen[r][f] = None
    BY <2>1, MetadataStep
  <2>3. seen[r] = meta[b]
    BY <2>2, DomainAssumption DEF Commit, Sight
  <2> QED  BY <2>2, <2>3
<1> QED  BY <1>1, <1>2, <1>3, BuildInvariant, PTL DEF Spec, FirstSupplierWins

\* A row is added by a report's commit or by a cascade's, and bears its created_at.
LEMMA RowWriter ==
  ASSUME TypeInv, NEW r \in Recorders, Step(r), NEW x \in rows' \ rows
  PROVE  /\ x.created = started[r] /\ x.build = req[r].build
         /\ \/ Commit(r) /\ x.origin = "reported"
            \/ CascadeCommit(r) /\ x.origin = "cascade" /\ x.case \in pend[r]
<1>1. CASE Commit(r)
  BY <1>1 DEF Commit, Reported
<1>2. CASE CascadeCommit(r)
  BY <1>2 DEF CascadeCommit, Blocked
<1>3. rows' = rows \/ Commit(r) \/ CascadeCommit(r)
  BY DEF Step, Primary, Cascade, Begin, SelectBuild, InsertBuild, LoseInsertRace,
         BackfillBuild, LeaveBuild, RejectSteps, CascadeBegin, CascadeCheck, CascadeFail,
         Reply, Crash, Retry, Rollback, EndTransaction, db
<1> QED  BY <1>1, <1>2, <1>3

\* A transaction that opens has a created_at of its own; one that puts rows in the database
\* closes.
LEMMA StampedStep ==
  ASSUME TypeInv, CascadeInv, Stamped, NEW r \in Recorders, Step(r)
  PROVE  Stamped'
<1> USE DEF TypeInv, TypeOK, Goto, Open
<1>1. \A s \in Recorders : Open(s) => started[s] < clock
  BY DEF CascadeInv, RequestInv, PastStart
<1>2. \A x \in rows : x.created < clock
  BY DEF CascadeInv, PastRows
<1>3. \A s \in Recorders \ {r} : pc'[s] = pc[s] /\ started'[s] = started[s]
  BY StepFrame DEF Frame
<1>4. CASE Begin(r) \/ CascadeBegin(r)
  <2>1. rows' = rows /\ started'[r] = clock
    BY <1>4 DEF Begin, CascadeBegin, db
  <2> QED  BY <1>1, <1>2, <1>3, <2>1 DEF Stamped
<1>5. CASE Commit(r) \/ CascadeCommit(r)
  <2>1. Open(r) /\ ~ Open(r)' /\ rows \subseteq rows'
    BY <1>5 DEF Commit, CascadeCommit, EndTransaction, Uncommitted
  <2>2. \A x \in rows' \ rows : x.created = started[r]
    BY RowWriter
  <2>3. \A x, y \in rows' \ rows : x.origin = y.origin
    BY RowWriter DEF Commit, CascadeCommit
  <2> QED  BY <1>3, <2>1, <2>2, <2>3 DEF Stamped
<1>6. CASE ~ (Begin(r) \/ CascadeBegin(r) \/ Commit(r) \/ CascadeCommit(r))
  <2>1. rows' = rows /\ (Open(r)' => Open(r) /\ started'[r] = started[r])
    BY <1>6 DEF Step, Primary, Cascade, SelectBuild, InsertBuild, LoseInsertRace,
         BackfillBuild, LeaveBuild, RejectSteps, CascadeCheck, CascadeFail,
         Reply, Crash, Retry, Rollback, EndTransaction, db, Uncommitted
  <2> QED  BY <1>3, <2>1 DEF Stamped
<1> QED  BY <1>4, <1>5, <1>6

\* While r's cascade has its turn, nobody else records in its build.
LEMMA StillUnrecordedStep ==
  ASSUME TypeInv, CascadeInv, InTurn, StillUnrecorded, NEW r \in Recorders, Step(r)
  PROVE  StillUnrecorded'
<1> USE DEF TypeInv, TypeOK, Goto
<1> SUFFICES ASSUME NEW s \in Recorders, pc'[s] = "block", NEW c \in pend'[s]
             PROVE  ~ Recorded(req[s].build, c)'
  BY StepFrame DEF StillUnrecorded, Recorded, Frame
<1>1. CASE CascadeBegin(r) /\ s = r
  BY <1>1 DEF CascadeBegin, CascadeInv, RequestInv, OnTarget
<1>2. CASE CascadeCheck(r) /\ s = r
  BY <1>2 DEF CascadeCheck, StillUnrecorded, Recorded, db
<1>3. CASE ~ (CascadeBegin(r) /\ s = r) /\ ~ (CascadeCheck(r) /\ s = r)
  <2>1. pc[s] = "block" /\ pend'[s] = pend[s] /\ s # r
    BY <1>3 DEF Step, Primary, Cascade, Begin, SelectBuild, InsertBuild, LoseInsertRace,
         BackfillBuild, LeaveBuild, RejectSteps, Commit, CascadeBegin, CascadeCheck, CascadeCommit,
         CascadeFail, Reply, Crash, Retry, Rollback, EndTransaction, db, client
  <2>2. req[s].build # None
    BY <2>1 DEF CascadeInv, RequestInv, Caused, Cascades
  <2>3. ASSUME NEW x \in rows' \ rows, x.build = req[s].build PROVE FALSE
    <3>1. req[r].build = req[s].build /\ pc[r] \in {"commit", "block"}
      BY <2>3, RowWriter DEF Commit, CascadeCommit
    <3> QED  BY <2>1, <2>2, <3>1 DEF InTurn, Busy, Uncommitted, Committed
  <2> QED  BY <2>1, <2>3, StepFrame DEF StillUnrecorded, Recorded, Frame
<1> QED  BY <1>1, <1>2, <1>3

\* When the requests on a build take turns, a cascade never overrides a real result, as the
\* docstring of _cascade_block says: no auto-block becomes current over a reported result.
THEOREM SerialNeverOverrides == Spec /\ []InTurn => NeverOverridesRealResult
<1> DEFINE A == \A x \in rows : x.origin = "reported" /\ x \in Current(x.build, x.case) =>
                  \A y \in Current(x.build, x.case)' : y.origin = "reported"
<1> DEFINE Inv == Stamped /\ StillUnrecorded
<1>1. Init => Inv
  BY DEF Init, Stamped, StillUnrecorded, Open, Uncommitted
<1>2. InTurn /\ TypeInv /\ CascadeInv /\ Inv /\ [Next]_vars => Inv'
  <2> SUFFICES ASSUME InTurn, TypeInv, CascadeInv, Inv, [Next]_vars PROVE Inv'
    OBVIOUS
  <2>1. CASE UNCHANGED vars
    BY <2>1 DEF vars, Stamped, StillUnrecorded, Recorded, Open
  <2>2. ASSUME NEW r \in Recorders, Step(r) PROVE Inv'
    BY <2>2, StampedStep, StillUnrecordedStep
  <2> QED  BY <2>1, <2>2 DEF Next, Step
<1>3. TypeInv /\ CascadeInv /\ Inv /\ [Next]_vars => [A]_vars
  <2> SUFFICES ASSUME TypeInv, CascadeInv, Inv, Next,
                      NEW x \in rows, x.origin = "reported", x \in Current(x.build, x.case),
                      NEW y \in Current(x.build, x.case)'
               PROVE  y.origin = "reported"
    OBVIOUS
  <2>1. PICK r \in Recorders : Step(r)
    BY DEF Next, Step
  <2>2. y \in rows' /\ y.build = x.build /\ y.case = x.case /\ rows \subseteq rows'
    BY <2>1, StepFrame DEF Current, Frame, TypeInv
  <2>3. CASE y \in rows
    <3>1. x.created <= y.created /\ y.created <= x.created
      BY <2>2, <2>3 DEF Current
    <3>2. x.created \in Nat /\ y.created \in Nat
      BY <2>3 DEF TypeInv, TypeOK, Row
    <3> QED  BY <2>3, <3>1, <3>2 DEF Stamped
  <2>4. CASE y \notin rows
    <3>1. ASSUME CascadeCommit(r), y.case \in pend[r], y.build = req[r].build PROVE FALSE
      BY <2>2, <3>1 DEF CascadeCommit, StillUnrecorded, Recorded
    <3> QED  BY <2>1, <2>2, <2>4, <3>1, RowWriter
  <2> QED  BY <2>3, <2>4
<1> QED  BY <1>1, <1>2, <1>3, CascadeInvariant, PTL DEF Spec, NeverOverridesRealResult

-----------------------------------------------------------------------------
(***************************************************************************)
(* Progress: the safe half of EveryRequestSettles.  Nobody waits in a      *)
(* circle, and no step of anybody undoes progress, so every behaviour in   *)
(* which the server keeps running comes to an end with all requests        *)
(* settled; that it keeps running is FairSpec's part.                      *)
(***************************************************************************)

\* A build row is locked only by a request for it, one step from the end of its transaction.
LockInv ==
  \A b \in Builds :
    owner[b] # None => pc[owner[b]] = "commit" /\ req[owner[b]].build = b

\* The guards of r's handler steps: only the write of a build row can be made to wait.
Ready(r) ==
  LET b == req[r].build
  IN  \/ pc[r] \in {"idle", "select", "commit", "cascade", "block", "reply"}
      \/ /\ pc[r] = "write"
         /\ \/ b = None
            \/ seen[r] = None /\ b \in present
            \/ seen[r] # None /\ Backfilled(r) = {}
            \/ owner[b] = None

\* A request that is not settled can take a step, or waits for one that can.
NeverStuck ==
  \A r \in Recorders :
    pc[r] \notin Final =>
      Ready(r) \/ \E s \in Recorders \ {r} : owner[req[r].build] = s /\ Ready(s)

\* How far a place is from the end of the client's attempt.
Distance(p) ==
  CASE p = "select" -> 8 [] p = "write" -> 7 [] p = "commit" -> 6 [] p = "cascade" -> 5
    [] p = "block" -> 4 [] p = "reply" -> 3 [] p \in Final -> 2 [] p = "idle" -> 1

\* r uses up an attempt, gets closer to the end of one, or has fewer cases to look at.
Advances(r) ==
  \/ attempts'[r] > attempts[r]
  \/ /\ attempts'[r] = attempts[r]
     /\ \/ Distance(pc'[r]) < Distance(pc[r])
        \/ pc'[r] = pc[r] /\ todo'[r] \subseteq todo[r] /\ todo'[r] # todo[r]

\* Nothing of that changes for s.
StaysPut(s) == attempts'[s] = attempts[s] /\ pc'[s] = pc[s] /\ todo'[s] = todo[s]

\* Every step takes one request further, and none further back.
EveryStepAdvances ==
  [][\E r \in Recorders : Advances(r) /\ \A s \in Recorders \ {r} : StaysPut(s)]_vars

\* A lock is taken on the way to commit, by the request at write, and given up on the way
\* out of commit.
LEMMA LockStep ==
  ASSUME TypeInv, LockInv, NEW r \in Recorders, Step(r)
  PROVE  LockInv'
<1> USE DomainAssumption DEF TypeInv, TypeOK, Goto, LockInv
<1>1. CASE InsertBuild(r) \/ BackfillBuild(r)
  <2>1. /\ req' = req /\ pc' = [pc EXCEPT ![r] = "commit"]
        /\ owner' = [owner EXCEPT ![req[r].build] = r]
    BY <1>1 DEF InsertBuild, BackfillBuild
  <2> QED  BY <2>1
<1>2. CASE \/ Begin(r) \/ SelectBuild(r) \/ LeaveBuild(r) \/ CascadeBegin(r) \/ CascadeCheck(r)
           \/ Reply(r) \/ Retry(r)
  <2>1. /\ req' = req /\ owner' = owner /\ pc[r] # "commit"
        /\ \A s \in Recorders \ {r} : pc'[s] = pc[s]
    BY <1>2 DEF Begin, SelectBuild, LeaveBuild, CascadeBegin, CascadeCheck, Reply, Retry, db, client
  <2> QED  BY <2>1
<1>3. CASE \/ LoseInsertRace(r) \/ RejectSteps(r) \/ Commit(r) \/ CascadeCommit(r)
           \/ CascadeFail(r) \/ Crash(r)
  <2>1. /\ req' = req /\ \A s \in Recorders \ {r} : pc'[s] = pc[s]
        /\ owner' = [b \in Builds |-> IF owner[b] = r THEN None ELSE owner[b]]
    BY <1>3 DEF LoseInsertRace, RejectSteps, Commit, CascadeCommit, CascadeFail, Crash, Rollback,
                EndTransaction
  <2> QED  BY <2>1
<1> QED  BY <1>1, <1>2, <1>3 DEF Step, Primary, Cascade

\* A request that waits for a build row waits for a request that is about to end its
\* transaction and waits for nobody: no chain of waiting is longer than one, however many
\* requests race for a build.
THEOREM NobodyWaitsInACircle == Spec => [](LockInv /\ NeverStuck)
<1>1. Init => LockInv
  BY DEF Init, LockInv
<1>2. TypeInv /\ LockInv /\ [Next]_vars => LockInv'
  <2>1. LockInv /\ UNCHANGED vars => LockInv'
    BY DEF LockInv, vars
  <2> QED  BY <2>1, LockStep DEF Next, Step
<1>3. TypeInv /\ LockInv => NeverStuck
  <2> SUFFICES ASSUME TypeInv, LockInv, NEW r \in Recorders, pc[r] \notin Final, ~ Ready(r)
               PROVE  \E s \in Recorders \ {r} : owner[req[r].build] = s /\ Ready(s)
    BY DEF NeverStuck
  <2> DEFINE b == req[r].build
  <2>1. pc[r] = "write" /\ b # None /\ owner[b] # None
    BY DEF TypeInv, TypeOK, Ready, Uncommitted, Committed
  <2>2. b \in Builds /\ owner[b] \in Recorders
    BY <2>1, ResolvedRequest DEF TypeInv, TypeOK, Resolved, Uncommitted
  <2>3. pc[owner[b]] = "commit"
    BY <2>1, <2>2 DEF LockInv
  <2> QED  BY <2>1, <2>2, <2>3 DEF Ready
<1>4. Spec => []TypeInv
  BY TypeInit, TypeStep, PTL DEF Spec
<1> QED  BY <1>1, <1>2, <1>3, <1>4, PTL DEF Spec

\* Whatever happens, crashes, rejections and retries included, each step uses up something
\* there is only so much of: a client's attempts, the places left before its answer, the
\* cases its cascade has still to look at.  No interleaving lets requests run for ever.
THEOREM EveryStepAdvancesHolds == Spec => EveryStepAdvances
<1> DEFINE A == \E r \in Recorders : Advances(r) /\ \A s \in Recorders \ {r} : StaysPut(s)
<1>1. ASSUME TypeInv, NEW r \in Recorders, Step(r)
      PROVE  Advances(r)
  <2> USE <1>1 DEF TypeInv, TypeOK, Goto, Uncommitted, Committed, Final, Advances, Distance
  <2>1. CASE Begin(r)
    BY <2>1 DEF Begin
  <2>2. CASE SelectBuild(r) \/ InsertBuild(r) \/ BackfillBuild(r) \/ LeaveBuild(r)
    BY <2>2 DEF SelectBuild, InsertBuild, BackfillBuild, LeaveBuild, client
  <2>3. CASE LoseInsertRace(r) \/ RejectSteps(r)
    BY <2>3 DEF LoseInsertRace, RejectSteps, client
  <2>4. CASE Commit(r)
    BY <2>4 DEF Commit, client
  <2>5. CASE CascadeBegin(r) \/ CascadeCommit(r)
    BY <2>5 DEF CascadeBegin, CascadeCommit, client
  <2>6. CASE CascadeCheck(r)
    BY <2>6 DEF CascadeCheck, client
  <2>7. CASE CascadeFail(r)
    BY <2>7 DEF CascadeFail
  <2>8. CASE Reply(r)
    BY <2>8 DEF Reply, client
  <2>9. CASE Crash(r) \/ Retry(r)
    BY <2>9 DEF Crash, Retry
  <2> QED
    BY <2>1, <2>2, <2>3, <2>4, <2>5, <2>6, <2>7, <2>8, <2>9 DEF Step, Primary, Cascade
<1>2. ASSUME TypeInv, NEW r \in Recorders, Step(r), NEW s \in Recorders \ {r}
      PROVE  StaysPut(s)
  <2>1. attempts'[s] = attempts[s]
    BY <1>2 DEF TypeInv, TypeOK, Step, Primary, Cascade, Begin, SelectBuild, InsertBuild,
         LoseInsertRace, BackfillBuild, LeaveBuild, RejectSteps, Commit, CascadeBegin,
         CascadeCheck, CascadeCommit, CascadeFail, Reply, Crash, Retry, client
  <2> QED  BY <1>2, <2>1, StepFrame DEF StaysPut, Frame, TypeInv
<1>3. TypeInv /\ [Next]_vars => [A]_vars
  BY <1>1, <1>2 DEF Next, Step
<1>4. Spec => []TypeInv
  BY TypeInit, TypeStep, PTL DEF Spec
<1> QED  BY <1>3, <1>4, PTL DEF Spec, EveryStepAdvances

=============================================================================
