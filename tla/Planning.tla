------------------------------ MODULE Planning ------------------------------
(***************************************************************************)
(* What is to be run, what covers what, and what is to be run again: the   *)
(* cases of a plan (app/services/plans.py), the coverage of requirements   *)
(* (requirements.py) and the work queue (reruns.py, assignments.py), while *)
(* the cases get new versions.                                             *)
(*                                                                         *)
(* A link pins the version of a case that was current when it was made,    *)
(* and "is it linked already" is asked of that version.  All three lists   *)
(* are filled by looking for a row and inserting it when there is none;    *)
(* no key keeps two requests from doing so at once.  create_version is one *)
(* step here, its own races are Authoring's.                               *)
(***************************************************************************)
EXTENDS Naturals, Sequences, FiniteSets, FiniteSetsExt

CONSTANTS
  Cases,        \* the test cases that exist
  Plans,        \* the plans that exist
  Builds,       \* the builds that exist
  PlanOf,       \* PlanOf[b]: the plan of build b
  Specs,        \* the requirement specifications that exist
  ProjectOf,    \* the project of a case or a specification
  FirstSpec,    \* the one that has a requirement at first
  Platforms,    \* what a plan's case may be bound to
  Planners,     \* the clients, each with one request to get done
  Requests,     \* the requests they may have
  MaxVersion,   \* bound: how many versions a case has at first
  MaxAttempts,  \* bound: how often a client sends its request
  MaxCrashes,   \* bound: how many requests die on the way
  None          \* SQL NULL

Kinds == {"add", "remove", "bump", "require", "cover", "rerun", "assign", "close", "reopen"}

(***************************************************************************)
(* A request acts on a plan (add, remove), a specification (require), a    *)
(* requirement (cover) or a build (rerun, assign, close, reopen), and      *)
(* names cases: a list of any length, none for a rerun of the whole plan,  *)
(* and exactly one where the code takes one.                               *)
(***************************************************************************)
ASSUME RequestsAssumption ==
  \A q \in Requests :
    /\ q.kind \in Kinds
    /\ q.cases \in Seq(Cases \cup {"ghost"})
    /\ q.platform \in Platforms \cup {None}
    /\ q.kind \in {"remove", "bump", "assign", "close", "reopen"} => Len(q.cases) = 1
    /\ q.kind = "rerun" => Len(q.cases) \leq 1

ASSUME DomainAssumption ==
  /\ "ghost" \notin Cases
  /\ IsFiniteSet(Cases)
  /\ PlanOf \in [Builds -> Plans]
  /\ FirstSpec \in Specs
  /\ None \notin Planners /\ None # "rerun"
  /\ Cases \cup Specs \subseteq DOMAIN ProjectOf
  /\ MaxVersion \in Nat \ {0}
  /\ MaxAttempts \in Nat \ {0}
  /\ MaxCrashes \in Nat

VARIABLES
  versions,  \* the number of the current version of each case
  links,     \* test_plan_cases
  reqs,      \* requirements, each with its one version
  coverage,  \* req_coverage
  queue,     \* assignments
  clock,     \* how many transactions have committed: the history's clock
  pc, req,   \* each request's place in the handler, and its body
  began,     \* the clock when the request began
  todo,      \* the cases it has still to look at
  version,   \* the version it has read of the first of them
  order,     \* the order it gives the next link
  mine,      \* rows it has inserted, uncommitted
  doomed,    \* links it has read in order to delete them
  crashes,   \* requests that have died
  attempts   \* how often the client has sent the request

db == <<versions, links, reqs, coverage, queue, clock>>
session == <<began, todo, version, order, mine, doomed>>
client == <<req, crashes, attempts>>
vars == <<versions, links, reqs, coverage, queue, clock, pc, req, began, todo, version,
          order, mine, doomed, crashes, attempts>>

Working == {"pin", "find", "scan", "known", "linked", "delete", "write", "reply"}
Final == {"done", "rejected", "failed"}

\* began, looked and ended are history: the clock when the request that inserted the row
\* began, when it looked for one like it, and when it committed.
Link == [plan: Plans, case: Cases, version: Nat, platform: Platforms \cup {None},
         order: Nat, began: Nat, looked: Nat, ended: Nat]
FirstReq == <<None, 0>>
ReqIds == {FirstReq} \cup (Planners \X Nat)
Requirement == [id: ReqIds, spec: Specs]
Coverage == [req: ReqIds, case: Cases, version: Nat, looked: Nat, ended: Nat]
Assignment == [type: {"rerun", None}, build: Builds \cup {None}, case: Cases \cup {"ghost"},
               status: {"open", "done"}, looked: Nat, ended: Nat, changed: Nat, reopened: BOOLEAN]

-----------------------------------------------------------------------------
(***************************************************************************)
(* Operators                                                               *)
(***************************************************************************)

Elements(s) == {s[i] : i \in DOMAIN s}

\* The lists that hold each element of S once: the order rows come in is anyone's.
Listings(S) == {s \in [1..Cardinality(S) -> S] : Elements(s) = S}

\* next_order: one more than the greatest of the plan, 1 for a plan without links.
NextOrder(plan) == Max({0} \cup {x.order : x \in {y \in links : y.plan = plan}}) + 1

\* The case is not one link_coverage accepts: unknown, or of another project.
Refused(r, c) ==
  \/ c \notin Cases
  \/ req[r].kind = "require" /\ ProjectOf[c] # ProjectOf[req[r].on]
  \/ req[r].kind = "cover"
       /\ \E q \in reqs : q.id = req[r].on /\ ProjectOf[c] # ProjectOf[q.spec]

\* get_plan and get_build, of the requests that call them.
NoPlan(q) == q.kind = "add" /\ q.on \notin Plans
NoBuild(q) == q.kind = "rerun" /\ q.on \notin Builds

\* The row a request works on, looked up ahead of anything else.
Unresolved(q) ==
  \/ NoPlan(q) \/ NoBuild(q)
  \/ q.kind = "require" /\ q.on \notin Specs
  \/ q.kind = "cover" /\ ~ \E x \in reqs : x.id = q.on
  \/ q.kind = "bump" /\ q.cases[1] \notin Cases

\* Where a request that is not turned away starts.
Entry == [add |-> "pin", remove |-> "known", bump |-> "write", require |-> "pin",
          cover |-> "pin", rerun |-> "scan", assign |-> "write", close |-> "write",
          reopen |-> "write"]

\* The requirement a request attaches coverage to: its own, or the one it names.
Covering(r) == IF req[r].kind = "require" THEN <<r, attempts[r]>> ELSE req[r].on

\* The link of the current version of case c, on the same platform.
LinksTo(r, c) ==
  {x \in links \cup mine[r] : /\ x.plan = req[r].on /\ x.case = c
                              /\ x.version = version[r] /\ x.platform = req[r].platform}

CoverageOf(r, c) ==
  {x \in coverage \cup mine[r] : /\ x.req = Covering(r) /\ x.case = c
                                 /\ x.version = version[r]}

\* Mutant: a rerun that is closed counts.
OpenReruns_AnyStatus(b, c) == {a \in queue : a.type = "rerun" /\ a.build = b /\ a.case = c}

\* _open_rerun_exists
OpenReruns(b, c) ==
  {a \in queue : a.type = "rerun" /\ a.build = b /\ a.case = c /\ a.status = "open"}

NewLink(r, c) == [plan |-> req[r].on, case |-> c, version |-> version[r],
                  platform |-> req[r].platform, order |-> order[r],
                  began |-> began[r], looked |-> clock, ended |-> 0]

NewCoverage(r, c) == [req |-> Covering(r), case |-> c, version |-> version[r],
                      looked |-> clock, ended |-> 0]

NewAssignment(r, type, c) ==
  [type |-> type, build |-> req[r].on, case |-> c, status |-> "open", looked |-> clock,
   ended |-> 0, changed |-> 0, reopened |-> FALSE]

\* Mutant: only coverage of a case's current version counts.
Covers_Current(x, q) == x.req = q.id /\ x.version = versions[x.case]

\* The active coverage of a requirement's version, whichever version of a case it pins.
Covers(x, q) == x.req = q.id

\* get_coverage_gaps and get_traceability: two statements over the same rows.
Gaps == {q \in reqs : ~ \E x \in coverage : Covers(x, q)}
Traced(q) == {x.case : x \in {y \in coverage : Covers(y, q)}}

Goto(r, place) == pc' = [pc EXCEPT ![r] = place]

\* The end of r's session.  When it began stays known to the history.
Close(r) ==
  /\ todo' = [todo EXCEPT ![r] = << >>]
  /\ version' = [version EXCEPT ![r] = 0]
  /\ order' = [order EXCEPT ![r] = 0]
  /\ mine' = [mine EXCEPT ![r] = {}]
  /\ doomed' = [doomed EXCEPT ![r] = {}]
  /\ UNCHANGED began

Rollback(r) == Close(r) /\ UNCHANGED db

Stamped(r) == {[x EXCEPT !.ended = clock + 1] : x \in mine[r]}

-----------------------------------------------------------------------------
(***************************************************************************)
(* The start of every request                                              *)
(***************************************************************************)

\* The plan, specification, requirement or build is looked up; add_cases reads the next
\* order, and a rerun of a whole build the plan's cases.
Begin(r) ==
  LET q == req[r]
  IN  /\ pc[r] = "idle"
      /\ attempts' = [attempts EXCEPT ![r] = @ + 1]
      /\ began' = [began EXCEPT ![r] = clock]
      /\ IF Unresolved(q)
           THEN Goto(r, "rejected") /\ UNCHANGED <<todo, order>>
           ELSE /\ Goto(r, Entry[q.kind])
                /\ order' = IF q.kind = "add" THEN [order EXCEPT ![r] = NextOrder(q.on)]
                                              ELSE order
                /\ \E list \in IF q.kind = "rerun" /\ q.cases = << >>
                                 THEN Listings({x.case : x \in {y \in links : y.plan = PlanOf[q.on]}})
                                 ELSE {q.cases} :
                     todo' = [todo EXCEPT ![r] = list]
      /\ UNCHANGED <<db, version, mine, doomed, req, crashes>>

-----------------------------------------------------------------------------
(***************************************************************************)
(* add_cases, create_requirement and link_requirement_coverage             *)
(***************************************************************************)

\* _current_version_id of the next case.
Pin(r) ==
  /\ pc[r] = "pin" /\ todo[r] # << >>
  /\ ~ Refused(r, Head(todo[r]))
  /\ version' = [version EXCEPT ![r] = versions[Head(todo[r])]]
  /\ Goto(r, "find")
  /\ UNCHANGED <<db, began, todo, order, mine, doomed, client>>

\* Mutant: what was done so far is committed.
Refuse_Commits(r) ==
  /\ pc[r] = "pin" /\ todo[r] # << >>
  /\ Refused(r, Head(todo[r]))
  /\ reqs' = IF req[r].kind = "require"
               THEN reqs \cup {[id |-> Covering(r), spec |-> req[r].on]} ELSE reqs
  /\ Close(r)
  /\ Goto(r, "rejected")
  /\ UNCHANGED <<versions, links, coverage, queue, clock, client>>

\* A case that is unknown, or of another project: nothing of the request remains.
Refuse(r) ==
  /\ pc[r] = "pin" /\ todo[r] # << >>
  /\ Refused(r, Head(todo[r]))
  /\ Rollback(r)
  /\ Goto(r, "rejected")
  /\ UNCHANGED client

\* Mutant: the order is not advanced.
FindLink_SameOrder(r) ==
  LET found == LinksTo(r, Head(todo[r]))
  IN  /\ pc[r] = "find" /\ req[r].kind = "add" /\ Cardinality(found) \leq 1
      /\ mine' = [mine EXCEPT ![r] = IF found = {} THEN @ \cup {NewLink(r, Head(todo[r]))} ELSE @]
      /\ todo' = [todo EXCEPT ![r] = Tail(@)]
      /\ Goto(r, "pin")
      /\ UNCHANGED <<db, began, version, order, doomed, client>>

\* The link of that version is looked for, and inserted if there is none.
FindLink(r) ==
  LET found == LinksTo(r, Head(todo[r]))
  IN  /\ pc[r] = "find" /\ req[r].kind = "add" /\ Cardinality(found) \leq 1
      /\ mine' = [mine EXCEPT ![r] = IF found = {} THEN @ \cup {NewLink(r, Head(todo[r]))} ELSE @]
      /\ order' = [order EXCEPT ![r] = IF found = {} THEN @ + 1 ELSE @]
      /\ todo' = [todo EXCEPT ![r] = Tail(@)]
      /\ Goto(r, "pin")
      /\ UNCHANGED <<db, began, version, doomed, client>>

FindCoverage(r) ==
  LET found == CoverageOf(r, Head(todo[r]))
  IN  /\ pc[r] = "find" /\ req[r].kind # "add" /\ Cardinality(found) \leq 1
      /\ mine' = [mine EXCEPT ![r] = IF found = {} THEN @ \cup {NewCoverage(r, Head(todo[r]))}
                                                   ELSE @]
      /\ todo' = [todo EXCEPT ![r] = Tail(@)]
      /\ Goto(r, "pin")
      /\ UNCHANGED <<db, began, version, order, doomed, client>>

\* Two rows answer: scalar_one_or_none raises, now and on every later attempt.
Ambiguous(r) ==
  /\ pc[r] = "find"
  /\ Cardinality(IF req[r].kind = "add" THEN LinksTo(r, Head(todo[r]))
                                        ELSE CoverageOf(r, Head(todo[r]))) > 1
  /\ Rollback(r)
  /\ Goto(r, "failed")
  /\ UNCHANGED client

\* All rows of the request become visible together, a new requirement with its coverage.
CommitRows(r) ==
  /\ pc[r] = "pin" /\ todo[r] = << >>
  /\ links' = IF req[r].kind = "add" THEN links \cup Stamped(r) ELSE links
  /\ coverage' = IF req[r].kind = "add" THEN coverage ELSE coverage \cup Stamped(r)
  /\ reqs' = IF req[r].kind = "require"
               THEN reqs \cup {[id |-> Covering(r), spec |-> req[r].on]} ELSE reqs
  /\ clock' = clock + 1
  /\ Close(r)
  /\ Goto(r, "reply")
  /\ UNCHANGED <<versions, queue, client>>

-----------------------------------------------------------------------------
(***************************************************************************)
(* remove_case and create_version                                          *)
(***************************************************************************)

\* The ids of all the versions the case has: with none, there is nothing to remove.
ReadVersions(r) ==
  LET c == Head(todo[r])
  IN  /\ pc[r] = "known"
      /\ version' = [version EXCEPT ![r] = IF c \in Cases THEN versions[c] ELSE 0]
      /\ Goto(r, IF c \in Cases THEN "linked" ELSE "reply")
      /\ UNCHANGED <<db, began, todo, order, mine, doomed, client>>

\* Mutant: only the current version's links are read.
ReadLinks_Current(r) ==
  /\ pc[r] = "linked"
  /\ doomed' = [doomed EXCEPT ![r] =
       {x \in links : x.plan = req[r].on /\ x.case = Head(todo[r]) /\ x.version = version[r]}]
  /\ Goto(r, "delete")
  /\ UNCHANGED <<db, began, todo, version, order, mine, client>>

\* The plan's links to any of them.
ReadLinks(r) ==
  /\ pc[r] = "linked"
  /\ doomed' = [doomed EXCEPT ![r] =
       {x \in links : x.plan = req[r].on /\ x.case = Head(todo[r]) /\ x.version \leq version[r]}]
  /\ Goto(r, "delete")
  /\ UNCHANGED <<db, began, todo, version, order, mine, client>>

DeleteLinks(r) ==
  /\ pc[r] = "delete"
  /\ links' = links \ doomed[r]
  /\ clock' = clock + 1
  /\ Close(r)
  /\ Goto(r, "reply")
  /\ UNCHANGED <<versions, reqs, coverage, queue, client>>

\* create_version
Bump(r) ==
  /\ pc[r] = "write" /\ req[r].kind = "bump"
  /\ versions' = [versions EXCEPT ![req[r].cases[1]] = @ + 1]
  /\ clock' = clock + 1
  /\ Close(r)
  /\ Goto(r, "reply")
  /\ UNCHANGED <<links, reqs, coverage, queue, client>>

-----------------------------------------------------------------------------
(***************************************************************************)
(* The work queue                                                          *)
(***************************************************************************)

\* One case: queued unless an open rerun of it is there.
ScanCase(r) ==
  LET c == Head(todo[r])
  IN  /\ pc[r] = "scan" /\ todo[r] # << >>
      /\ mine' = [mine EXCEPT ![r] = IF OpenReruns(req[r].on, c) = {}
                                       THEN @ \cup {NewAssignment(r, "rerun", c)} ELSE @]
      /\ todo' = [todo EXCEPT ![r] = Tail(@)]
      /\ UNCHANGED <<db, pc, began, version, order, doomed, client>>

\* Rows that name no case or no build violate a foreign key when they are flushed: a 500.
FailKey(r) ==
  /\ \/ pc[r] = "scan" /\ todo[r] = << >>
     \/ pc[r] = "write" /\ req[r].kind = "assign"
  /\ req[r].on \notin Builds \cup {None} \/ Elements(req[r].cases) \ Cases # {}
  /\ Rollback(r)
  /\ Goto(r, "failed")
  /\ UNCHANGED client

\* Mutant: the foreign key is not there.
CommitReruns_NoKey(r) ==
  /\ pc[r] = "scan" /\ todo[r] = << >>
  /\ queue' = queue \cup {[a EXCEPT !.ended = clock + 1, !.changed = clock + 1] : a \in mine[r]}
  /\ clock' = clock + 1
  /\ Close(r)
  /\ Goto(r, "reply")
  /\ UNCHANGED <<versions, links, reqs, coverage, client>>

\* Committed if there is anything to commit.
CommitReruns(r) ==
  /\ pc[r] = "scan" /\ todo[r] = << >>
  /\ Elements(req[r].cases) \subseteq Cases
  /\ queue' = queue \cup {[a EXCEPT !.ended = clock + 1, !.changed = clock + 1] : a \in mine[r]}
  /\ clock' = IF mine[r] = {} THEN clock ELSE clock + 1
  /\ Close(r)
  /\ Goto(r, "reply")
  /\ UNCHANGED <<versions, links, reqs, coverage, client>>

\* create_assignment: an assignment without a type, whatever the queue holds, and without a
\* build when the tool assigns it.
CreateAssignment(r) ==
  /\ pc[r] = "write" /\ req[r].kind = "assign"
  /\ req[r].on \in Builds \cup {None} /\ req[r].cases[1] \in Cases
  /\ queue' = queue \cup {[NewAssignment(r, None, req[r].cases[1])
                             EXCEPT !.ended = clock + 1, !.changed = clock + 1]}
  /\ clock' = clock + 1
  /\ Close(r)
  /\ Goto(r, "reply")
  /\ UNCHANGED <<versions, links, reqs, coverage, client>>

\* update_assignment: whoever holds the id sets the status, to done or back to open.
UpdateAssignment(r) ==
  LET status == IF req[r].kind = "close" THEN "done" ELSE "open"
  IN  /\ pc[r] = "write" /\ req[r].kind \in {"close", "reopen"}
      /\ \E a \in queue :
           /\ a.build = req[r].on /\ a.case = req[r].cases[1]
           /\ queue' = (queue \ {a}) \cup
                {[a EXCEPT !.status = status, !.changed = clock + 1,
                           !.reopened = @ \/ (status = "open" /\ a.status = "done")]}
      /\ clock' = clock + 1
      /\ Close(r)
      /\ Goto(r, "reply")
      /\ UNCHANGED <<versions, links, reqs, coverage, client>>

NoAssignment(r) ==
  /\ pc[r] = "write" /\ req[r].kind \in {"close", "reopen"}
  /\ ~ \E a \in queue : a.build = req[r].on /\ a.case = req[r].cases[1]
  /\ Rollback(r)
  /\ Goto(r, "rejected")
  /\ UNCHANGED client

-----------------------------------------------------------------------------
(***************************************************************************)
(* The client                                                              *)
(***************************************************************************)

Reply(r) ==
  /\ pc[r] = "reply"
  /\ Goto(r, "done")
  /\ UNCHANGED <<db, session, client>>

Crash(r) ==
  /\ pc[r] \in Working
  /\ crashes < MaxCrashes /\ crashes' = crashes + 1
  /\ Rollback(r)
  /\ Goto(r, "failed")
  /\ UNCHANGED <<req, attempts>>

\* A client that saw an error may send the same request again.
Retry(r) ==
  /\ pc[r] = "failed" /\ attempts[r] < MaxAttempts
  /\ Goto(r, "idle")
  /\ UNCHANGED <<db, session, client>>

-----------------------------------------------------------------------------
(***************************************************************************)
(* One case at most has a past: it is in the plan of a build, it covers    *)
(* the first requirement, and a rerun of it in the build was asked for and *)
(* is done, all while version 1 was the current one.                       *)
(***************************************************************************)
Init ==
  /\ \E n \in 1..MaxVersion : versions = [c \in Cases |-> n]
  /\ reqs = {[id |-> FirstReq, spec |-> FirstSpec]}
  /\ \/ links = {} /\ coverage = {} /\ queue = {}
     \/ \E b \in Builds, c \in Cases :
          /\ ProjectOf[c] = ProjectOf[FirstSpec]
          /\ links = {[plan |-> PlanOf[b], case |-> c, version |-> 1, platform |-> None,
                       order |-> 1, began |-> 0, looked |-> 0, ended |-> 0]}
          /\ coverage = {[req |-> FirstReq, case |-> c, version |-> 1, looked |-> 0,
                          ended |-> 0]}
          /\ queue = {[type |-> "rerun", build |-> b, case |-> c, status |-> "done",
                       looked |-> 0, ended |-> 0, changed |-> 0, reopened |-> FALSE]}
  /\ clock = 0
  /\ pc = [r \in Planners |-> "idle"]
  /\ req \in [Planners -> Requests]
  /\ began = [r \in Planners |-> 0]
  /\ todo = [r \in Planners |-> << >>]
  /\ version = [r \in Planners |-> 0]
  /\ order = [r \in Planners |-> 0]
  /\ mine = [r \in Planners |-> {}]
  /\ doomed = [r \in Planners |-> {}]
  /\ crashes = 0
  /\ attempts = [r \in Planners |-> 0]

Select(r) == \/ Pin(r) \/ Refuse(r) \/ FindLink(r) \/ FindCoverage(r) \/ Ambiguous(r)
             \/ CommitRows(r)

Remove(r) == ReadVersions(r) \/ ReadLinks(r) \/ DeleteLinks(r)

Enqueue(r) == \/ ScanCase(r) \/ FailKey(r) \/ CommitReruns(r) \/ CreateAssignment(r)
              \/ UpdateAssignment(r) \/ NoAssignment(r)

Handle(r) == Begin(r) \/ Select(r) \/ Remove(r) \/ Bump(r) \/ Enqueue(r) \/ Reply(r)

Next == \E r \in Planners : Handle(r) \/ Crash(r) \/ Retry(r)

Spec == Init /\ [][Next]_vars

-----------------------------------------------------------------------------
(***************************************************************************)
(* Properties                                                              *)
(***************************************************************************)

TypeOK ==
  /\ versions \in [Cases -> Nat \ {0}]
  /\ links \subseteq Link
  /\ reqs \subseteq Requirement
  /\ coverage \subseteq Coverage
  /\ queue \subseteq Assignment /\ {a.case : a \in queue} \subseteq Cases
  /\ clock \in Nat
  /\ pc \in [Planners -> {"idle"} \cup Working \cup Final]
  /\ req \in [Planners -> Requests]
  /\ began \in [Planners -> Nat]
  /\ todo \in [Planners -> Seq(Cases \cup {"ghost"})]
  /\ version \in [Planners -> Nat]
  /\ order \in [Planners -> Nat]
  /\ mine \in [Planners -> SUBSET (Link \cup Coverage \cup Assignment)]
  /\ doomed \in [Planners -> SUBSET Link]
  /\ crashes \in 0..MaxCrashes
  /\ attempts \in [Planners -> 0..MaxAttempts]

\* A case is in a plan twice, on one platform, only because it got a new version in
\* between, or because the requests that added it overlapped; two links of a plan share
\* their order only in the second case.
LinkedOnce ==
  \A x, y \in links :
    x # y /\ x.plan = y.plan /\ x.ended \leq y.ended =>
      /\ x.case = y.case /\ x.platform = y.platform
           => \/ x.version = y.version /\ y.looked < x.ended
              \/ x.version # y.version /\ (y.version > x.version \/ y.began < x.ended)
      /\ x.order = y.order => x.ended < y.ended /\ y.began < x.ended

\* One version of a case covers a requirement twice only if the requests overlapped.
CoveredOnce ==
  \A x, y \in coverage :
    /\ x # y /\ x.req = y.req /\ x.case = y.case /\ x.version = y.version
    /\ x.ended \leq y.ended
    => y.looked < x.ended

\* A case has two open reruns in a build only if the requests overlapped, or one of the
\* two had been closed and was opened again.
QueuedOnce ==
  \A a, b \in queue :
    /\ a # b /\ a.type = "rerun" /\ b.type = "rerun"
    /\ a.build = b.build /\ a.case = b.case /\ a.status = "open" /\ b.status = "open"
    /\ a.ended \leq b.ended
    => b.looked < a.ended \/ a.reopened \/ b.reopened

\* What looks for a row before it inserts one leaves one row, whatever crashes and is
\* retried, unless two requests were at it at once or a row was changed in between.
SelectedOnce == LinkedOnce /\ CoveredOnce /\ QueuedOnce

\* When remove_case has answered, no link of the case to the plan is left that was there
\* when the request began, whichever version it pins.
RemovalIsComplete ==
  \A r \in Planners :
    req[r].kind = "remove" /\ pc[r] \in {"reply", "done"} =>
      ~ \E x \in links : /\ x.plan = req[r].on /\ x.case = req[r].cases[1]
                         /\ x.ended \leq began[r]

\* A requirement is recorded with all the coverage it was asked to have, or not at all:
\* a list with one bad case leaves no requirement, and a crash no part of one.
RequirementIsWhole ==
  \A q \in reqs : \A r \in Planners, n \in 1..MaxAttempts :
    q.id = <<r, n>> => /\ q.spec = req[r].on
                       /\ Elements(req[r].cases) \subseteq Traced(q)
                       /\ \A c \in Traced(q) : ProjectOf[c] = ProjectOf[q.spec]

\* No request opens a gap: a requirement that is covered stays so, and stays covered by
\* each of its cases, when they get new versions or are taken out of plans.
CoveredStaysCovered ==
  [][\A q \in reqs : q \in reqs' /\ (q \notin Gaps => q \notin Gaps')
                       /\ Traced(q) \subseteq Traced(q)']_vars

\* An answered request for a rerun leaves nothing unqueued: each case it names, or that was
\* in the plan all along, has a rerun that is open or was closed after the request began.
RerunIsQueued ==
  \A r \in Planners :
    req[r].kind = "rerun" /\ pc[r] \in {"reply", "done"} =>
      \A c \in Elements(req[r].cases) \cup
               (IF req[r].cases # << >> THEN {}
                ELSE {x.case : x \in {y \in links : /\ y.plan = PlanOf[req[r].on]
                                                    /\ y.ended \leq began[r]}}) :
        \E a \in queue : /\ a.type = "rerun" /\ a.build = req[r].on /\ a.case = c
                         /\ a.status = "open" \/ a.changed > began[r]

=============================================================================
