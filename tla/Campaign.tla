------------------------------ MODULE Campaign ------------------------------
(***************************************************************************)
(* Agents run a plan off its manifest: get_run_manifest and                *)
(* _latest_status_by_case (app/services/plans.py) decide what may run, the *)
(* agents run it and record the results in one build, failures cascade     *)
(* (app/services/executions.py), and people edit the plan and the          *)
(* dependencies meanwhile.                                                 *)
(*                                                                         *)
(* The manifest is read in separate statements, so an entry may mix the    *)
(* links, dependencies and results of different moments.  What an agent    *)
(* does with it is not code of this repository: it is the workflow of      *)
(* docs/agent-guide.md, "Run top-down off the manifest".  Recording is two *)
(* transactions here, the report's and the cascade's (Recording has their  *)
(* statements); an edit is one step (Planning and Dependencies have the    *)
(* races of edits).  A manifest looks at a case's results whatever version *)
(* they are of, so versions play no part.                                  *)
(*                                                                         *)
(* The newest result of a case is the one whose transaction BEGAN last, so *)
(* the results of a case are a sequence in that order, and a transaction   *)
(* takes its place in it when it begins.                                   *)
(***************************************************************************)
EXTENDS Naturals, SequencesExt

CONSTANTS
  Cases,        \* the test cases of the project
  Agents,       \* the agents that run the plan
  FirstPlans,   \* the plans there may be at first: cases in order
  FirstDeps,    \* the dependency graphs there may be at first: <<case, prerequisite>>
  Edits,        \* the edits people may make
  Build,        \* the build the campaign records its results in
  Other,        \* any other build
  MaxFailures,  \* bound: how many runs of a case fail
  MaxTroubles,  \* bound: how many edits, results elsewhere, and agents that die
  None          \* no build: the manifest is asked for globally

ASSUME DomainAssumption ==
  /\ FirstPlans \subseteq {p \in Seq(Cases) : \A i, j \in DOMAIN p : p[i] = p[j] => i = j}
  /\ FirstDeps \subseteq SUBSET (Cases \X Cases)
  /\ Build # Other /\ None \notin {Build, Other} \cup Agents
  /\ \A e \in Edits : /\ e.kind \in {"depend", "add", "remove", "pass", "fail"}
                      /\ e.case \in Cases \cup {"ghost"} /\ e.on \in Cases
  /\ MaxFailures \in Nat /\ MaxTroubles \in Nat

VARIABLES
  plan,      \* the plan's cases, by order
  deps,      \* the dependencies, as pairs <<case, prerequisite>>
  results,   \* the executions of each case by created_at, those not committed yet included
  scope,     \* what the agents pass as build_id
  pc,        \* each agent's place
  known,     \* history: the dependencies when it asked for its manifest
  links,     \* the cases the manifest has read
  todo,      \* of them, those whose prerequisites it has still to read
  prereqs,   \* the dependencies it has read
  entries,   \* the manifest's entries the agent has still to deal with
  status,    \* what it is reporting of the first of them
  failures, troubles

manifest == <<known, links, todo, prereqs>>
counters == <<failures, troubles>>
vars == <<plan, deps, results, scope, pc, known, links, todo, prereqs, entries, status,
          failures, troubles>>

Statuses == {"pass", "fail", "blocked"}
Pairs == Cases \X Cases
\* open: the agent whose transaction has not ended, None for a committed row.
\* under is history: the dependencies an agent knew that ran the case.
Row == [build: {Build, Other}, status: Statuses, open: Agents \cup {None},
        origin: {"run", "block", "other"}, under: SUBSET Pairs]
Entry == [order: Nat, case: Cases, runnable: BOOLEAN]
Places == {"idle", "deps", "status", "work", "record", "cascade", "block"}

-----------------------------------------------------------------------------
(***************************************************************************)
(* Operators                                                               *)
(***************************************************************************)

\* get_dependencies
Prerequisites(c) == {p \in Cases : <<c, p>> \in deps}

\* Everything that depends on c, directly or not (Recording's Downstream, over a graph
\* that grows).
Downstream(c) ==
  {d \in Cases : \A S \in SUBSET Cases :
     (\A e \in deps : e[2] \in S \cup {c} => e[1] \in S) => d \in S}

Committed(c) == {i \in DOMAIN results[c] : results[c][i].open = None}

InScope(x) == scope # None => x.build = scope

Ranked(c) == {i \in Committed(c) : InScope(results[c][i])}

\* _latest_status_by_case: the newest result decides.
Status(c) ==
  IF Ranked(c) = {} THEN "not_run"
  ELSE results[c][CHOOSE i \in Ranked(c) : \A j \in Ranked(c) : j <= i].status

\* Mutant: the status of prerequisites outside the plan is not asked for.
Consulted_PlanOnly(a) == ToSet(links[a])

\* status_ids: the plan's cases and their prerequisites, in the plan or not.
Consulted(a) == ToSet(links[a]) \cup {p[2] : p \in prereqs[a]}

\* Mutant: a prerequisite without a result does not block.
BlockedBy_Unrun(a, c) ==
  {d \in Cases : /\ <<c, d>> \in prereqs[a]
                 /\ d \in Consulted(a) => Status(d) \in {"fail", "blocked"}}

BlockedBy(a, c) ==
  {d \in Cases : <<c, d>> \in prereqs[a] /\ ~ (d \in Consulted(a) /\ Status(d) = "pass")}

EntryOf(a, i) ==
  [order |-> i, case |-> links[a][i], runnable |-> BlockedBy(a, links[a][i]) = {}]

\* What an agent makes of an entry: it runs what is runnable and does not pass, records as
\* blocked what is not runnable and has no such result, or leaves that to the cascade.
Open(e) == e.runnable /\ Status(e.case) # "pass"
OpenOrStuck(e) == Open(e) \/ (~ e.runnable /\ Status(e.case) \notin {"pass", "blocked"})

\* The entry agent a deals with.
First(a) == CHOOSE e \in entries[a] : \A f \in entries[a] : e.order <= f.order

\* What a cascade from case c blocks: downstream, in the plan, without a result in the build.
Targets(c) ==
  {d \in Downstream(c) \cap ToSet(plan) :
     ~ \E i \in Committed(d) : results[d][i].build = Build}

\* Agent a's transaction takes its place among the results of the cases in S.
Started(a, S, s, origin, under) ==
  [c \in Cases |->
     IF c \in S THEN Append(results[c], [build |-> Build, status |-> s, open |-> a,
                                         origin |-> origin, under |-> under])
                ELSE results[c]]

\* The rows of agent a's transaction.
Opened(a, c) == {i \in DOMAIN results[c] : results[c][i].open = a}

\* Agent a's transaction commits, or rolls back.
Saved(a) ==
  [c \in Cases |-> [i \in DOMAIN results[c] |->
     IF i \in Opened(a, c) THEN [results[c][i] EXCEPT !.open = None] ELSE results[c][i]]]

\* A transaction has at most one row of a case.
Dropped(a) ==
  [c \in Cases |-> IF Opened(a, c) = {} THEN results[c]
                   ELSE RemoveAt(results[c], CHOOSE i \in Opened(a, c) : TRUE)]

Goto(a, place) == pc' = [pc EXCEPT ![a] = place]

\* Agent a goes on with the entries es, or asks for a new manifest when it is done.
GoOn(a, es) ==
  /\ entries' = [entries EXCEPT ![a] = es]
  /\ known' = IF es = {} THEN [known EXCEPT ![a] = {}] ELSE known
  /\ Goto(a, IF es = {} THEN "idle" ELSE "work")

-----------------------------------------------------------------------------
(***************************************************************************)
(* get_run_manifest                                                        *)
(***************************************************************************)

\* The plan's links; their versions and cases never change, so those reads are this one.
ReadLinks(a) ==
  /\ pc[a] = "idle" /\ plan # << >>
  /\ known' = [known EXCEPT ![a] = deps]
  /\ links' = [links EXCEPT ![a] = plan]
  /\ todo' = [todo EXCEPT ![a] = ToSet(plan)]
  /\ Goto(a, "deps")
  /\ UNCHANGED <<plan, deps, results, scope, prereqs, entries, status, counters>>

\* One case's prerequisites, in the order of a Python set.
ReadDeps(a) ==
  /\ pc[a] = "deps"
  /\ \E c \in todo[a] :
       /\ todo' = [todo EXCEPT ![a] = @ \ {c}]
       /\ prereqs' = [prereqs EXCEPT ![a] = @ \cup ({c} \X Prerequisites(c))]
       /\ Goto(a, IF todo[a] = {c} THEN "status" ELSE "deps")
  /\ UNCHANGED <<plan, deps, results, scope, known, links, entries, status, counters>>

\* The latest status of all of them, in one statement: the manifest is answered, and the
\* agent makes its list of it.
ReadStatus(a) ==
  LET answer == {EntryOf(a, i) : i \in DOMAIN links[a]}
  IN  /\ pc[a] = "status"
      /\ \/ GoOn(a, {e \in answer : Open(e)})
         \/ GoOn(a, {e \in answer : OpenOrStuck(e)})
      /\ links' = [links EXCEPT ![a] = << >>]
      /\ prereqs' = [prereqs EXCEPT ![a] = {}]
      /\ UNCHANGED <<plan, deps, results, scope, todo, status, counters>>

-----------------------------------------------------------------------------
(***************************************************************************)
(* The agent: agent-guide.md, step 5                                       *)
(***************************************************************************)

\* A report of status s for the first entry: its transaction begins.
Report(a, s, origin, under) ==
  /\ results' = Started(a, {First(a).case}, s, origin, under)
  /\ status' = [status EXCEPT ![a] = s]
  /\ Goto(a, "record")

\* A runnable entry is run, and passes or fails.
RunCase(a) ==
  /\ pc[a] = "work" /\ First(a).runnable
  /\ \/ Report(a, "pass", "run", known[a]) /\ UNCHANGED failures
     \/ failures < MaxFailures /\ failures' = failures + 1 /\ Report(a, "fail", "run", known[a])
  /\ UNCHANGED <<plan, deps, scope, manifest, entries, troubles>>

\* One that is not is recorded as blocked.
ReportBlocked(a) ==
  /\ pc[a] = "work" /\ ~ First(a).runnable
  /\ Report(a, "blocked", "block", {})
  /\ UNCHANGED <<plan, deps, scope, manifest, entries, counters>>

-----------------------------------------------------------------------------
(***************************************************************************)
(* record_execution, with cascade_blocked                                  *)
(***************************************************************************)

\* The report is committed.
Record(a) ==
  /\ pc[a] = "record"
  /\ results' = Saved(a)
  /\ IF status[a] = "pass"
       THEN GoOn(a, entries[a] \ {First(a)}) /\ status' = [status EXCEPT ![a] = None]
       ELSE Goto(a, "cascade") /\ UNCHANGED <<known, entries, status>>
  /\ UNCHANGED <<plan, deps, scope, links, todo, prereqs, counters>>

\* The cascade's transaction begins, and decides what to block.
CascadeBegin(a) ==
  /\ pc[a] = "cascade"
  /\ results' = Started(a, Targets(First(a).case), "blocked", "block", {})
  /\ Goto(a, "block")
  /\ UNCHANGED <<plan, deps, scope, manifest, entries, status, counters>>

\* It commits, or fails and leaves nothing; the report is answered either way.
CascadeEnd(a) ==
  /\ pc[a] = "block"
  /\ results' \in {Saved(a), Dropped(a)}
  /\ GoOn(a, entries[a] \ {First(a)})
  /\ status' = [status EXCEPT ![a] = None]
  /\ UNCHANGED <<plan, deps, scope, links, todo, prereqs, counters>>

\* The agent dies, its open transaction with it; one that takes its place starts over.
Crash(a) ==
  /\ pc[a] # "idle"
  /\ troubles < MaxTroubles /\ troubles' = troubles + 1
  /\ results' = Dropped(a)
  /\ links' = [links EXCEPT ![a] = << >>]
  /\ todo' = [todo EXCEPT ![a] = {}]
  /\ prereqs' = [prereqs EXCEPT ![a] = {}]
  /\ status' = [status EXCEPT ![a] = None]
  /\ GoOn(a, {})
  /\ UNCHANGED <<plan, deps, scope, failures>>

-----------------------------------------------------------------------------
(***************************************************************************)
(* Everyone else                                                           *)
(***************************************************************************)

Edit == /\ troubles < MaxTroubles /\ troubles' = troubles + 1
        /\ UNCHANGED <<scope, pc, manifest, entries, status, failures>>

\* add_dependency: refused when the prerequisite is downstream of the case.
AddDependency(e) ==
  /\ e.kind = "depend" /\ Edit
  /\ e.case \in Cases \ {e.on} /\ e.on \notin Downstream(e.case)
  /\ deps' = deps \cup {<<e.case, e.on>>}
  /\ UNCHANGED <<plan, results>>

\* Mutant: the case is not looked up.
AddCase_NoLookup(e) ==
  /\ e.kind = "add" /\ Edit
  /\ e.case \notin ToSet(plan) /\ plan' = Append(plan, e.case)
  /\ UNCHANGED <<deps, results>>

\* add_cases
AddCase(e) ==
  /\ e.kind = "add" /\ Edit
  /\ e.case \in Cases \ ToSet(plan) /\ plan' = Append(plan, e.case)
  /\ UNCHANGED <<deps, results>>

\* remove_case
RemoveCase(e) ==
  /\ e.kind = "remove" /\ Edit
  /\ \E i \in DOMAIN plan : plan[i] = e.case /\ plan' = RemoveAt(plan, i)
  /\ UNCHANGED <<deps, results>>

\* A result recorded for another build.
RunElsewhere(e) ==
  LET x == [build |-> Other, status |-> e.kind, open |-> None, origin |-> "other", under |-> {}]
  IN  /\ e.kind \in {"pass", "fail"} /\ Edit /\ e.case \in Cases
      /\ results' = [results EXCEPT ![e.case] = Append(@, x)]
      /\ UNCHANGED <<plan, deps>>

-----------------------------------------------------------------------------
\* All cases have passed in the other build.
Init ==
  /\ plan \in FirstPlans
  /\ deps \in FirstDeps
  /\ results = [c \in Cases |-> <<[build |-> Other, status |-> "pass", open |-> None,
                                  origin |-> "other", under |-> {}]>>]
  /\ scope \in {Build, None}
  /\ pc = [a \in Agents |-> "idle"]
  /\ known = [a \in Agents |-> {}]
  /\ links = [a \in Agents |-> << >>]
  /\ todo = [a \in Agents |-> {}]
  /\ prereqs = [a \in Agents |-> {}]
  /\ entries = [a \in Agents |-> {}]
  /\ status = [a \in Agents |-> None]
  /\ failures = 0 /\ troubles = 0

Ask(a) == ReadLinks(a) \/ ReadDeps(a) \/ ReadStatus(a)
Work(a) == RunCase(a) \/ ReportBlocked(a)
Save(a) == Record(a) \/ CascadeBegin(a) \/ CascadeEnd(a)
Agent(a) == Ask(a) \/ Work(a) \/ Save(a)

Next == \/ \E a \in Agents : Agent(a) \/ Crash(a)
        \/ \E e \in Edits : AddDependency(e) \/ AddCase(e) \/ RemoveCase(e) \/ RunElsewhere(e)

Spec == Init /\ [][Next]_vars

\* Every agent keeps working through manifests; nobody has to edit, fail or die.
FairSpec == Spec /\ \A a \in Agents : WF_vars(Agent(a))

-----------------------------------------------------------------------------
(***************************************************************************)
(* Properties                                                              *)
(***************************************************************************)

TypeOK ==
  /\ plan \in Seq(Cases)
  /\ deps \subseteq Pairs
  /\ results \in [Cases -> Seq(Row)]
  /\ scope \in {Build, None}
  /\ pc \in [Agents -> Places]
  /\ known \in [Agents -> SUBSET Pairs]
  /\ links \in [Agents -> Seq(Cases)]
  /\ todo \in [Agents -> SUBSET Cases]
  /\ prereqs \in [Agents -> SUBSET Pairs]
  /\ entries \in [Agents -> SUBSET Entry]
  /\ status \in [Agents -> Statuses \cup {None}]
  /\ failures \in 0..MaxFailures /\ troubles \in 0..MaxTroubles

HasPassed(c) == \E i \in Ranked(c) : results[c][i].status = "pass"

Runs(c) == {i \in DOMAIN results[c] : results[c][i].origin = "run"}

\* However the reads of a manifest mix with edits and results, a case is run only after
\* each prerequisite it had when the manifest was asked for had passed.
GateHolds ==
  \A c \in Cases : \A i \in Runs(c) : \A p \in Cases :
    <<c, p>> \in results[c][i].under => HasPassed(p)

\* The dependencies that were there before any run.
Settled == {e \in Pairs : \A c \in Cases : \A i \in Runs(c) : e \in results[c][i].under}

\* Everything c depends on by those, directly or not.
Upstream(c) ==
  {d \in Cases : \A S \in SUBSET Cases :
     (\A e \in Settled : e[1] \in S \cup {c} => e[2] \in S) => d \in S}

\* When manifests are asked for by build, the gates add up: nothing is run in the build
\* before everything upstream of it has passed there.
ChainHolds ==
  scope = Build => \A c \in Cases : Runs(c) # {} => \A p \in Upstream(c) : HasPassed(p)

\* What an agent runs stands on results that allow it (get_run_manifest's runnable).
RunsAreGrounded == GateHolds /\ ChainHolds

\* The cases that pass, or can: those in the plan whose prerequisites all can.  What is on
\* a cycle, or waits for a case outside the plan that does not pass, is not among them.
Attainable ==
  {c \in Cases : \A S \in SUBSET Cases :
     (\A d \in Cases : Status(d) = "pass" \/ (d \in ToSet(plan) /\ Prerequisites(d) \subseteq S)
                         => d \in S)
       => c \in S}

\* Following the manifest is enough: once runs fail no more, every case of the plan that
\* can pass does, whatever was blocked, by agents or cascades, and for whatever stale reason.
CampaignSettles == <>[](\A c \in ToSet(plan) \cap Attainable : Status(c) = "pass")

=============================================================================
