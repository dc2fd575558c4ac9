------------------------------- MODULE Lineage -------------------------------
(***************************************************************************)
(* The lineage of a project: app/services/lineage.py, which answers every  *)
(* question of the operator console (rollups, comparison with a baseline,  *)
(* merge-readiness of branches, the known-regression guard, case history,  *)
(* flaky cases) from the builds and from the current result of each case   *)
(* in each build (the view latest_result_per_build_case).                  *)
(*                                                                         *)
(* The answers are operators on the state, as the service computes them on *)
(* read; the actions are the writes of the other services that move them:  *)
(* reports, build registration, plan membership, quarantine, and time.     *)
(* Module Recording has the concurrency of reports; here one is atomic.    *)
(***************************************************************************)
EXTENDS Integers, FiniteSets

CONSTANTS
  Cases,       \* the project's test cases
  Plans,       \* its test plans
  Names,       \* build names, unique within a plan
  Branches,    \* branch names
  Default,     \* the project's default branch
  Commits,     \* commits
  Metas,       \* what a recorder may supply: branch, commit, base, or None
  Reports,     \* bound: the results reported, <<case, status>>
  Linkable,    \* bound: <<plan, case>> pairs whose membership changes
  Flaggable,   \* bound: cases whose quarantine changes
  Window,      \* the trailing window of active branches
  MinFlips,    \* flips that make a case a flaky candidate
  MaxBuilds,   \* bound: builds created
  Start,       \* bound: when time starts
  MaxNow,      \* bound: how far it goes
  MaxLag,      \* bound: how long a transaction that creates a build stays open
  MaxAvoided,  \* bound: re-investigations logged as avoided
  None         \* SQL NULL

Keys == Plans \X Names     \* a build's unique key
Statuses == {"pass", "fail", "blocked", "not_run", "in_progress"}
Red == {"fail", "blocked"}
Metadata == [branch: Branches \cup {None}, commit: Commits \cup {None},
             base: Commits \cup {None}]

Build == [id: 1..MaxBuilds, created: 0..MaxNow, branch: Branches \cup {None},
          commit: Commits \cup {None}, base: Commits \cup {None}]

ASSUME LineageAssumption ==
  /\ Default \in Branches
  /\ None \notin Branches \cup Commits \cup Statuses \cup Build
  /\ Metas \subseteq Metadata /\ IsFiniteSet(Cases)
  /\ Reports \subseteq Cases \X Statuses
  /\ Linkable \subseteq Plans \X Cases /\ Flaggable \subseteq Cases
  /\ Window \in Nat /\ MinFlips \in 1..2
  /\ MaxBuilds \in Nat /\ MaxNow \in Nat /\ Start \in 0..MaxNow /\ MaxLag \in Nat
  /\ MaxAvoided \in Nat

VARIABLES
  builds,        \* each key's row, None when there is none
  latest,        \* the current result of each case in each build, None for none
  planCases,     \* <<plan, case>> pairs linked
  quarantined,   \* cases excluded from verdicts
  avoided,       \* guard hits: regressions served with a known fix path
  now            \* the database's clock

vars == <<builds, latest, planCases, quarantined, avoided, now>>

-----------------------------------------------------------------------------
(***************************************************************************)
(* Order of builds                                                         *)
(***************************************************************************)

Built == {b \in Keys : builds[b] # None}
PlanOf(b) == b[1]

\* The order of every listing of builds: created_at, then id.
Before(x, y) == \/ builds[x].created < builds[y].created
                \/ builds[x].created = builds[y].created /\ builds[x].id < builds[y].id

\* The last of a set of builds (none of an empty one).
Newest(S) == {b \in S : \A x \in S \ {b} : Before(x, b)}

-----------------------------------------------------------------------------
(***************************************************************************)
(* Rollup of one build                                                     *)
(***************************************************************************)

PlanCases(p) == {c \in Cases : <<p, c>> \in planCases}
With(b, s) == {c \in Cases : latest[b][c] = s}
Executed(b) == {c \in Cases : latest[b][c] # None}
NotRun(b) == {c \in PlanCases(PlanOf(b)) : latest[b][c] = None}

\* Python's round(100 * n / d): to the nearest, halves to the even one.
Percent(n, d) ==
  LET q == (100 * n) \div d
      r == (100 * n) % d
  IN  IF 2 * r < d \/ (2 * r = d /\ q % 2 = 0) THEN q ELSE q + 1

\* Mutant: the rate is over what ran.
PassRate_OfExecuted(b) ==
  IF Executed(b) = {} THEN 0 ELSE Percent(Cardinality(With(b, "pass")), Cardinality(Executed(b)))

PassRate(b) ==
  IF PlanCases(PlanOf(b)) = {} THEN 0
  ELSE Percent(Cardinality(With(b, "pass")), Cardinality(PlanCases(PlanOf(b))))

-----------------------------------------------------------------------------
(***************************************************************************)
(* Baseline and comparison                                                 *)
(***************************************************************************)

\* Mutant: a build of any branch may be the baseline.
Candidates_AnyBranch(b) == {x \in Built \ {b} : PlanOf(x) = PlanOf(b)}

Candidates(b) == {x \in Built \ {b} : PlanOf(x) = PlanOf(b) /\ builds[x].branch = Default}

Pinned(b) == {x \in Candidates(b) : builds[b].base # None /\ builds[x].commit = builds[b].base}

\* Mutant: builds later than b are eligible as well.
Eligible_AnyTime(b) == Candidates(b)

\* Default-branch builds at or before b; when there are none, all of them.
Eligible(b) ==
  LET S == {x \in Candidates(b) : builds[x].created <= builds[b].created}
  IN  IF S # {} THEN S ELSE Candidates(b)

\* Mutant: the eligible builds are not sorted.
Baselines_Unsorted(b) == IF Pinned(b) # {} THEN Pinned(b) ELSE Eligible(b)

\* resolve_baseline, {} for none.  Several default-branch builds may carry the base
\* commit: the code takes the first of an unordered SELECT, hence any of them.
Baselines(b) == IF Pinned(b) # {} THEN Pinned(b) ELSE Newest(Eligible(b))

\* _classify of a case that ran in at least one of the two builds.
Classify(old, new) ==
  CASE old = None /\ new # None -> "new_test"
    [] new = None /\ old # None -> "removed"
    [] old = "pass" /\ new \in Red -> "regression"
    [] old \in Red /\ new = "pass" -> "fixed"
    [] old \in Red /\ new \in Red -> "still_failing"
    [] OTHER -> "still_passing"

\* The class k of compare(b, x), x in the set Baselines(b) or {} for no baseline.
Class(k, b, x) == {c \in Executed(b) \cup Executed(x) : Classify(latest[x][c], latest[b][c]) = k}

\* The possible outcomes of compare(b, "baseline") for class k: one for each baseline
\* it may pick.  Without one every result is new.
Against(k, b) ==
  IF Baselines(b) # {} THEN {Class(k, b, x) : x \in Baselines(b)}
  ELSE {IF k = "new_test" THEN Executed(b) ELSE {}}

-----------------------------------------------------------------------------
(***************************************************************************)
(* Merge-readiness of a branch, and the known-regression guard             *)
(***************************************************************************)

\* Builds of branch br in the trailing window; the default branch has no verdict.
Active(br) == {b \in Built : /\ builds[b].branch = br /\ br # Default
                             /\ builds[b].created >= now - Window}

\* The builds at the head commit: a build without commit_id heads those without one.
AtHead(br) == {b \in Active(br) : \E h \in Newest(Active(br)) : builds[b].commit = builds[h].commit}

\* Mutant: `quarantined IS false`.
Counted_Inverted(S) == S \cap quarantined

\* Quarantined cases never count.
Counted(S) == S \ quarantined

\* branch_status: the verdicts its choices of baselines can lead to.
Verdicts(br) ==
  {v \in {"BLOCKED", "READY"} :
     \/ /\ v = "BLOCKED"
        /\ \E b \in AtHead(br) : \E S \in Against("regression", b) : Counted(S) # {}
     \/ /\ v = "READY"
        /\ Active(br) # {}
        /\ \A b \in AtHead(br) : \E S \in Against("regression", b) : Counted(S) = {}}

\* known_regressions: what it may list of branch br, as pairs of a build at the head and a
\* case that regressed in it.
Listed(br) ==
  {e \in AtHead(br) \X Cases : \E S \in Against("regression", e[1]) : e[2] \in Counted(S)}

\* Its possible answers for some branches: each build is compared with one baseline.
Answers(brs) ==
  {A \in SUBSET (UNION {Listed(br) : br \in brs}) :
     \A br \in brs : \A b \in AtHead(br) : \E S \in Against("regression", b) :
       {c \in Cases : <<b, c>> \in A} = Counted(S)}

-----------------------------------------------------------------------------
(***************************************************************************)
(* History of a case                                                       *)
(***************************************************************************)

\* The builds with a result of c; their order is Before.
History(c) == {b \in Built : latest[b][c] # None}

\* The build just before b in c's history, {} when b is the first.
Previous(c, b) == Newest({x \in History(c) : Before(x, b)})

Broke(c) == {b \in History(c) : /\ latest[b][c] \in Red
                                /\ \E x \in Previous(c, b) : latest[x][c] = "pass"}

Fixed(c) == {b \in History(c) : /\ latest[b][c] = "pass"
                                /\ \E x \in Previous(c, b) : latest[x][c] \in Red}

\* The completed paths: a break, and the first fix after it, with no later break between.
Paths(c) == {p \in Broke(c) \X Fixed(c) :
               /\ Before(p[1], p[2])
               /\ \A z \in Broke(c) \cup Fixed(c) : ~ (Before(p[1], z) /\ Before(z, p[2]))}

\* Mutant: no path while the case is broken again.
FixPath_WhenGreen(c) ==
  {p \in Paths(c) : \A z \in Broke(c) \cup Fixed(c) : ~ Before(p[2], z)}

\* known_fix_path: the most recent completed path, {} for none.
FixPath(c) == {p \in Paths(c) : \A q \in Paths(c) : ~ Before(p[2], q[2])}

\* project_health's flips: consecutive results of which one passed and one did not.
Flips(c) == {b \in History(c) : \E x \in Previous(c, b) :
                                  (latest[x][c] = "pass") # (latest[b][c] = "pass")}

FlakyCandidates == {c \in Cases : Cardinality(Flips(c)) >= MinFlips}

-----------------------------------------------------------------------------
(***************************************************************************)
(* Writes                                                                  *)
(***************************************************************************)

Supplied(new, old) == IF old = None THEN new ELSE old

\* Find-or-create by (plan, name): a new row is dated by its transaction's start, which
\* later rows may precede; on an existing one the missing fields are filled.
Upsert(b, m) ==
  \/ /\ builds[b] = None
     /\ Cardinality(Built) < MaxBuilds
     /\ \E t \in 0..now :
          /\ now - t <= MaxLag
          /\ builds' = [builds EXCEPT ![b] =
                [id |-> Cardinality(Built) + 1, created |-> t,
                 branch |-> m.branch, commit |-> m.commit, base |-> m.base]]
  \/ /\ builds[b] # None
     /\ builds' = [builds EXCEPT ![b].branch = Supplied(m.branch, @),
                                 ![b].commit = Supplied(m.commit, @),
                                 ![b].base = Supplied(m.base, @)]

\* create_build, which takes no base_commit.
CreateBuild(b, m) ==
  /\ Upsert(b, [m EXCEPT !.base = None])
  /\ UNCHANGED <<latest, planCases, quarantined, avoided, now>>

\* Mutant: the result of a build that is not there.
RecordExecution_NoUpsert(b, m, c, s) ==
  /\ latest' = [latest EXCEPT ![b][c] = s]
  /\ UNCHANGED <<builds, planCases, quarantined, avoided, now>>

\* record_execution of a result that becomes the current one: any case of the project,
\* in the plan or not.  (One that ranks below the current result shows only its build.)
RecordExecution(b, m, c, s) ==
  /\ Upsert(b, m)
  /\ latest' = [latest EXCEPT ![b][c] = s]
  /\ UNCHANGED <<planCases, quarantined, avoided, now>>

\* add_cases and remove_case.
AddCase(p, c) ==
  /\ planCases' = planCases \cup {<<p, c>>}
  /\ UNCHANGED <<builds, latest, quarantined, avoided, now>>

RemoveCase(p, c) ==
  /\ planCases' = planCases \ {<<p, c>>}
  /\ UNCHANGED <<builds, latest, quarantined, avoided, now>>

SetQuarantine(c, flag) ==
  /\ quarantined' = IF flag THEN quarantined \cup {c} ELSE quarantined \ {c}
  /\ UNCHANGED <<builds, latest, planCases, avoided, now>>

Tick == /\ now < MaxNow /\ now' = now + 1
        /\ UNCHANGED <<builds, latest, planCases, quarantined, avoided>>

\* record_guard_hits: of the regressions an agent is told of, those with a fix path count
\* as re-investigations avoided, each time it asks.
ServeGuard(brs) ==
  /\ \E A \in Answers(brs) :
       LET hits == {e \in A : FixPath(e[2]) # {}}
       IN  /\ hits # {}
           /\ avoided + Cardinality(hits) \in 0..MaxAvoided
           /\ avoided' = avoided + Cardinality(hits)
  /\ UNCHANGED <<builds, latest, planCases, quarantined, now>>

Init ==
  /\ builds = [b \in Keys |-> None]
  /\ latest = [b \in Keys |-> [c \in Cases |-> None]]
  /\ planCases = Plans \X Cases
  /\ quarantined = {}
  /\ avoided = 0
  /\ now = Start

Next ==
  \/ \E b \in Keys, m \in Metas : CreateBuild(b, m)
  \/ \E b \in Keys, m \in Metas, r \in Reports : RecordExecution(b, m, r[1], r[2])
  \/ \E l \in Linkable : AddCase(l[1], l[2]) \/ RemoveCase(l[1], l[2])
  \/ \E c \in Flaggable, flag \in BOOLEAN : SetQuarantine(c, flag)
  \/ \E brs \in SUBSET (Branches \ {Default}) : ServeGuard(brs)
  \/ Tick

Spec == Init /\ [][Next]_vars

-----------------------------------------------------------------------------
(***************************************************************************)
(* Properties                                                              *)
(***************************************************************************)

TypeOK ==
  /\ builds \in [Keys -> Build \cup {None}]
  /\ \A x, y \in Built : x # y => builds[x].id # builds[y].id
  /\ \A b \in Built : builds[b].created <= now
  /\ latest \in [Keys -> [Cases -> Statuses \cup {None}]]
  /\ \A b \in Keys, c \in Cases : latest[b][c] # None => b \in Built
  /\ planCases \subseteq Plans \X Cases
  /\ quarantined \subseteq Cases
  /\ avoided \in 0..MaxAvoided
  /\ now \in 0..MaxNow

\* A step that writes one build, which is on neither branch br nor the default branch
\* before or after it, leaves the verdict of br what it could be: other branches' builds
\* are no baseline, no head and no regression of br (resolve_baseline, branch_status).
BranchesAreIsolated ==
  [][\A b \in Keys, br \in Branches \ {Default} :
       /\ <<builds[b], latest[b]>> # <<builds'[b], latest'[b]>>
       /\ \A x \in Keys \ {b} : builds'[x] = builds[x] /\ latest'[x] = latest[x]
       /\ builds'[b] # None /\ builds'[b].branch \notin {br, Default}
       /\ UNCHANGED <<quarantined, now>>
       => Verdicts(br)' = Verdicts(br)]_vars

\* A new build, dated wherever its transaction began, changes the baseline of another in
\* two ways only: it is of its merge base, or, when none is, it takes the place of a baseline
\* it comes after, and of one at or before the judged build only if it is so itself.  What
\* happens on the default branch afterwards does not change the judgement (resolve_baseline).
LaterBuildsDoNotRejudge ==
  [][\A n \in Keys, b \in Built :
       /\ builds[n] = None /\ builds'[n] # None /\ \A x \in Built : builds'[x] = builds[x]
       /\ Baselines(b)' # Baselines(b)
       => /\ n \in Candidates(b)'
          /\ \/ builds[b].base # None /\ builds'[n].commit = builds[b].base
             \/ /\ Pinned(b) = {} /\ Baselines(b)' = {n}
                /\ \A x \in Baselines(b) :
                     IF builds[x].created <= builds[b].created
                     THEN builds'[n].created <= builds[b].created /\ Before(x, n)'
                     ELSE builds'[n].created <= builds[b].created \/ Before(x, n)']_vars

\* Every branch that is active has a verdict, and only such a branch.  The verdict depends on
\* the order in which the database returns rows in one case only: a build at the head has
\* several default-branch builds at its merge base, and these differ on a case that is red in
\* it and counts (resolve_baseline takes the first of an unordered SELECT).
VerdictsAreDecided ==
  \A br \in Branches \ {Default} :
    /\ Verdicts(br) # {} <=> Active(br) # {}
    /\ {"BLOCKED", "READY"} \subseteq Verdicts(br) =>
         \E b \in AtHead(br), c \in Cases \ quarantined : \E x, y \in Pinned(b) :
           latest[b][c] \in Red /\ latest[x][c] = "pass" /\ latest[y][c] # "pass"

\* Quarantining cases never blocks a branch that could be ready, and lifting a quarantine
\* never frees one that could be blocked.  The guard goes with the verdict: it has something
\* to list of a branch exactly when the branch can be blocked, and a quarantine takes its
\* cases off the list and no others.
QuarantineOnlyUnblocks ==
  [][quarantined' # quarantined /\ UNCHANGED <<builds, latest, now>> =>
       \A br \in Branches :
         /\ quarantined \subseteq quarantined' /\ "READY" \in Verdicts(br)
              => "READY" \in Verdicts(br)'
         /\ quarantined' \subseteq quarantined /\ "BLOCKED" \in Verdicts(br)
              => "BLOCKED" \in Verdicts(br)'
         /\ quarantined \subseteq quarantined'
              => Listed(br)' = {e \in Listed(br) : e[2] \notin quarantined'}
         /\ (Listed(br) # {} <=> "BLOCKED" \in Verdicts(br))]_vars

\* What a result that is added does to a known fix path, the answer an agent is to reuse when
\* the case breaks again (case_history, known_fix_path).  At the end of the history, whatever
\* it is, it leaves the path known or puts a more recent one in its place.  Anywhere else, of
\* a build that was dated back or reported late, one that passed, failed or was blocked
\* leaves the case with a path; an unfinished one may hide it.
FixPathPersists ==
  [][\A c \in Cases :
       /\ latest' # latest
       /\ \A b \in History(c) : latest'[b][c] = latest[b][c]
       => /\ (\A b \in History(c), n \in History(c)' \ History(c) : Before(b, n)')
               => \A p \in FixPath(c) : \E q \in FixPath(c)' : p = q \/ Before(p[2], q[2])'
          /\ (\A n \in History(c)' \ History(c) : latest'[n][c] \in Red \cup {"pass"})
               => (FixPath(c) # {} => FixPath(c)' # {})]_vars

\* Every case with a known fix path is listed as a flaky candidate, with the default of
\* two flips: a regression fixed once and a flaky case look the same to project_health.
FixedOnceIsFlaky == \A c \in Cases : FixPath(c) # {} => c \in FlakyCandidates

\* Comparing two builds the other way round mirrors the classes: what one calls a fix
\* the other calls a regression, what is new in one is removed in the other, and a case
\* failing or passing in both keeps its class.
Mirror == [regression |-> "fixed", fixed |-> "regression", new_test |-> "removed",
           removed |-> "new_test", still_failing |-> "still_failing",
           still_passing |-> "still_passing"]

ComparisonMirrors ==
  \A x, y \in Built, k \in DOMAIN Mirror : Class(k, x, y) = Class(Mirror[k], y, x)

\* A case of the plan that was skipped or did not pass is missing from the rate: 100 is
\* shown only where passes of cases outside the plan make up for it, and more than 100 only
\* where they more than do (build_rollup).  From 200 cases on one may be rounded away.
RateCountsSkipped ==
  \A b \in Built :
    LET P == PlanCases(PlanOf(b))
        W == With(b, "pass")
    IN  /\ P # {} /\ Cardinality(P) < 200 /\ PassRate(b) >= 100
             => Cardinality(P \ W) <= Cardinality(W \ P)
        /\ PassRate(b) > 100 => Cardinality(P \ W) < Cardinality(W \ P)

\* The requirement REQ-BRANCH-2 of the lineage design: an active branch is BLOCKED if any
\* plan that ran at its head commit regresses against its baseline.
AnyPlanBlocks ==
  \A br \in Branches \ {Default} : \A h \in Newest(Active(br)), b \in Built :
    /\ builds[b].branch = br /\ builds[b].commit = builds[h].commit
    /\ \A S \in Against("regression", b) : Counted(S) # {}
    => Verdicts(br) = {"BLOCKED"}

=============================================================================
