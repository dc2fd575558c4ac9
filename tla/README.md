# A formal model of AgentQA

TLA+ specifications of the parts of AgentQA (`src/`) whose correctness depends on more
than one request at a time or on long sequences of requests, with TLC configurations that
model-check them and TLAPS proofs of their main properties.

AgentQA is a test-management service: projects hold suites of versioned test cases, plans
select cases, builds are runs of a plan at a commit, executions record results, and coding
agents drive everything over REST (`app/api`) or MCP (`app/mcp_server`).  Every request is
one SQLAlchemy `AsyncSession` on PostgreSQL at READ COMMITTED (`app/db.py`), most write
paths read first and insert later, and the test suite runs in a single session with
savepoints (`tests/conftest.py`), so no test has two requests in flight.  That, and results
that depend on the whole history of a project, is where this project looks.

- [1. The system](#1-the-system): components, state, operations, what is hard
- [2. The models](#2-the-models): modules and how they correspond to the code
- [3. What TLC checks](#3-what-tlc-checks): runs, bounds, fairness
- [4. What TLAPS proves](#4-what-tlaps-proves)
- [5. Findings](#5-findings)
- [6. What is not modelled](#6-what-is-not-modelled)
- [7. Plan](#7-plan)

Running it, in this directory:

    tlc -workers 2 -config MCRecording_race.cfg MCRecording
    tlapm RecordingProofs.tla

`PROJECT.json` lists the components, the runs, for every checked property a mutation of a
mapped definition that breaks it, the source lines of each definition that translates code
(`Next`, and the disjunctions of a handler's steps, translate none of their own), the findings,
the hazards and the theorems.

## 1. The system

| Component | State | Operations that change it | Hard behaviour | Correct when |
|---|---|---|---|---|
| Result recording: `services/executions.py`, `builds.py` | `executions`, `builds` and their metadata | `record_execution` (with `_upsert_build`, `_cascade_block`), `create_build` | reports race for one build row; two transactions in one request; the client cannot tell a lost answer from a lost report | each report is stored once per answer; auto-blocks have a cause and hide no older result; metadata comes from recorded reports |
| Dependency graph: `services/testcases.py` | `test_case_relations` | `add_dependency` | a search over a table other requests change, no constraint behind it | no cycle and no duplicate unless requests overlapped; refusals are justified; the search ends |
| Lineage: `services/lineage.py`, `db_views.py` | none of its own but the guard-hit log; reads builds, current results, membership, quarantine | `record_guard_hits`; every write of the others moves its answers | verdicts, baselines and fix paths depend on order, time and all branches | a branch is judged by its own builds against the right baseline; a known fix stays known |
| Test case authoring: `testcases.py`, `suites.py` | `test_cases`, versions, steps, `tc_counter`, suite tree | `create_test_case`, `create_version`, `find_or_create_path`, `set_quarantine`, MCP `bulk_create_test_cases` | read-modify-write counters; case-by-case commits of a bulk call | external ids unique and dense; one current version; one suite per path |
| Plans and manifest: `plans.py` | `test_plans`, `test_plan_cases`, milestones | `add_cases`, `remove_case`, plan updates; `get_run_manifest` reads | membership keyed by version; several reads make one answer; agents act on it | a case is runnable only after its prerequisites passed; every plan can be finished |
| Requirements: `requirements.py` | requirements, versions, coverage links | `create_requirement`, `link_coverage`, ... | check-then-insert; coverage of old versions | one link per pair; gaps and traceability agree |
| Work queue: `reruns.py`, `assignments.py` | `assignments` | `request_rerun`, create, update | check-then-insert | one open rerun per case and build |
| Evidence: `evidence.py` | reasoning, claims, verifications, artifacts, evaluations | `record_claims_and_reasoning`, `verify_claim`, `upload_artifact`, ... | blob before row; who may verify | no claim verified by its claimant; no row without its blob |
| Identity: `users.py`, `auth.py`, `api/deps.py` | `users`, API keys | register, soft-delete | - | one row per login |
| Projects, platforms, milestones, annotations | one table each | insert, update | - | - |
| MCP server: `mcp_server/server.py` | none | one session around service calls | several calls per tool | as the services |
| CLI, console (`ui/`), scripts, migrations, storage, embeddings | none, or outside the database | - | - | - |

How they interact: `record_execution` reads authoring (case, current version), plans
(members) and the dependency graph (cascade) and writes builds; the manifest joins plans,
the dependency graph and the latest executions; lineage reads builds and executions through
the view `latest_result_per_build_case`, and quarantine from authoring; reruns and
assignments point at builds.  All of it through shared tables: there are no callbacks and no
messages between components, and nothing but the primary keys and the few unique keys
(`builds(plan_id, name)`, `test_cases(project_id, external_id)`, `projects.prefix`, users)
stands between two requests.

`created_at` is `now()` in PostgreSQL, the start of the transaction.  "Latest" therefore
means "began last", not "committed last", in every query of the system.

## 2. The models

| Module | Models | Instances | Theorems |
|---|---|---|---|
| `Recording` | `services/executions.py`, `builds.py` | `MCRecording` | `RecordingProofs` |
| `Ledger` | what recording promises; implemented by `Recording` | through `MCRecording` | `RecordingProofs` |
| `Dependencies` | `add_dependency`, `_creates_cycle` | `MCDependencies` | `DependenciesProofs` |
| `Lineage` | `services/lineage.py` over the writes that move it | `MCLineage` | `LineageProofs` |
| `Authoring` | `projects.py`, `suites.py`, `testcases.py`, the filing tools of `server.py` | `MCAuthoring` | `AuthoringProofs` |
| `Catalog` | what authoring promises; implemented by `Authoring` | through `MCAuthoring` | `CatalogProofs` |
| `Planning` | edits of plans, `requirements.py`, `reruns.py`, `assignments.py` | `MCPlanning` | `PlanningProofs` |
| `Campaign` | `get_run_manifest`, with agents that run the plan off it and record | `MCCampaign` | `CampaignProofs` |
| `Evidence` | `evidence.py`, `users.py`, `auth.py`, the start of a call | `MCEvidence` | `EvidenceProofs` |

The models of requests share their shape.  Each client has a request (`req`), a place in its
handler (`pc`), the local state the handler carries from one statement to the next, and
bounds on how often it is sent (`attempts`) and how many requests die (`crashes`).  An action
is the code between two awaits.  What a request has written and not committed is in its own
local state (`mine`, `pend`, `number` ...) and visible to nobody else, as at READ COMMITTED; a
row lock is a variable (`owner`).  Rows carry, as history no action reads, the clock of the
statements they rest on (`looked`, `began`) and of their commit (`ended`), so that a property
can say "the two overlapped".

### `Recording`

`record_execution`, `_upsert_build`, `_cascade_block` and `create_build`, as run by
concurrent clients (`Recorders`), each with one report (`req`) it may have to send again.

| Code | Model |
|---|---|
| committed rows of `executions`, `builds` | `rows`, `present`, `meta` |
| row lock or unique-key lock of an uncommitted write to a build | `owner` |
| `now()` at the start of a transaction | `clock`, `started` |
| the handler's place between two awaits | `pc`: select, write, commit, cascade, block, reply |
| the build the SELECT of `_upsert_build` returned | `seen` |
| the queue and the uncommitted inserts of the cascade | `todo`, `pend` |
| client retries, dead workers | `attempts`, `lost`, `crashes`, `degraded` |

Actions: `Begin` (lookups, NotFound), `SelectBuild`, then one of `InsertBuild`,
`LoseInsertRace` (unique violation once another request has committed the row),
`BackfillBuild`, `LeaveBuild`; `RejectSteps` (ValidationFailed after the flush) or `Commit`;
`CascadeBegin`, `CascadeCheck` per downstream case, `CascadeCommit`, or `CascadeFail` (the
`except` that logs and rolls back); `Reply`; `Crash`; `Retry`.  The primary result and the
cascade are two transactions of one session, as in the code.  Abstracted: names and payloads
are model values; step results, claims and artifacts are one flag (`bad_step`); plan
membership and the dependency graph are constants, since other services change them
(`Campaign` composes them).

### `Ledger`, which `Recording` implements

`Ledger` has no transactions, locks, sessions or clock: a report is posted in one step
(`Post`: one result, one build row, no supplied field dropped) or refused, a failing report's
auto-blocks appear in one later step (`Spread`) or never, a client is answered, or sees an
error (`Fail`) and asks again (`Resend`).  The refinement mapping is at the end of
`Recording`: rows, builds and metadata are themselves, and `Standing` maps the place of a
request: everything up to the first commit is `pending`, the cascade is `spreading`, and so
on.  `ImplementsLedger` is a property of `rec_race` and a theorem (`LedgerImplemented`).

### `Dependencies`

`add_dependency` and `_creates_cycle`, statement by statement.  `relations` holds the
committed rows with the interval of the request that added each; `stack` and `visited` are
the search's; `Send` checks the arguments, `FindCycle`, `Visit`, `Lookup`, `Commit` are the
handler, `Crash` a lost worker.  The search order of the code (last pushed first) is widened
to any order.

### `Lineage`

The answers of `services/lineage.py` as operators on the state, one for each function or
query: `PassRate` (`build_rollup`), `Baselines` (`resolve_baseline`), `Classify` and
`Against` (`compare`), `Verdicts` (`branch_status`), `Listed` and `Answers` (the
known-regression guard), `History`, `Broke`, `Fixed` (`case_history`), `FixPath`
(`known_fix_path`), `Flips` and `FlakyCandidates` (`project_health`).  The actions are the
writes that move them: `CreateBuild`, `RecordExecution` (with the upsert of the build),
`AddCase`, `RemoveCase`, `SetQuarantine`, `Tick` for the trailing window, and `ServeGuard`,
the one read that writes: the regressions it serves with a fix path are counted in `avoided`.
A new build is dated up to `MaxLag` before the present: its transaction may have begun before
those that committed first.

Where the code picks among rows in no defined order (`resolve_baseline` takes the first
default-branch build at the base commit of an unordered SELECT) `Baselines` is the set of
all of them, `Against` and `Verdicts` the sets of outcomes, `Answers` the lists one guard
call may return, and the properties speak of all.  `known_regressions` repeats the
computation of `branch_status` on the same sets (`AtHead`, `Against`, `Counted`).

`case_history` scans a sorted list with a "last broke" variable; the model states the same
with the order of builds: a completed path is a break and a fix with no transition between.
Reads of one request are atomic here.

### `Authoring`

| Code | Model |
|---|---|
| `projects` with the unique `prefix`, `suites`, `test_cases`, `test_case_versions` | `projects`, `suites`, `cases`, `versions` |
| `projects.tc_counter`, and the row lock from its UPDATE to the commit | `counter`, `owner` |
| the parent and the remaining parts in `find_or_create_path` | `at`, `depth` |
| suites flushed and not committed | `mine` (ids from `nextSuite`, never given back) |
| the external id built from the counter | `number` |
| the position in the list of `bulk_create_test_cases` | `filed` |
| the version `create_version` loaded | `read` |

One action per statement: `FindPrefix`, `CreateProject` / `LosePrefix`; `CreateSuite`;
`Descend`, `InsertPart`, `Ambiguous` (two rows in `scalar_one_or_none`), `CommitPath`;
`RejectItem`, `BuildExternalId`, `FlushCase` / `LoseNumber`, `CommitCase`; `LoadVersion`,
`CreateVersion`.  The filing tools of the MCP server are a request of kind `path`: the path
is committed first, then each case on its own, and a bad item or a lost race ends the list
where it is.  A crash rolls back the open transaction only.

### `Catalog`, which `Authoring` implements

`Catalog` has no transactions, locks, sequences or clock.  A project, a suite and a version
appear in one step each; a path appears with all its missing suites (`CreatePath`), each
case of a list with its number, its first version and the counter (`FileCase`); a request
is refused before it wrote anything or at its malformed item, and an error (`Fail`) takes
nothing back that is there.  It keeps what races leave open: two suites of one name, two
versions of one number, a path filed under either.  The mapping is at the end of
`Authoring`: the tables and `filed` are themselves, and `Standing` maps the place of a
request (`pending` up to its first commit, `filing` between the cases of a list).
`ImplementsCatalog` is a property of `aut_race` and a theorem.

### `Planning`

Three lists filled by "look for it, insert it if there is none" with no key behind them:
`links` (`test_plan_cases`), `coverage` (`req_coverage`) and `queue` (`assignments`), beside
`versions` (the number of each case's current version) and `reqs`.  `Pin` reads the current
version of the next case of the request, `FindLink` / `FindCoverage` looks for the row of
that version and adds one to `mine`, `Ambiguous` is a lookup that finds two, `Refuse` a bad
case, `CommitRows` the commit.  `ReadVersions`, `ReadLinks`, `DeleteLinks` are `remove_case`;
`ScanCase`, `FailKey`, `CommitReruns` are `request_rerun`; `CreateAssignment` (with a build,
or without one as the MCP tool assigns), `UpdateAssignment` and `NoAssignment` the endpoints
of the queue; `Bump` is
`create_version` in one step.

### `Campaign`

The composition: agents that read the manifest of a plan, run what it calls runnable and
record it in one build, with cascades, while people edit the plan and the dependencies.
`ReadLinks`, `ReadDeps` (one case a step) and `ReadStatus` are the statements of
`get_run_manifest`; `RunCase` and `ReportBlocked` the agent, who is not code of this
repository: what it does is the workflow of `docs/agent-guide.md` ("Run top-down off the
manifest"); `Record`, `CascadeBegin`, `CascadeEnd` the two transactions of `record_execution`
(their statements are `Recording`'s).  The results of a case are a sequence in the order of
`created_at`: a transaction takes its place when it begins and is visible once it commits, so
"the newest result" can change in the past of one that is already there. `Upstream`,
`Attainable` and `Downstream` are least sets, not recursions, and the entries an agent has
still to deal with a set of them by their order, as the proofs need it.

### `Evidence`

Claims filed with a report, verdicts on them, artifacts and their blobs, audit reports, and
the two readers that gather evidence, each call beginning with who calls (`Begin`,
`Authenticated`).  A verdict takes its id from `sequence` at the flush and appears at the
commit (`FlushVerdict`, `CommitVerdict`), which is why "latest by id" (`Latest`) deserves a
property.  `PutBlob` writes the object store, which no rollback reaches.  The client of kind
`audit` works through `list_unverified_claims` again and again, as the agent guide has
auditors do.  `ReadExecutions`, `ReadEvidence` (one execution a step), `ReadReasoning` and
`ReadGreen` are `get_execution_evidence` and `get_failure_context` (the failures, what earlier
runs reasoned, the last pass).  `users` has the race of `register_agent`, which asks for the
enrolment secret (`Enrolled`), and deactivation in the middle of somebody's work.

### `MC*` and `*Proofs`

`MC<module>` extends a module with the small instances the configurations use;
`<module>Proofs` holds its theorems.  The specifications declare no RECURSIVE operator, so
that they can be proved about (closures are least sets, histories are ordered sets).

## 3. What TLC checks

| Run | States | Instance and properties |
|---|---|---|
| `rec_race` | 580 000 | Two recorders with every pair of eight reports: a failing prerequisite with a cascade that crosses a case outside the plan, a cascade from below it, real results downstream and in another build, a late rejection, an unknown case, no build at all, a registration that races to create or complete the build; one crash, two attempts each. `TypeOK`, `OneResultPerAnswer`, `BlockedHasCause`, `CascadeSkipsRecorded`, `CascadeIsComplete`, `OnlyStaleReadsOverwrite`, the refinement `ImplementsLedger`, and under fairness `EveryRequestSettles` |
| `dep_race` | 156 000 | Two clients, two requests each, over both directions of a pair, a longer cycle and all refusals. `TypeOK`, `CyclesNeedARace`, `DuplicatesNeedARace`, `RefusalsAreReal`, and under fairness `EveryRequestAnswers` |
| `lin_verdict` | 140 000 | Up to three builds of a plan with metadata of the default branch, of a branch with a merge base, or none yet, at three dates, out of order, backfilled, ageing out of the window; one case, quarantined or not; one guard hit. `TypeOK`, `VerdictsAreDecided`, `BranchesAreIsolated`, `LaterBuildsDoNotRejudge` |
| `lin_history` | 140 000 | Up to four builds dated out of order, in a plan of two cases: one gets results, `in_progress` among them, and leaves and rejoins the plan, the other is skipped or passes. `FixPathPersists`, `RateCountsSkipped` |
| `aut_race` | 393 000 | Two authors with every pair of thirteen requests that meet on a path, an external id, a version or a prefix, over a project with a case or none; one crash, two attempts each. `TypeOK`, `NumbersAreDense`, `PathSplitsNeedARace`, `CasesAreFiled`, `ListsAreFiledInOrder`, `VersionsForkOnlyInARace`, `EditsSurvive`, the refinement `ImplementsCatalog` |
| `plan_race` | 306 000 | Two planners with every pair of twenty requests over a plan, a requirement and the work queue, with and without a past, while a case gets a new version; one crash, two attempts each. `TypeOK`, `SelectedOnce`, `RemovalIsComplete`, `RequirementIsWhole`, `RerunIsQueued`, `CoveredStaysCovered` |
| `camp_run` | 190 000 | Two agents and a plan of one or two of three cases, a chain or a cycle, manifests by build or global; one run fails, one trouble (an edit, a result elsewhere, or a dead agent). `TypeOK`, `RunsAreGrounded`, and under fairness `CampaignSettles` |
| `evid_audit` | 382 000 | Three clients in eleven scenarios: two auditors and a crash, audits while somebody reports, retires or verifies the same claim, uploads beside bundles, reports beside contexts, registrations of one login. `TypeOK`, `VerdictsAreInOrder`, `EvidenceIsWhole`, and under fairness `ClaimsGetAudited` |
| `rec_override`, `rec_first`, `dep_dag`, `lin_window` | - | counterexamples to what the documentation says, see section 5 |

For every property `PROJECT.json` names a change to one mapped definition (an operator
commented "Mutant" in its module: a dropped check, a missing key, a wrong row read first)
under which TLC finds it violated in the same instance.

What the properties mean:

- Recording: a report is stored once per answer it could have got (`OneResultPerAnswer`), an
  auto-block has a failed prerequisite in its build and hides no result that was committed
  when its cascade began; a cascade that was answered as complete left no target without a
  result.
- Dependencies: every cycle, every duplicate has two requests that overlapped; a refusal for a
  cycle had one.
- Lineage: what other branches do never moves a branch's verdict.  The unordered SELECT of
  `resolve_baseline` can make a verdict go either way in one situation only: two builds at the
  merge base differ on a case that is red at the head (`VerdictsAreDecided`).  A new build,
  also one that was dated back by its transaction, changes a baseline only as a build of the
  merge base or as a better one by the code's own order; in particular, one that began after
  the judged build never replaces one that did not.  A newer result leaves a known fix known;
  one that is dated back leaves the case with a fix path, unless it is unfinished: an
  `in_progress` or `not_run` result between a break and its fix hides that path, as
  `case_history` compares neighbours.  A pass rate shows 100 with plan cases not passed only
  if as many cases outside the plan passed, and exceeds 100 only if more did.
- Authoring: numbers are dense and unique, versions and suites fork and edits get lost only
  between overlapping requests, a list is filed from its head without holes, each case under
  the path it was sent for; nobody sees half of a path, of a case or of a version.
- Planning: a duplicate link, coverage or rerun has one of the stated causes; removal leaves
  no link that was there before it; a requirement is recorded with all of its coverage or not
  at all; no request opens a coverage gap; an answered rerun is queued.
- Campaign: what an agent runs had all its prerequisites passed, and by build all of what is
  upstream; everything in the plan that can pass ends up passed, cycles or not.
- Evidence: the verdict shown of a claim is not one that was there before a later verification
  began; what a reader is shown of a run is all there was, with stored blobs; each claim is
  verified as long as an auditor who did not file it keeps working.

The bounds.  Two requests are the least that race, and two attempts of each give crossings of
a retry with the other's first attempt; a third adds no new kind of conflict, as every one (a
unique key, a row lock, a check before an insert, two stale reads) is between two
transactions.  `Evidence` has three clients because an auditor, a claimant and a third party
are three.  In `Dependencies` four requests are enough to commit a cycle and walk it, and to
duplicate a pair and ask for it again.  In `Lineage` three builds are two baselines to choose
from and a head, and four builds are a completed path and a break after it, or a path and a
result dated back into it.  `lin_verdict` has one plan and one branch besides the default one:
baselines never cross plans (`Candidates`), and the builds of no branch play the part of the
other branches; for any number of them, and of cases and plans, the same properties are
proved.  In `Campaign` three cases are a chain through a case outside the plan, or a cycle and
a case that waits for it, and one trouble already gives every stale manifest that one edit can
make. Each bound is a constant commented as one.

Symmetry is used only where no liveness is checked and every constant involved is
interchangeable (clients with any of the requests; names and plans).

Deadlock is checked in `camp_run`: agents always have a manifest to ask for.  Elsewhere it
is not: in the bounded models every client ends up with no attempt left and the system
rightly stops (in `lin_*`, once the builds and the dates are used up).  That nothing hangs
before is what the liveness properties say.

Fairness.  `EveryRequestSettles`, `EveryRequestAnswers` and `ClaimsGetAudited` assume weak
fairness of the handler steps of each request: the event loop and PostgreSQL keep running a
request they have accepted, and a row lock is granted once it is free.  Since a lock is only
ever waited for in a step that stays enabled while the lock is free, and its holder has no
step that waits for another lock, weak fairness suffices.  In `Recording` nothing is assumed
of clients (sending, retrying), and one that gives up after an error counts as settled.
`ClaimsGetAudited` also assumes that an auditor goes on with its list (its calls are steps of
`Handle`), and `CampaignSettles` that each agent keeps asking for manifests and working
through them: both are the loops `docs/agent-guide.md` prescribes, and both properties say
what the code makes of agents that follow it.  Nothing is assumed of crashes, edits or
failures but that they are bounded.

## 4. What TLAPS proves

For all values of the constants that satisfy the modules' assumptions: any sets of cases,
builds, recorders, requests, dates and bounds (in `Lineage` the cases are finitely many).

`RecordingProofs`: `TypeOK`, `OneResultPerAnswer`, `BlockedHasCause`, `CascadeSkipsRecorded`,
`CascadeIsComplete`, `MetadataHasRecorder`, `OnlyStaleReadsOverwrite`.  The properties speak
of committed rows; none is inductive.  `TypeInv` adds that a request past its lookups names
things that exist.  `CascadeInv` says, of each request in flight, what it still holds: its
triggering report is committed and older than its cascade; every case it has taken off `todo`
is either recorded or in `pend`; every row of a case in `pend` was committed after the
cascade began (the check found none), so that committing `pend` keeps `CascadeSkipsRecorded`.
`BuildInv` says a build that was found stays, that an inserter holds the row, and that what a
request remembers as set is set.  The proofs have one step per action, and lemmas for what a
step of one request leaves of the others'.

The refinement (`LedgerImplemented`: `Spec => ImplementsLedger`) is in the same module: the
initial states map to initial states, and action by action each step of `Recording` is a
step of `Ledger` or leaves its variables alone.  It needs the invariants above: that the
build an uncommitted request inserted is still missing, or the one it backfills is present,
makes its commit a `Post`, and that `pend` holds one row of each target without a result makes the
cascade's commit a `Spread`.

The documentation promises two things of recording that do not hold (section 5).  Both hold
when the requests on a build take turns (`InTurn`: of two requests on one build, at most one
is past its first statement): `SerialFirstSupplierWins`, because what a request remembers
of the build is then still what the row says when it commits (`Sight`), and
`SerialNeverOverrides`, because a case its cascade found without a result still has none
(`StillUnrecorded`).  So the races are the whole difference between the comments and the code.

`NobodyWaitsInACircle` says why a row lock never deadlocks: whoever waits for a build waits
for a request at its commit, which waits for nobody (`LockInv`), and therefore some request in
flight can always take its step (`NeverStuck`).  `EveryStepAdvances` says that each step uses
up something finite: an attempt, a place before the answer, or a case of the cascade, compared
in that order, and leaves the other requests' measures alone.

`DependenciesProofs`: `TypeOK`, `CyclesNeedARace`, `DuplicatesNeedARace`, `RefusalsAreReal`
and `SerialIsAcyclic`.  The invariant of the search (`Searching`, `Inserting`) is that the
prerequisites reachable when the request began, through rows committed by then, are covered:
whatever is reachable from the prerequisite through old rows is visited or reachable from
the stack.  When the stack is empty, the visited set is closed under the old rows and does
not hold the case, hence no old path leads back.  `SerialIsAcyclic` follows by looking at the
last row of a cycle, which then began after all the others had ended.  `EveryStepAdvances` is the
safe half of termination: each step uses up a request, a place, an unvisited case or an
element of the stack, in that order, although the graph may be cyclic and grow while it is
searched.

`LineageProofs`: `TypeOK` (with the invariant that identifiers are handed out in turn),
`BranchesAreIsolated`, `LaterBuildsDoNotRejudge`, `QuarantineOnlyUnblocks`, `FixPathPersists`,
`FixedOnceIsFlaky`, `RateCountsSkipped`, `ComparisonMirrors`.  `StepFrame` and `UpsertFrame`
say what one step can change of a build; isolation then follows definition by definition
(candidates, pinned, eligible, newest, classes); the fix path from a lemma that appending to a
history keeps each transition where it was, and, for a result in the middle, from one that a
path exists exactly when some break precedes some fix, which a decided result cannot undo; the
pass rate from the arithmetic of `Percent`; that the guard's list is empty exactly when the
branch is not blocked (`ListedWhenBlocked`) from both reading the same sets.
`VerdictsAreDecided` says what an unordered SELECT can do to a verdict: a branch is listed
exactly when it is active, and has one verdict unless two builds at a merge base differ on a
case that is red at the head. `OnlyTheWindowHides` states REQ-BRANCH-2 with the one hypothesis
it lacks, that no build of the head commit has left the window.  `OneFixPath` says that a
known fix is unique, and there once a case was fixed after it broke; it needs that builds are
finitely many and totally ordered by `Before`.

`EvidenceProofs`: `TypeOK`, `VerdictsAreInOrder`, `EvidenceIsWhole`.  `TypeInv` adds where
each request is and what it must have found to be there (`InPlace`, `Attempted`, `LookedUp`).
A verdict's id says little of its commit, so the order is proved of the clock instead:
`OrderInv` says that an id handed out later is greater, and `InTime` that the rows there when
a call began have ids below the one it takes at its flush.  The verdict shown is the row with
the greatest id; that there is one follows from well-foundedness, ids being bounded by the
sequence.  `StoreInv` says that a key is stored before its row is written and that no
execution id is used twice. `Reader` says of each reader that what it has gathered and what it
has still to look at cover what there was when it began, and `Grows` that no step takes a row
away, hence nothing leaves that cover; the reasoning of earlier runs is read in one step and
covers by `NewestCover`.  `NobodyGetsStuck` needs that the newest executions of a case exist
(again well-foundedness) and that what a request works on is still there.
`AuditorsSkipNothing` is the safe half of `ClaimsGetAudited`: an auditor that reads the list
takes on every claim without a verdict, and is rid of one only by its own verdict (`Flushed`:
the verdict at the flush is on the claim at hand), by having filed the claim, by being
deactivated or by dying.

`PlanningProofs`: all properties of `plan_race`.  `TypeInv` adds what a request has resolved
and holds at its place (`Placed`, `Resolved`, `Holds`), and that the orders of links are
bounded, without which there is no "next order" (it exists by well-foundedness). `StepMoves`
and `Grown` say once what steps have in common: tables gain rows stamped with their commit,
only links are deleted, only assignments are updated; `CoveredStaysCovered` is a corollary.
The others have an invariant on the requests in flight: `CoverInv` (what a requirement's
request has attached and has still to attach is its list), `Dated` (no row is stamped later
than now, no request began later), `RemovalInv` (the links that were there when a removal
began are gone or on its list), `RerunInv` (each wanted case is queued, about to be, or on the
list), and `OnceInv`, which is `SelectedOnce` with what each request that looked and found
nothing knows: every row like the one it is about to insert was committed after it looked.

`AuthoringProofs`: all properties of `aut_race`.  Every row carries the time of the read it
rests on and of its commit.  `SuiteInv` says what a request has looked up and inserted of its
path; `NumberInv` that whoever has written an external id holds the project's row until its
number is the counter, hence numbers are dense; `TreeInv` that the suite a request is at
spells its path so far; `ListInv` that an item is filed once and after the one before it;
`VersionInv` that a version that rests on a read after another's commit has a greater number,
and keeps what that one set unless an edit set it anew.  `NobodyWaitsInACircle` is as in
`RecordingProofs`: a project's row is locked only by a request at its commit (`LockInv`).
That a lookup of a path ends as one of the model's outcomes needs that suites are finitely
many, and that a case has a current version that its numbers are bounded (`Aged`: by the time
of their commit).

`CatalogProofs`: `ImplementsCatalog`.  The initial states map to initial states, and each
action to one of `Catalog`'s or to a stutter.  Beside the invariants above it needs two of its
own. `Laid` says that the path a request has resolved so far is a chain of suites, its own
inserts among them and nothing it inserted off the chain, so that the commit is a `CreatePath`
with no suite too many (`PathGrafted`); ids of a sequence make the suites it adds new ones
(`SuitePlanted`).  `Poised` says what a request is about to file.  `CaseFiled` needs
`NumberInv`: the number of the case is one above the counter at the moment of its commit, not
only at the moment it was read.  `VersionRevised` needs that a version that was read is still
there.

`CampaignProofs`: `TypeOK` and `RunsAreGrounded`.  `Evolves` says of every step that a
committed row stays (its position may shift) and that a new row is one its agent was entitled
to; `Grounded` that a manifest has every dependency its agent knew of for the cases it has
read, and that a runnable entry's prerequisites have passed.  That the gates add up
(`GatesAddUp`) needs no induction over steps: the cases that have passed are closed under the
dependencies there before any run, as only runs pass in the build.  `ManifestsOfferWork` is
the safe half of `CampaignSettles`: while a case of the plan that can pass (`Attainable`) has
not, a manifest that saw the whole plan has a runnable entry that has not.  If there were
none, the cases that have passed would be closed under what makes a case attainable
(`OneIsNext`); `Reading` says that what a manifest knows of the dependencies is there.

`FixedOnceIsFlaky` (a case with a known fix is a flaky candidate), `MetadataHasRecorder`
(metadata of a build is what some recorded request supplied), `SerialIsAcyclic`,
`QuarantineOnlyUnblocks` and `ComparisonMirrors` (comparing two builds the other way round
swaps the classes) are proved and not among the runs, as are the theorems on serial use, on
waiting and on progress, `AuditorsSkipNothing` and `ManifestsOfferWork`.

Only model-checked: liveness (`EveryRequestSettles`, `EveryRequestAnswers`, `CampaignSettles`,
`ClaimsGetAudited`), which needs ENABLED.  The safe half of each is proved.  In all six
modules of requests every step uses up something finite (`EveryStepAdvances`, stated and
proved in the same form in each).  Where a request may wait for a lock, or needs rows to be
there, nobody in flight is stuck either (`NeverStuck` in the proofs of `Recording`,
`Authoring`, `Evidence` and `Campaign` states the guards of the handlers' steps one by one);
in `Dependencies` and `Planning` no step waits for another request and each lookup has an
action for each of its outcomes, so the same statement would only repeat the guards.  In
`Evidence` and `Campaign` also no round of the loop misses what it is for.  `Authoring` and
`Planning` have no liveness run, there these theorems stand alone.  That fairness turns them
into an answer, or into a settled campaign, is what TLC shows.

## 5. Findings

Disagreements between the code and what its documentation says of it, each with the run that
shows it where there is one.

- `rec_override`: an auto-block can hide a real result committed while the cascade ran;
  `_cascade_block` says it never overrides one.  What does hold is `CascadeSkipsRecorded`, and
  the docstring itself while requests on a build take turns (`SerialNeverOverrides`).
- `rec_first`: two concurrent backfills both write, the last wins; `_upsert_build` says the
  first does.  What holds is `OnlyStaleReadsOverwrite`, and the comment itself while requests
  on a build take turns (`SerialFirstSupplierWins`).
- `dep_dag`: overlapping requests commit a dependency cycle; `add_dependency` says cycles are
  rejected.  What holds is `CyclesNeedARace`, hence `SerialIsAcyclic`; and with a cycle in the
  graph the search still ends, the manifest still answers, and agents finish the rest
  (`EveryRequestAnswers`, `CampaignSettles`).
- `lin_window`: a regression in one plan at the head commit stops counting when its build
  leaves the window, while another plan's build keeps the branch READY; REQ-BRANCH-2 rules out
  such a "cross-plan false-green".  The window is the only way to miss a plan
  (`OnlyTheWindowHides`).
- Without a run of their own: with only newer default-branch builds a branch build is judged
  against one of them, where REQ-BASELINE-3 has its results all new (the ELSE branch of
  `LaterBuildsDoNotRejudge`); out-of-plan passes count in `pass_rate` (`RateCountsSkipped`
  says how many it takes); `in_progress` and `not_run` fall into `still_passing`; the history
  of a case mixes branches, so that a failure on a branch between two green default-branch
  builds is a "known fix" (and, as `FixedOnceIsFlaky` says of every known fix, makes the case
  a flaky candidate); `request_rerun` says it never duplicates work and two that overlap do,
  as does a closed rerun opened again (`QueuedOnce`); linking coverage again after a new
  version, or twice at once, adds a second row although the tool says it is a no-op
  (`CoveredOnce`), and the agent guide says the same of adding cases, suites by path and
  dependencies; a report an agent sends over REST names no tester, against the guide's
  "inferred from your API key", so that the claimant can verify its own claims.

## 6. What is not modelled

- Reads of one lineage request interleaved with writes: results only accumulate in a build,
  so a mixed comparison is one some order of the reports gives, and it is computed anew on
  every read.
- Platforms, milestones, annotations: one insert each, nothing else depends on them; of
  projects only creation.  Listings, searches and dumps, which change no state.
- Password hashing, tokens and API keys: library calls.  Authorisation is who is active.
- Blob storage and embeddings beyond "put may fail, a key is never reused"; the similarity of
  failures is numeric.
- The CLI, the console, scripts and migrations: I/O, layout, or programs that only call the
  API.
- PostgreSQL itself, modelled by what the code relies on: READ COMMITTED visibility, row and
  unique-key locks, sequences, rollback of a lost connection, `now()`.

## 7. Plan

Done: everything of section 2.  Left, in this order:

1. `compare` statement by statement beside reports, should a comparison ever be stored.
2. The refinement of `Campaign`'s reports by `Recording`'s statements, as `Ledger` is refined.
3. What `Planning` promises, as a module of its own, and that `Planning` implements it.
