------------------------------ MODULE Evidence ------------------------------
(***************************************************************************)
(* What stands behind the results: the claims agents file with them, the   *)
(* artifacts they upload, the verdicts of auditors, and the bundles that   *)
(* show all this (app/services/evidence.py), with the identities the work  *)
(* is attributed to (users.py, auth.py, mcp_server/server.py).             *)
(*                                                                         *)
(* Every call is a session of its own that begins by finding out who       *)
(* calls.  Blobs live outside the database and its transactions            *)
(* (app/storage.py).  A verdict's id comes from a sequence when its row is *)
(* flushed, before the commit, and an id is never given back.  There is    *)
(* one test case here: the readers look at the results of one.             *)
(***************************************************************************)
EXTENDS Naturals, FiniteSets

CONSTANTS
  Logins,       \* logins an agent may have
  FirstUsers,   \* those that are registered at first
  Clients,      \* the clients, each with one request to get done
  Scenarios,    \* what requests they may have together
  Verdicts,     \* confirmed, refuted, ...
  AuthRequired, \* AQA_MCP_REQUIRE_AUTH: only active users get past Begin
  LastN,        \* last_n: how many failures a failure context shows
  MaxAttempts,  \* bound: how often a client sends a request that fails
  MaxCrashes,   \* bound: how many requests die on the way
  None          \* SQL NULL

Kinds == {"register", "deactivate", "report", "upload", "verify", "audit", "assess",
          "bundle", "context"}

(***************************************************************************)
(* A request is made by a user on a login, a user, an execution or a       *)
(* claim; value is a status or a verdict.  A report is on its tester: the  *)
(* user, or nobody, as REST has it when the user is an agent.  The client  *)
(* of an "audit" works through the list of unverified claims again and     *)
(* again: docs/agent-guide.md, "Audit (as an auditor agent)".              *)
(***************************************************************************)
Requests == UNION {{q[r] : r \in Clients} : q \in Scenarios}

First == <<None, 0>>
Executions == {First} \cup (Clients \X (1..MaxAttempts))

ASSUME ScenariosAssumption ==
  \A q \in Requests :
    /\ q.kind \in Kinds
    /\ q.by \in FirstUsers \cup {None}
    /\ q.by = None => q.kind = "register"
    /\ q.kind \in {"verify", "audit"} => q.value \in Verdicts
    /\ q.kind = "verify" => q.on \in Nat
    /\ q.kind = "report" => q.on \in {q.by, None} /\ q.value \in {"pass", "fail", "blocked"}
    /\ q.kind = "register" => q.on \in Logins /\ q.value \in {"enrolled", None}

ASSUME DomainAssumption ==
  /\ FirstUsers \subseteq Logins
  /\ None \notin Logins \cup Clients \cup Verdicts
  /\ AuthRequired \in BOOLEAN
  /\ LastN \in Nat \ {0} /\ MaxAttempts \in Nat \ {0} /\ MaxCrashes \in Nat

VARIABLES
  users,       \* each login's user: "none", "active" or "inactive"
  executions,  \* committed executions
  claims,      \* committed claims
  verdicts,    \* claim_verifications
  sequence,    \* the last id given to one of them
  blobs,       \* keys in the object store
  artifacts,   \* execution_artifacts
  reports,     \* audit_reports: how many
  clock,       \* history: how many transactions have committed
  pc, req,     \* each request's place, and its body
  began,       \* the clock when the call began, and what created_at goes by
  target,      \* the claim it is about to verify
  todo,        \* the claims an auditor has still to verify
  left,        \* the executions a reader has still to show
  mine,        \* the verdict it has flushed
  shown,       \* what a reader has gathered
  prior,       \* the runs whose reasoning it shows
  green,       \* the passing run it shows
  crashes, attempts

db == <<users, executions, claims, verdicts, sequence, blobs, artifacts, reports, clock>>
session == <<began, target, todo, left, mine, shown, prior, green>>
client == <<req, crashes, attempts>>
vars == <<users, executions, claims, verdicts, sequence, blobs, artifacts, reports, clock,
          pc, req, began, target, todo, left, mine, shown, prior, green, crashes, attempts>>

\* by is the tester; ended is history: the clock when the row was committed.
Execution == [id: Executions, by: Logins \cup {None}, status: {"pass", "fail", "blocked"},
              created: Nat, ended: Nat]
Claim == [id: Nat, execution: Executions, by: Logins \cup {None}]
Verdict == [id: Nat, claim: Nat, auditor: Logins, verdict: Verdicts,
            began: Nat, ended: Nat]
Artifact == [execution: Executions, key: Executions, ended: Nat]
Sight == [execution: Execution, claims: SUBSET Claim, artifacts: SUBSET Executions]

Working == {"find", "write", "look", "put", "flush", "commit", "queue", "next", "read",
            "each", "green", "reply"}
Final == {"done", "rejected", "failed"}

-----------------------------------------------------------------------------
(***************************************************************************)
(* Operators                                                               *)
(***************************************************************************)

\* What this attempt of r is called, in an execution's id and a blob's key: an upload
\* never reuses a key (storage.build_key).
Mine(r) == <<r, attempts[r]>>

\* user_from_api_key
Recognised(u) == users[u] = "active"

\* _check_enrollment: who registers has no user yet, but the operator's secret.
Enrolled(r) == req[r].value = "enrolled"

\* _require_agent and get_current_user: register_agent alone needs no user.
Authenticated(r) ==
  \/ ~ AuthRequired
  \/ IF req[r].kind = "register" THEN Enrolled(r) ELSE Recognised(req[r].by)

Entry == [register |-> "find", deactivate |-> "write", report |-> "write", upload |-> "look",
          verify |-> "look", audit |-> "queue", assess |-> "write", bundle |-> "read",
          context |-> "read"]

VerdictsOn(c) == {v \in verdicts : v.claim = c}

\* list_unverified_claims
Unverified == {c.id : c \in {d \in claims : VerdictsOn(d.id) = {}}}

\* Mutant: the rows are not read newest first.
Latest_First(c) == CHOOSE v \in VerdictsOn(c) : \A w \in VerdictsOn(c) : v.id <= w.id

\* The verdict list_claims shows of a claim that has one.
Latest(c) == CHOOSE v \in VerdictsOn(c) : \A w \in VerdictsOn(c) : w.id <= v.id

\* Mutant: a claim nobody is named for counts as everyone's.
OwnClaim_OrNobodys(r, c) ==
  \E d \in claims : d.id = c /\ d.by \in {req[r].by, None}

\* The auditor filed the claim itself.
OwnClaim(r, c) == \E d \in claims : d.id = c /\ d.by = req[r].by

\* The newest n of a set of executions, whichever order created_at leaves open.
Newest(n, S) ==
  {T \in SUBSET S : /\ Cardinality(T) = IF Cardinality(S) < n THEN Cardinality(S) ELSE n
                    /\ \A x \in T, y \in S \ T : y.created <= x.created}

\* record_claims_and_reasoning: two claims, in the order of their ids.  The reasoning is
\* part of the execution here, and its embedding, which may fail, is left out.
Filed(r) == {[id |-> Cardinality(claims) + n, execution |-> Mine(r), by |-> req[r].on] :
               n \in {1, 2}}

Failing == {x \in executions : x.status \in {"fail", "blocked"}}
Passing == {x \in executions : x.status = "pass"}

\* list_artifacts
ArtifactsOf(x) == {a.key : a \in {b \in artifacts : b.execution = x.id}}

Goto(r, place) == pc' = [pc EXCEPT ![r] = place]

\* The end of r's call: an error, an answer, or the death of the server.  What a reader
\* was shown stays known to the history.
Close(r) ==
  /\ target' = [target EXCEPT ![r] = None]
  /\ todo' = [todo EXCEPT ![r] = {}]
  /\ left' = [left EXCEPT ![r] = {}]
  /\ mine' = [mine EXCEPT ![r] = {}]
  /\ UNCHANGED <<began, shown, prior, green>>

End(r, place) == Close(r) /\ Goto(r, place) /\ UNCHANGED client

-----------------------------------------------------------------------------
(***************************************************************************)
(* The start of every call                                                 *)
(***************************************************************************)

Begin(r) ==
  /\ pc[r] = "idle"
  /\ attempts' = IF req[r].kind = "audit" THEN attempts ELSE [attempts EXCEPT ![r] = @ + 1]
  /\ began' = [began EXCEPT ![r] = clock]
  /\ target' = [target EXCEPT ![r] = IF req[r].kind = "verify" THEN req[r].on ELSE None]
  /\ shown' = [shown EXCEPT ![r] = {}]
  /\ prior' = [prior EXCEPT ![r] = {}]
  /\ green' = [green EXCEPT ![r] = {}]
  /\ Goto(r, IF Authenticated(r) THEN Entry[req[r].kind] ELSE "rejected")
  /\ UNCHANGED <<db, todo, left, mine, req, crashes>>

-----------------------------------------------------------------------------
(***************************************************************************)
(* Identities                                                              *)
(***************************************************************************)

\* register_agent looks for the login ...
FindLogin(r) ==
  /\ pc[r] = "find"
  /\ IF users[req[r].on] # "none" THEN End(r, "rejected")
                                  ELSE Goto(r, "write") /\ UNCHANGED <<session, client>>
  /\ UNCHANGED db

\* ... and inserts the user.
InsertUser(r) ==
  /\ pc[r] = "write" /\ req[r].kind = "register" /\ users[req[r].on] = "none"
  /\ users' = [users EXCEPT ![req[r].on] = "active"]
  /\ clock' = clock + 1
  /\ End(r, "reply")
  /\ UNCHANGED <<executions, claims, verdicts, sequence, blobs, artifacts, reports>>

\* Another request has inserted one since: IntegrityError, a 500.
LoseLogin(r) ==
  /\ pc[r] = "write" /\ req[r].kind = "register" /\ users[req[r].on] # "none"
  /\ End(r, "failed")
  /\ UNCHANGED db

\* deactivate_user; its work stays.
Deactivate(r) ==
  /\ pc[r] = "write" /\ req[r].kind = "deactivate"
  /\ IF req[r].on \in Logins /\ users[req[r].on] # "none"
       THEN /\ users' = [users EXCEPT ![req[r].on] = "inactive"]
            /\ clock' = clock + 1
            /\ End(r, "reply")
       ELSE UNCHANGED <<users, clock>> /\ End(r, "rejected")
  /\ UNCHANGED <<executions, claims, verdicts, sequence, blobs, artifacts, reports>>

-----------------------------------------------------------------------------
(***************************************************************************)
(* Results and artifacts                                                   *)
(***************************************************************************)

\* record_execution with two claims: the execution and its claims in one commit, and the
\* claimant is the run's tester.
CommitReport(r) ==
  /\ pc[r] = "write" /\ req[r].kind = "report"
  /\ executions' = executions \cup
       {[id |-> Mine(r), by |-> req[r].on, status |-> req[r].value,
         created |-> began[r], ended |-> clock + 1]}
  /\ claims' = claims \cup Filed(r)
  /\ clock' = clock + 1
  /\ End(r, "reply")
  /\ UNCHANGED <<users, verdicts, sequence, blobs, artifacts, reports>>

\* upload_artifact: the execution must exist.
FindExecution(r) ==
  /\ pc[r] = "look" /\ req[r].kind = "upload"
  /\ IF \E x \in executions : x.id = req[r].on
       THEN Goto(r, "put") /\ UNCHANGED <<session, client>> ELSE End(r, "rejected")
  /\ UNCHANGED db

\* The blob is stored, under a key of its own ...
PutBlob(r) ==
  /\ pc[r] = "put"
  /\ blobs' = blobs \cup {Mine(r)}
  /\ Goto(r, "commit")
  /\ UNCHANGED <<users, executions, claims, verdicts, sequence, artifacts, reports, clock,
                 session, client>>

\* Mutant: the failure is swallowed, as that of an embedding is.
PutFails_Swallowed(r) ==
  /\ pc[r] = "put"
  /\ Goto(r, "commit")
  /\ UNCHANGED <<db, session, client>>

\* ... or the store fails, and the call with it.
PutFails(r) ==
  /\ pc[r] = "put"
  /\ End(r, "failed")
  /\ UNCHANGED db

CommitArtifact(r) ==
  /\ pc[r] = "commit" /\ req[r].kind = "upload"
  /\ artifacts' = artifacts \cup {[execution |-> req[r].on, key |-> Mine(r),
                                   ended |-> clock + 1]}
  /\ clock' = clock + 1
  /\ End(r, "reply")
  /\ UNCHANGED <<users, executions, claims, verdicts, sequence, blobs, reports>>

-----------------------------------------------------------------------------
(***************************************************************************)
(* Audits                                                                  *)
(***************************************************************************)

\* list_unverified_claims, for an auditor that goes through all of them, top down.
ReadQueue(r) ==
  /\ pc[r] = "queue"
  /\ todo' = [todo EXCEPT ![r] = Unverified]
  /\ Goto(r, "next")
  /\ UNCHANGED <<db, began, target, left, mine, shown, prior, green, client>>

\* The next of its list: a call of its own, with who calls looked up anew.
NextClaim(r) ==
  /\ pc[r] = "next"
  /\ IF todo[r] = {} \/ ~ Authenticated(r)
       THEN /\ End(r, IF Authenticated(r) THEN "idle" ELSE "rejected")
       ELSE /\ \E c \in todo[r] :
                 /\ \A d \in todo[r] : c <= d
                 /\ target' = [target EXCEPT ![r] = c]
                 /\ todo' = [todo EXCEPT ![r] = @ \ {c}]
            /\ began' = [began EXCEPT ![r] = clock]
            /\ Goto(r, "look")
            /\ UNCHANGED <<left, mine, shown, prior, green, client>>
  /\ UNCHANGED db

\* A verification is over: the auditor takes its next claim.
Verified(r, place) ==
  IF req[r].kind = "audit"
    THEN /\ target' = [target EXCEPT ![r] = None]
         /\ mine' = [mine EXCEPT ![r] = {}]
         /\ Goto(r, "next")
         /\ UNCHANGED <<began, todo, left, shown, prior, green, client>>
    ELSE End(r, place)

\* Mutant: the claim is not looked up.
FindClaim_NoLookup(r) ==
  /\ pc[r] = "look" /\ req[r].kind \in {"verify", "audit"}
  /\ IF OwnClaim(r, target[r])
       THEN Verified(r, "rejected")
       ELSE Goto(r, "flush") /\ UNCHANGED <<session, client>>
  /\ UNCHANGED db

\* verify_claim: the claim must exist, and not be the auditor's.
FindClaim(r) ==
  /\ pc[r] = "look" /\ req[r].kind \in {"verify", "audit"}
  /\ IF OwnClaim(r, target[r]) \/ ~ \E c \in claims : c.id = target[r]
       THEN Verified(r, "rejected")
       ELSE Goto(r, "flush") /\ UNCHANGED <<session, client>>
  /\ UNCHANGED db

\* The row gets its id when it is flushed ...
FlushVerdict(r) ==
  /\ pc[r] = "flush"
  /\ sequence' = sequence + 1
  /\ mine' = [mine EXCEPT ![r] = {[id |-> sequence + 1, claim |-> target[r],
                auditor |-> req[r].by, verdict |-> req[r].value,
                began |-> began[r], ended |-> 0]}]
  /\ Goto(r, "commit")
  /\ UNCHANGED <<users, executions, claims, verdicts, blobs, artifacts, reports, clock,
                 began, target, todo, left, shown, prior, green, client>>

\* ... and is seen when it is committed.
CommitVerdict(r) ==
  /\ pc[r] = "commit" /\ req[r].kind # "upload"
  /\ verdicts' = verdicts \cup {[v EXCEPT !.ended = clock + 1] : v \in mine[r]}
  /\ clock' = clock + 1
  /\ Verified(r, "reply")
  /\ UNCHANGED <<users, executions, claims, sequence, blobs, artifacts, reports>>

\* create_audit_report: a row of its own, whatever it is about.
Assess(r) ==
  /\ pc[r] = "write" /\ req[r].kind = "assess"
  /\ reports' = reports + 1
  /\ clock' = clock + 1
  /\ End(r, "reply")
  /\ UNCHANGED <<users, executions, claims, verdicts, sequence, blobs, artifacts>>

-----------------------------------------------------------------------------
(***************************************************************************)
(* get_execution_evidence and get_failure_context                          *)
(***************************************************************************)

\* The case's executions: all of them, or the newest failures.
ReadExecutions(r) ==
  /\ pc[r] = "read"
  /\ \E S \in IF req[r].kind = "bundle" THEN {executions} ELSE Newest(LastN, Failing) :
       left' = [left EXCEPT ![r] = S]
  /\ Goto(r, "each")
  /\ UNCHANGED <<db, began, target, todo, mine, shown, prior, green, client>>

\* The artifacts of one of them, and in a bundle its claims: two statements, but claims
\* never change once they can be seen.
ReadEvidence(r) ==
  /\ pc[r] = "each"
  /\ \E x \in left[r] :
       /\ left' = [left EXCEPT ![r] = @ \ {x}]
       /\ shown' = [shown EXCEPT ![r] = @ \cup {
            [execution |-> x,
             claims |-> {c \in claims : c.execution = x.id /\ req[r].kind = "bundle"},
             artifacts |-> ArtifactsOf(x)]}]
  /\ UNCHANGED <<db, pc, began, target, todo, mine, prior, green, client>>

\* A bundle is complete.  A context goes on with the reasoning of the newest runs, whatever
\* came out of them.  (The code skips those without one: here every report has one.)
ReadReasoning(r) ==
  /\ pc[r] = "each" /\ left[r] = {}
  /\ \E S \in IF req[r].kind = "bundle" THEN {{}} ELSE Newest(LastN, executions) :
       prior' = [prior EXCEPT ![r] = S]
  /\ Goto(r, IF req[r].kind = "bundle" THEN "reply" ELSE "green")
  /\ UNCHANGED <<db, began, target, todo, left, mine, shown, green, client>>

\* The newest passing run, apart from the others so that they cannot bury it.
ReadGreen(r) ==
  /\ pc[r] = "green"
  /\ \E S \in Newest(1, Passing) : green' = [green EXCEPT ![r] = S]
  /\ Goto(r, "reply")
  /\ UNCHANGED <<db, began, target, todo, left, mine, shown, prior, client>>

-----------------------------------------------------------------------------
(***************************************************************************)
(* The client                                                              *)
(***************************************************************************)

Reply(r) ==
  /\ pc[r] = "reply"
  /\ Goto(r, "done")
  /\ UNCHANGED <<db, session, client>>

\* An auditor that dies is replaced by one that starts over.
Crash(r) ==
  /\ pc[r] \in Working
  /\ crashes < MaxCrashes /\ crashes' = crashes + 1
  /\ Close(r)
  /\ Goto(r, IF req[r].kind = "audit" THEN "idle" ELSE "failed")
  /\ UNCHANGED <<db, req, attempts>>

\* A client that saw an error may send the same request again.
Retry(r) ==
  /\ pc[r] = "failed" /\ attempts[r] < MaxAttempts
  /\ Goto(r, "idle")
  /\ UNCHANGED <<db, session, client>>

-----------------------------------------------------------------------------
\* One failed run, with claims of a registered user.
Init ==
  /\ users = [u \in Logins |-> IF u \in FirstUsers THEN "active" ELSE "none"]
  /\ \E u \in FirstUsers :
       /\ executions = {[id |-> First, by |-> u, status |-> "fail", created |-> 0, ended |-> 0]}
       /\ claims = {[id |-> n, execution |-> First, by |-> u] : n \in {1, 2}}
  /\ verdicts = {} /\ sequence = 0
  /\ blobs = {} /\ artifacts = {} /\ reports = 0
  /\ clock = 0
  /\ pc = [r \in Clients |-> "idle"]
  /\ req \in Scenarios
  /\ began = [r \in Clients |-> 0]
  /\ target = [r \in Clients |-> None]
  /\ todo = [r \in Clients |-> {}]
  /\ left = [r \in Clients |-> {}]
  /\ mine = [r \in Clients |-> {}]
  /\ shown = [r \in Clients |-> {}]
  /\ prior = [r \in Clients |-> {}]
  /\ green = [r \in Clients |-> {}]
  /\ crashes = 0
  /\ attempts = [r \in Clients |-> 0]

Identify(r) == FindLogin(r) \/ InsertUser(r) \/ LoseLogin(r) \/ Deactivate(r)

File(r) == CommitReport(r) \/ FindExecution(r) \/ PutBlob(r) \/ PutFails(r) \/ CommitArtifact(r)

Audit(r) == \/ ReadQueue(r) \/ NextClaim(r) \/ FindClaim(r) \/ FlushVerdict(r)
            \/ CommitVerdict(r) \/ Assess(r)

Show(r) == ReadExecutions(r) \/ ReadEvidence(r) \/ ReadReasoning(r) \/ ReadGreen(r)

Handle(r) == Begin(r) \/ Identify(r) \/ File(r) \/ Audit(r) \/ Show(r) \/ Reply(r)

Next == \E r \in Clients : Handle(r) \/ Crash(r) \/ Retry(r)

Spec == Init /\ [][Next]_vars

\* The server runs what it has accepted, and auditors keep working through the list.
FairSpec == Spec /\ \A r \in Clients : WF_vars(Handle(r))

-----------------------------------------------------------------------------
(***************************************************************************)
(* Properties                                                              *)
(***************************************************************************)

TypeOK ==
  /\ users \in [Logins -> {"none", "active", "inactive"}]
  /\ executions \subseteq Execution
  /\ claims \subseteq Claim
  /\ verdicts \subseteq Verdict /\ \A v \in verdicts : \E c \in claims : c.id = v.claim
  /\ sequence \in Nat /\ reports \in Nat /\ clock \in Nat
  /\ blobs \subseteq Executions
  /\ artifacts \subseteq Artifact
  /\ pc \in [Clients -> {"idle"} \cup Working \cup Final]
  /\ req \in Scenarios
  /\ began \in [Clients -> Nat]
  /\ target \in [Clients -> Nat \cup {None}]
  /\ todo \in [Clients -> SUBSET Nat]
  /\ left \in [Clients -> SUBSET Execution]
  /\ mine \in [Clients -> SUBSET Verdict]
  /\ shown \in [Clients -> SUBSET Sight]
  /\ prior \in [Clients -> SUBSET Execution]
  /\ green \in [Clients -> SUBSET Execution]
  /\ crashes \in 0..MaxCrashes
  /\ attempts \in [Clients -> 0..MaxAttempts]

\* Verifying again overrides: the board never shows a verdict of a claim that was there
\* before another one's call began (list_claims goes by ids, which are given out before
\* the commit).
VerdictsAreInOrder ==
  \A v \in verdicts : ~ Latest(v.claim).ended <= v.began

\* A bundle or a context that was answered shows what was there when it was asked for.
AnswersAreFresh ==
  \A r \in Clients : pc[r] \in {"reply", "done"} =>
    /\ req[r].kind = "bundle" =>
         \A x \in executions : x.ended <= began[r] => \E s \in shown[r] : s.execution = x
    /\ req[r].kind = "context" =>
         /\ \A x \in Failing : x.ended <= began[r] =>
              \/ \E s \in shown[r] : s.execution = x
              \/ /\ Cardinality({s.execution : s \in shown[r]}) = LastN
                 /\ \A s \in shown[r] : s.execution.created >= x.created
         /\ \A x \in executions : x.ended <= began[r] =>
              \/ x \in prior[r]
              \/ Cardinality(prior[r]) = LastN /\ \A y \in prior[r] : y.created >= x.created
         /\ \A x \in Passing : x.ended <= began[r] =>
              \E y \in green[r] : y.created >= x.created

\* Whatever a reader is shown of a run is whole: in a bundle all the claims filed with it,
\* every artifact there was when the call began, and for each artifact a stored blob.
EvidenceIsWhole ==
  /\ \A a \in artifacts : a.key \in blobs
  /\ \A r \in Clients : \A s \in shown[r] :
       /\ req[r].kind = "bundle" => s.claims = {c \in claims : c.execution = s.execution.id}
       /\ s.artifacts \subseteq blobs
       /\ \A a \in artifacts : a.execution = s.execution.id /\ a.ended <= began[r]
            => a.key \in s.artifacts
  /\ AnswersAreFresh

\* The auditors that are still working.
Auditors == {r \in Clients : req[r].kind = "audit" /\ pc[r] # "rejected"}

\* No claim waits for ever: each one is verified, as long as somebody audits who did not
\* file it himself, whatever crashes, and however many auditors take the same claim.
ClaimsGetAudited ==
  <>[](\A c \in claims : VerdictsOn(c.id) = {} => \A r \in Auditors : req[r].by = c.by)

=============================================================================
