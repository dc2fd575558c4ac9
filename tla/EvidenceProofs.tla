--------------------------- MODULE EvidenceProofs ---------------------------
(***************************************************************************)
(* Proofs about Evidence: type correctness, the order of verdicts, and     *)
(* that what readers are shown is whole, for any logins, clients, requests *)
(* and bounds.                                                             *)
(*                                                                         *)
(* The properties speak of committed rows and finished answers; the        *)
(* invariant speaks of the requests in flight: which rows the one before   *)
(* its commit rests on, and that ids and commit times grow with the clock. *)
(***************************************************************************)
EXTENDS Evidence, FiniteSetTheorems, WellFoundedInduction, TLAPS

\* The places of the handler of each kind of request.
PlacesOf ==
  [register |-> {"find", "write"}, deactivate |-> {"write"}, report |-> {"write"},
   upload |-> {"look", "put", "commit"}, verify |-> {"look", "flush", "commit"},
   audit |-> {"queue", "next", "look", "flush", "commit"}, assess |-> {"write"},
   bundle |-> {"read", "each"}, context |-> {"read", "each", "green"}]

\* A request is at a place of its own handler.
InPlace == \A r \in Clients : pc[r] \in {"idle", "reply"} \cup Final \cup PlacesOf[req[r].kind]

\* A client about to send has an attempt left, one that has sent has used one.
Attempted ==
  \A r \in Clients : req[r].kind # "audit" =>
    IF pc[r] = "idle" THEN attempts[r] < MaxAttempts ELSE attempts[r] \in 1..MaxAttempts

\* What was looked up is there: no row is ever deleted.
LookedUp ==
  \A r \in Clients :
    /\ req[r].kind = "upload" /\ pc[r] \in {"put", "commit"}
         => \E x \in executions : x.id = req[r].on
    /\ pc[r] = "flush" => \E c \in claims : c.id = target[r]
    /\ \A v \in mine[r] : \E c \in claims : c.id = v.claim

TypeInv == TypeOK /\ IsFiniteSet(claims) /\ InPlace /\ Attempted /\ LookedUp

-----------------------------------------------------------------------------
(***************************************************************************)
(* Type correctness                                                        *)
(***************************************************************************)

\* What the assumptions say of the request of a client.
LEMMA RequestFacts ==
  ASSUME TypeOK, NEW r \in Clients
  PROVE  /\ req[r].kind \in Kinds
         /\ req[r].kind # "register" => req[r].by \in FirstUsers
         /\ req[r].kind \in {"verify", "audit"} => req[r].value \in Verdicts
         /\ req[r].kind = "verify" => req[r].on \in Nat
         /\ req[r].kind = "report" => /\ req[r].on \in {req[r].by, None}
                                      /\ req[r].value \in {"pass", "fail", "blocked"}
         /\ req[r].kind = "register" => req[r].on \in Logins
<1>1. req[r] \in Requests
  BY DEF TypeOK, Requests
<1> QED  BY <1>1, ScenariosAssumption

LEMMA TypeInit == Init => TypeInv
<1> SUFFICES ASSUME Init PROVE TypeInv
  OBVIOUS
<1>1. PICK u \in FirstUsers :
        /\ executions = {[id |-> First, by |-> u, status |-> "fail", created |-> 0, ended |-> 0]}
        /\ claims = {[id |-> n, execution |-> First, by |-> u] : n \in {1, 2}}
  BY DEF Init
<1>2. executions \subseteq Execution
  BY <1>1, DomainAssumption DEF Execution, Executions
<1>3. claims \subseteq Claim
  BY <1>1, DomainAssumption DEF Claim, Executions
<1>4. IsFiniteSet(claims)
  <2> DEFINE one == [id |-> 1, execution |-> First, by |-> u]
             two == [id |-> 2, execution |-> First, by |-> u]
  <2>1. IsFiniteSet({one} \cup {two})
    BY FS_Singleton, FS_AddElement
  <2>2. claims = {one} \cup {two}
    BY <1>1
  <2> QED  BY <2>1, <2>2
<1>5. TypeOK
  BY <1>2, <1>3, DomainAssumption DEF Init, TypeOK
<1> QED  BY <1>4, <1>5, DomainAssumption DEF Init, TypeInv, InPlace, Attempted, LookedUp

\* The claims of a report: two new ones, whose ids are numbers.
LEMMA FiledFacts ==
  ASSUME TypeInv, NEW r \in Clients, Mine(r) \in Executions, req[r].kind = "report"
  PROVE  Filed(r) \subseteq Claim /\ IsFiniteSet(claims \cup Filed(r))
<1>1. Cardinality(claims) \in Nat
  BY FS_CardinalityType DEF TypeInv
<1>2. req[r].on \in Logins \cup {None}
  BY RequestFacts, DomainAssumption DEF TypeInv
<1>3. Filed(r) \subseteq Claim
  BY <1>1, <1>2 DEF Filed, Claim
<1>4. IsFiniteSet(Filed(r))
  <2> DEFINE Row(n) == [id |-> Cardinality(claims) + n, execution |-> Mine(r), by |-> req[r].on]
  <2>1. IsFiniteSet({Row(1)} \cup {Row(2)})
    BY FS_Singleton, FS_AddElement
  <2>2. Filed(r) = {Row(1)} \cup {Row(2)}
    BY DEF Filed
  <2> QED  BY <2>1, <2>2
<1> QED  BY <1>3, <1>4, FS_Union DEF TypeInv

\* An attempt of a client that is not an auditor names an execution.
LEMMA MineIsExecution ==
  ASSUME TypeInv, NEW r \in Clients, req[r].kind # "audit", pc[r] # "idle"
  PROVE  Mine(r) \in Executions
BY DomainAssumption DEF TypeInv, Attempted, Mine, Executions

LEMMA TypeNext ==
  ASSUME TypeInv, [Next]_vars
  PROVE  TypeInv'
<1> USE DEF Goto, db, session, client
<1>1. CASE UNCHANGED vars
  BY <1>1 DEF vars, TypeInv, TypeOK, InPlace, Attempted, LookedUp
<1>2. ASSUME NEW r \in Clients, Begin(r) PROVE TypeInv'
  <2>1. req[r].kind \in Kinds /\ (req[r].kind = "verify" => req[r].on \in Nat)
    BY RequestFacts DEF TypeInv
  <2>2. TypeOK'
    BY <1>2, <2>1, DomainAssumption DEF Begin, TypeInv, TypeOK, Entry, Kinds, Working, Final,
       Attempted
  <2>3. InPlace'
    BY <1>2, <2>1 DEF Begin, TypeInv, TypeOK, InPlace, PlacesOf, Entry, Kinds, Final
  <2>4. Attempted' /\ LookedUp'
    BY <1>2, <2>1, DomainAssumption DEF Begin, TypeInv, TypeOK, Entry, Kinds, Attempted, LookedUp
  <2> QED  BY <1>2, <2>2, <2>3, <2>4 DEF Begin, TypeInv
<1>3. ASSUME NEW r \in Clients, FindLogin(r) PROVE TypeInv'
  <2> USE DEF FindLogin, Close, End
  <2>0. req[r].kind \in Kinds /\ (req[r].kind # "register" => req[r].by \in Logins)
    BY RequestFacts, DomainAssumption DEF TypeInv
  <2>1. TypeOK'
    BY <1>3, <2>0, DomainAssumption DEF TypeInv, TypeOK, InPlace, PlacesOf, Working, Final, Kinds
  <2>2. InPlace'
    BY <1>3, <2>0 DEF TypeInv, TypeOK, InPlace, PlacesOf, Final, Kinds
  <2>3. Attempted'
    BY <1>3, <2>0 DEF TypeInv, TypeOK, InPlace, PlacesOf, Kinds, Attempted
  <2>4. LookedUp'
    BY <1>3, <2>0 DEF TypeInv, TypeOK, InPlace, PlacesOf, Kinds, LookedUp
  <2> QED  BY <1>3, <2>1, <2>2, <2>3, <2>4 DEF TypeInv
<1>4. ASSUME NEW r \in Clients, InsertUser(r) PROVE TypeInv'
  <2> USE DEF InsertUser, Close, End
  <2>0. req[r].kind \in Kinds /\ (req[r].kind # "register" => req[r].by \in Logins)
    BY RequestFacts, DomainAssumption DEF TypeInv
  <2>1. TypeOK'
    BY <1>4, <2>0, RequestFacts, DomainAssumption DEF TypeInv, TypeOK, InPlace, PlacesOf,
       Working, Final, Kinds
  <2>2. InPlace'
    BY <1>4, <2>0 DEF TypeInv, TypeOK, InPlace, PlacesOf, Final, Kinds
  <2>3. Attempted'
    BY <1>4, <2>0 DEF TypeInv, TypeOK, InPlace, PlacesOf, Kinds, Attempted
  <2>4. LookedUp'
    BY <1>4, <2>0 DEF TypeInv, TypeOK, InPlace, PlacesOf, Kinds, LookedUp
  <2> QED  BY <1>4, <2>1, <2>2, <2>3, <2>4 DEF TypeInv
<1>5. ASSUME NEW r \in Clients, LoseLogin(r) PROVE TypeInv'
  <2> USE DEF LoseLogin, Close, End
  <2>0. req[r].kind \in Kinds /\ (req[r].kind # "register" => req[r].by \in Logins)
    BY RequestFacts, DomainAssumption DEF TypeInv
  <2>1. TypeOK'
    BY <1>5, <2>0, DomainAssumption DEF TypeInv, TypeOK, InPlace, PlacesOf, Working, Final, Kinds
  <2>2. InPlace'
    BY <1>5, <2>0 DEF TypeInv, TypeOK, InPlace, PlacesOf, Final, Kinds
  <2>3. Attempted'
    BY <1>5, <2>0 DEF TypeInv, TypeOK, InPlace, PlacesOf, Kinds, Attempted
  <2>4. LookedUp'
    BY <1>5, <2>0 DEF TypeInv, TypeOK, InPlace, PlacesOf, Kinds, LookedUp
  <2> QED  BY <1>5, <2>1, <2>2, <2>3, <2>4 DEF TypeInv
<1>6. ASSUME NEW r \in Clients, Deactivate(r) PROVE TypeInv'
  <2> USE DEF Deactivate, Close, End
  <2>0. req[r].kind \in Kinds /\ (req[r].kind # "register" => req[r].by \in Logins)
    BY RequestFacts, DomainAssumption DEF TypeInv
  <2>1. TypeOK'
    BY SMTT(20), <1>6, <2>0, DomainAssumption DEF TypeInv, TypeOK, InPlace, PlacesOf, Working,
       Final, Kinds
  <2>2. InPlace'
    BY <1>6, <2>0 DEF TypeInv, TypeOK, InPlace, PlacesOf, Final, Kinds
  <2>3. Attempted'
    BY <1>6, <2>0 DEF TypeInv, TypeOK, InPlace, PlacesOf, Kinds, Attempted
  <2>4. LookedUp'
    BY <1>6, <2>0 DEF TypeInv, TypeOK, InPlace, PlacesOf, Kinds, LookedUp
  <2> QED  BY <1>6, <2>1, <2>2, <2>3, <2>4 DEF TypeInv
<1>7. ASSUME NEW r \in Clients, CommitReport(r) PROVE TypeInv'
  <2> USE DEF CommitReport, Close, End
  <2>0. req[r].kind \in Kinds /\ (req[r].kind # "register" => req[r].by \in Logins)
    BY RequestFacts, DomainAssumption DEF TypeInv
  <2>a. Mine(r) \in Executions
    BY <1>7, MineIsExecution
  <2>b. Filed(r) \subseteq Claim /\ IsFiniteSet(claims')
    BY <1>7, <2>a, FiledFacts
  <2>c. req[r].on \in Logins \cup {None} /\ req[r].value \in {"pass", "fail", "blocked"}
    BY <1>7, RequestFacts, DomainAssumption DEF TypeInv
  <2>d. executions' \subseteq Execution
    BY <1>7, <2>a, <2>c DEF TypeInv, TypeOK, Execution
  <2>e. claims' \subseteq Claim /\ claims \subseteq claims'
    BY <1>7, <2>b DEF TypeInv, TypeOK
  <2>1. TypeOK'
    BY <1>7, <2>0, <2>d, <2>e, DomainAssumption DEF TypeInv, TypeOK, InPlace, PlacesOf, Working,
       Final, Kinds
  <2>2. InPlace'
    BY <1>7, <2>0 DEF TypeInv, TypeOK, InPlace, PlacesOf, Final, Kinds
  <2>3. Attempted'
    BY <1>7, <2>0 DEF TypeInv, TypeOK, InPlace, PlacesOf, Kinds, Attempted
  <2>4. LookedUp'
    BY <1>7, <2>0 DEF TypeInv, TypeOK, InPlace, PlacesOf, Kinds, LookedUp
  <2> QED  BY <1>7, <2>b, <2>1, <2>2, <2>3, <2>4 DEF TypeInv
<1>8. ASSUME NEW r \in Clients, FindExecution(r) PROVE TypeInv'
  <2> USE DEF FindExecution, Close, End
  <2>0. req[r].kind \in Kinds /\ (req[r].kind # "register" => req[r].by \in Logins)
    BY RequestFacts, DomainAssumption DEF TypeInv
  <2>1. TypeOK'
    BY SMTT(20), <1>8, <2>0, DomainAssumption DEF TypeInv, TypeOK, InPlace, PlacesOf, Working,
       Final, Kinds
  <2>2. InPlace'
    BY <1>8, <2>0 DEF TypeInv, TypeOK, InPlace, PlacesOf, Final, Kinds
  <2>3. Attempted'
    BY <1>8, <2>0 DEF TypeInv, TypeOK, InPlace, PlacesOf, Kinds, Attempted
  <2>4. LookedUp'
    BY <1>8, <2>0 DEF TypeInv, TypeOK, InPlace, PlacesOf, Kinds, LookedUp
  <2> QED  BY <1>8, <2>1, <2>2, <2>3, <2>4 DEF TypeInv
<1>9. ASSUME NEW r \in Clients, PutBlob(r) PROVE TypeInv'
  <2> USE DEF PutBlob, Close, End
  <2>0. req[r].kind \in Kinds /\ (req[r].kind # "register" => req[r].by \in Logins)
    BY RequestFacts, DomainAssumption DEF TypeInv
  <2>a. req[r].kind = "upload"
    BY <1>9, <2>0 DEF TypeInv, InPlace, PlacesOf, Kinds, Final
  <2>b. Mine(r) \in Executions
    BY <1>9, <2>a, MineIsExecution
  <2>1. TypeOK'
    BY <1>9, <2>0, <2>b, DomainAssumption DEF TypeInv, TypeOK, InPlace, PlacesOf, Working,
       Final, Kinds
  <2>2. InPlace'
    BY <1>9, <2>0 DEF TypeInv, TypeOK, InPlace, PlacesOf, Final, Kinds
  <2>3. Attempted'
    BY <1>9, <2>0 DEF TypeInv, TypeOK, InPlace, PlacesOf, Kinds, Attempted
  <2>4. LookedUp'
    BY <1>9, <2>0 DEF TypeInv, TypeOK, InPlace, PlacesOf, Kinds, LookedUp
  <2> QED  BY <1>9, <2>1, <2>2, <2>3, <2>4 DEF TypeInv
<1>10. ASSUME NEW r \in Clients, PutFails(r) PROVE TypeInv'
  <2> USE DEF PutFails, Close, End
  <2>0. req[r].kind \in Kinds /\ (req[r].kind # "register" => req[r].by \in Logins)
    BY RequestFacts, DomainAssumption DEF TypeInv
  <2>1. TypeOK'
    BY <1>10, <2>0, DomainAssumption DEF TypeInv, TypeOK, InPlace, PlacesOf, Working, Final, Kinds
  <2>2. InPlace'
    BY <1>10, <2>0 DEF TypeInv, TypeOK, InPlace, PlacesOf, Final, Kinds
  <2>3. Attempted'
    BY <1>10, <2>0 DEF TypeInv, TypeOK, InPlace, PlacesOf, Kinds, Attempted
  <2>4. LookedUp'
    BY <1>10, <2>0 DEF TypeInv, TypeOK, InPlace, PlacesOf, Kinds, LookedUp
  <2> QED  BY <1>10, <2>1, <2>2, <2>3, <2>4 DEF TypeInv
<1>11. ASSUME NEW r \in Clients, CommitArtifact(r) PROVE TypeInv'
  <2> USE DEF CommitArtifact, Close, End
  <2>0. req[r].kind \in Kinds /\ (req[r].kind # "register" => req[r].by \in Logins)
    BY RequestFacts, DomainAssumption DEF TypeInv
  <2>a. Mine(r) \in Executions
    BY <1>11, MineIsExecution
  <2>b. req[r].on \in Executions
    BY <1>11 DEF TypeInv, TypeOK, LookedUp, Execution
  <2>c. artifacts' \subseteq Artifact
    BY <1>11, <2>a, <2>b DEF TypeInv, TypeOK, Artifact
  <2>1. TypeOK'
    BY <1>11, <2>0, <2>c, DomainAssumption DEF TypeInv, TypeOK, InPlace, PlacesOf, Working,
       Final, Kinds
  <2>2. InPlace'
    BY <1>11, <2>0 DEF TypeInv, TypeOK, InPlace, PlacesOf, Final, Kinds
  <2>3. Attempted'
    BY <1>11, <2>0 DEF TypeInv, TypeOK, InPlace, PlacesOf, Kinds, Attempted
  <2>4. LookedUp'
    BY <1>11, <2>0 DEF TypeInv, TypeOK, InPlace, PlacesOf, Kinds, LookedUp
  <2> QED  BY <1>11, <2>1, <2>2, <2>3, <2>4 DEF TypeInv
<1>12. ASSUME NEW r \in Clients, ReadQueue(r) PROVE TypeInv'
  <2> USE DEF ReadQueue, Close, End
  <2>0. req[r].kind \in Kinds /\ (req[r].kind # "register" => req[r].by \in Logins)
    BY RequestFacts, DomainAssumption DEF TypeInv
  <2>a. Unverified \subseteq Nat
    BY DEF TypeInv, TypeOK, Unverified, Claim
  <2>1. TypeOK'
    BY <1>12, <2>0, <2>a, DomainAssumption DEF TypeInv, TypeOK, InPlace, PlacesOf, Working,
       Final, Kinds
  <2>2. InPlace'
    BY <1>12, <2>0 DEF TypeInv, TypeOK, InPlace, PlacesOf, Final, Kinds
  <2>3. Attempted'
    BY <1>12, <2>0 DEF TypeInv, TypeOK, InPlace, PlacesOf, Kinds, Attempted
  <2>4. LookedUp'
    BY <1>12, <2>0 DEF TypeInv, TypeOK, InPlace, PlacesOf, Kinds, LookedUp
  <2> QED  BY <1>12, <2>1, <2>2, <2>3, <2>4 DEF TypeInv
<1>13. ASSUME NEW r \in Clients, NextClaim(r) PROVE TypeInv'
  <2> USE DEF NextClaim, Close, End
  <2>1. req[r].kind = "audit"
    BY <1>13, RequestFacts DEF TypeInv, InPlace, PlacesOf, Kinds, Final
  <2>2. CASE todo[r] = {} \/ ~ Authenticated(r)
    <3>1. PICK place \in {"idle", "rejected"} : End(r, place) /\ UNCHANGED db
      BY <1>13, <2>2
    <3>2. TypeOK'
      BY <3>1 DEF TypeInv, TypeOK, Final
    <3>3. InPlace' /\ Attempted'
      BY <1>13, <2>1, <3>1 DEF TypeInv, TypeOK, InPlace, Final, Attempted
    <3>4. LookedUp'
      BY <1>13, <3>1 DEF TypeInv, TypeOK, LookedUp
    <3> QED  BY <3>1, <3>2, <3>3, <3>4 DEF TypeInv
  <2>3. CASE ~ (todo[r] = {} \/ ~ Authenticated(r))
    <3>1. PICK c \in todo[r] : /\ target' = [target EXCEPT ![r] = c]
                               /\ todo' = [todo EXCEPT ![r] = @ \ {c}]
      BY <1>13, <2>3
    <3>2. TypeOK'
      BY <1>13, <2>3, <3>1 DEF TypeInv, TypeOK, Working
    <3> QED  BY <1>13, <2>1, <2>3, <3>1, <3>2
             DEF TypeInv, TypeOK, InPlace, PlacesOf, Final, Kinds, Attempted, LookedUp
  <2> QED  BY <2>2, <2>3
<1>14. ASSUME NEW r \in Clients, FindClaim(r) PROVE TypeInv'
  <2> USE DEF FindClaim, Close, End, Verified
  <2>0. req[r].kind \in Kinds /\ (req[r].kind # "register" => req[r].by \in Logins)
    BY RequestFacts, DomainAssumption DEF TypeInv
  <2>1. TypeOK'
    BY <1>14, <2>0, DomainAssumption DEF TypeInv, TypeOK, InPlace, PlacesOf, Working, Final, Kinds
  <2>2. InPlace'
    BY <1>14, <2>0 DEF TypeInv, TypeOK, InPlace, PlacesOf, Final, Kinds
  <2>3. Attempted'
    BY <1>14, <2>0 DEF TypeInv, TypeOK, InPlace, PlacesOf, Kinds, Attempted
  <2>4. LookedUp'
    BY <1>14, <2>0 DEF TypeInv, TypeOK, InPlace, PlacesOf, Kinds, LookedUp
  <2> QED  BY <1>14, <2>1, <2>2, <2>3, <2>4 DEF TypeInv
<1>15. ASSUME NEW r \in Clients, FlushVerdict(r) PROVE TypeInv'
  <2> USE DEF FlushVerdict, Close, End
  <2>0. req[r].kind \in Kinds /\ (req[r].kind # "register" => req[r].by \in Logins)
    BY RequestFacts, DomainAssumption DEF TypeInv
  <2>a. req[r].kind \in {"verify", "audit"} /\ target[r] \in Nat
    <3>1. req[r].kind \in {"verify", "audit"}
      BY <1>15, <2>0 DEF TypeInv, InPlace, PlacesOf, Kinds, Final
    <3>2. \E c \in claims : c.id = target[r]
      BY <1>15 DEF TypeInv, LookedUp
    <3> QED  BY <3>1, <3>2 DEF TypeInv, TypeOK, Claim
  <2>b. mine' \in [Clients -> SUBSET Verdict]
    BY <1>15, <2>0, <2>a, RequestFacts DEF TypeInv, TypeOK, Verdict
  <2>1. TypeOK'
    BY <1>15, <2>0, <2>b, DomainAssumption DEF TypeInv, TypeOK, InPlace, PlacesOf, Working,
       Final, Kinds
  <2>2. InPlace'
    BY <1>15, <2>0 DEF TypeInv, TypeOK, InPlace, PlacesOf, Final, Kinds
  <2>3. Attempted'
    BY <1>15, <2>0 DEF TypeInv, TypeOK, InPlace, PlacesOf, Kinds, Attempted
  <2>4. LookedUp'
    BY <1>15, <2>0 DEF TypeInv, TypeOK, InPlace, PlacesOf, Kinds, Final, LookedUp
  <2> QED  BY <1>15, <2>1, <2>2, <2>3, <2>4 DEF TypeInv
<1>16. ASSUME NEW r \in Clients, CommitVerdict(r) PROVE TypeInv'
  <2> USE DEF CommitVerdict, Close, End, Verified
  <2>0. req[r].kind \in Kinds /\ (req[r].kind # "register" => req[r].by \in Logins)
    BY RequestFacts, DomainAssumption DEF TypeInv
  <2>a. {[v EXCEPT !.ended = clock + 1] : v \in mine[r]} \subseteq Verdict
    BY DEF TypeInv, TypeOK, Verdict
  <2>b. \A v \in verdicts' : \E c \in claims : c.id = v.claim
    <3> SUFFICES ASSUME NEW v \in verdicts', v \notin verdicts
                 PROVE  \E c \in claims : c.id = v.claim
      BY DEF TypeInv, TypeOK
    <3>1. PICK w \in mine[r] : v = [w EXCEPT !.ended = clock + 1]
      BY <1>16
    <3>2. w \in Verdict
      BY DEF TypeInv, TypeOK
    <3>3. v.claim = w.claim
      BY <3>1, <3>2 DEF Verdict
    <3> QED  BY <3>3 DEF TypeInv, LookedUp
  <2>1. TypeOK'
    BY SMTT(30), <1>16, <2>0, <2>a, <2>b, DomainAssumption DEF TypeInv, TypeOK, InPlace, PlacesOf,
       Working, Final, Kinds
  <2>2. InPlace'
    BY <1>16, <2>0 DEF TypeInv, TypeOK, InPlace, PlacesOf, Final, Kinds
  <2>3. Attempted'
    BY <1>16, <2>0 DEF TypeInv, TypeOK, InPlace, PlacesOf, Kinds, Attempted
  <2>4. LookedUp'
    BY <1>16, <2>0 DEF TypeInv, TypeOK, InPlace, PlacesOf, Kinds, LookedUp
  <2> QED  BY <1>16, <2>1, <2>2, <2>3, <2>4 DEF TypeInv
<1>17. ASSUME NEW r \in Clients, Assess(r) PROVE TypeInv'
  <2> USE DEF Assess, Close, End
  <2>0. req[r].kind \in Kinds /\ (req[r].kind # "register" => req[r].by \in Logins)
    BY RequestFacts, DomainAssumption DEF TypeInv
  <2>1. TypeOK'
    BY <1>17, <2>0, DomainAssumption DEF TypeInv, TypeOK, InPlace, PlacesOf, Working, Final, Kinds
  <2>2. InPlace'
    BY <1>17, <2>0 DEF TypeInv, TypeOK, InPlace, PlacesOf, Final, Kinds
  <2>3. Attempted'
    BY <1>17, <2>0 DEF TypeInv, TypeOK, InPlace, PlacesOf, Kinds, Attempted
  <2>4. LookedUp'
    BY <1>17, <2>0 DEF TypeInv, TypeOK, InPlace, PlacesOf, Kinds, LookedUp
  <2> QED  BY <1>17, <2>1, <2>2, <2>3, <2>4 DEF TypeInv
<1>18. ASSUME NEW r \in Clients, ReadExecutions(r) PROVE TypeInv'
  <2> USE DEF ReadExecutions, Close, End
  <2>0. req[r].kind \in Kinds /\ (req[r].kind # "register" => req[r].by \in Logins)
    BY RequestFacts, DomainAssumption DEF TypeInv
  <2>a. left' \in [Clients -> SUBSET Execution]
    BY <1>18 DEF TypeInv, TypeOK, Newest, Failing
  <2>1. TypeOK'
    BY <1>18, <2>0, <2>a, DomainAssumption DEF TypeInv, TypeOK, InPlace, PlacesOf, Working,
       Final, Kinds
  <2>2. InPlace'
    BY <1>18, <2>0 DEF TypeInv, TypeOK, InPlace, PlacesOf, Final, Kinds
  <2>3. Attempted'
    BY <1>18, <2>0 DEF TypeInv, TypeOK, InPlace, PlacesOf, Kinds, Attempted
  <2>4. LookedUp'
    BY <1>18, <2>0 DEF TypeInv, TypeOK, InPlace, PlacesOf, Kinds, LookedUp
  <2> QED  BY <1>18, <2>1, <2>2, <2>3, <2>4 DEF TypeInv
<1>19. ASSUME NEW r \in Clients, ReadEvidence(r) PROVE TypeInv'
  <2> USE DEF ReadEvidence, Close, End
  <2>0. req[r].kind \in Kinds /\ (req[r].kind # "register" => req[r].by \in Logins)
    BY RequestFacts, DomainAssumption DEF TypeInv
  <2>a. \A x \in left[r] :
          [execution |-> x,
           claims |-> {c \in claims : c.execution = x.id /\ req[r].kind = "bundle"},
           artifacts |-> ArtifactsOf(x)] \in Sight
    BY DEF TypeInv, TypeOK, Sight, Artifact, ArtifactsOf
  <2>b. shown' \in [Clients -> SUBSET Sight] /\ left' \in [Clients -> SUBSET Execution]
    BY <1>19, <2>a DEF TypeInv, TypeOK
  <2>1. TypeOK'
    BY <1>19, <2>0, <2>b, DomainAssumption DEF TypeInv, TypeOK, InPlace, PlacesOf, Working,
       Final, Kinds
  <2>2. InPlace'
    BY <1>19, <2>0 DEF TypeInv, TypeOK, InPlace, PlacesOf, Final, Kinds
  <2>3. Attempted'
    BY <1>19, <2>0 DEF TypeInv, TypeOK, InPlace, PlacesOf, Kinds, Attempted
  <2>4. LookedUp'
    BY <1>19, <2>0 DEF TypeInv, TypeOK, InPlace, PlacesOf, Kinds, LookedUp
  <2> QED  BY <1>19, <2>1, <2>2, <2>3, <2>4 DEF TypeInv
<1>20. ASSUME NEW r \in Clients, ReadGreen(r) PROVE TypeInv'
  <2> USE DEF ReadGreen, Close, End
  <2>0. req[r].kind \in Kinds /\ (req[r].kind # "register" => req[r].by \in Logins)
    BY RequestFacts, DomainAssumption DEF TypeInv
  <2>a. green' \in [Clients -> SUBSET Execution]
    BY <1>20 DEF TypeInv, TypeOK, Newest, Passing
  <2>1. TypeOK'
    BY <1>20, <2>0, <2>a, DomainAssumption DEF TypeInv, TypeOK, InPlace, PlacesOf, Working,
       Final, Kinds
  <2>2. InPlace'
    BY <1>20, <2>0 DEF TypeInv, TypeOK, InPlace, PlacesOf, Final, Kinds
  <2>3. Attempted'
    BY <1>20, <2>0 DEF TypeInv, TypeOK, InPlace, PlacesOf, Kinds, Attempted
  <2>4. LookedUp'
    BY <1>20, <2>0 DEF TypeInv, TypeOK, InPlace, PlacesOf, Kinds, LookedUp
  <2> QED  BY <1>20, <2>1, <2>2, <2>3, <2>4 DEF TypeInv
<1>21. ASSUME NEW r \in Clients, Reply(r) PROVE TypeInv'
  <2> USE DEF Reply, Close, End
  <2>0. req[r].kind \in Kinds /\ (req[r].kind # "register" => req[r].by \in Logins)
    BY RequestFacts, DomainAssumption DEF TypeInv
  <2>1. TypeOK'
    BY <1>21, <2>0, DomainAssumption DEF TypeInv, TypeOK, InPlace, PlacesOf, Working, Final, Kinds
  <2>2. InPlace'
    BY <1>21, <2>0 DEF TypeInv, TypeOK, InPlace, PlacesOf, Final, Kinds
  <2>3. Attempted'
    BY <1>21, <2>0 DEF TypeInv, TypeOK, InPlace, PlacesOf, Kinds, Attempted
  <2>4. LookedUp'
    BY <1>21, <2>0 DEF TypeInv, TypeOK, InPlace, PlacesOf, Kinds, LookedUp
  <2> QED  BY <1>21, <2>1, <2>2, <2>3, <2>4 DEF TypeInv
<1>22. ASSUME NEW r \in Clients, Crash(r) PROVE TypeInv'
  <2> USE DEF Crash, Close, End
  <2>0. req[r].kind \in Kinds /\ (req[r].kind # "register" => req[r].by \in Logins)
    BY RequestFacts, DomainAssumption DEF TypeInv
  <2>1. TypeOK'
    BY <1>22, <2>0, DomainAssumption DEF TypeInv, TypeOK, InPlace, PlacesOf, Working, Final, Kinds
  <2>2. InPlace'
    BY <1>22, <2>0 DEF TypeInv, TypeOK, InPlace, PlacesOf, Final, Kinds
  <2>3. Attempted'
    BY <1>22, <2>0 DEF TypeInv, TypeOK, InPlace, PlacesOf, Kinds, Working, Attempted
  <2>4. LookedUp'
    BY <1>22, <2>0 DEF TypeInv, TypeOK, InPlace, PlacesOf, Kinds, LookedUp
  <2> QED  BY <1>22, <2>1, <2>2, <2>3, <2>4 DEF TypeInv
<1>23. ASSUME NEW r \in Clients, Retry(r) PROVE TypeInv'
  <2> USE DEF Retry, Close, End
  <2>0. req[r].kind \in Kinds /\ (req[r].kind # "register" => req[r].by \in Logins)
    BY RequestFacts, DomainAssumption DEF TypeInv
  <2>1. TypeOK'
    BY <1>23, <2>0, DomainAssumption DEF TypeInv, TypeOK, InPlace, PlacesOf, Working, Final, Kinds
  <2>2. InPlace'
    BY <1>23, <2>0 DEF TypeInv, TypeOK, InPlace, PlacesOf, Final, Kinds
  <2>3. Attempted'
    BY <1>23, <2>0 DEF TypeInv, TypeOK, InPlace, PlacesOf, Kinds, Attempted
  <2>4. LookedUp'
    BY <1>23, <2>0 DEF TypeInv, TypeOK, InPlace, PlacesOf, Kinds, LookedUp
  <2> QED  BY <1>23, <2>1, <2>2, <2>3, <2>4 DEF TypeInv
<1>24. ASSUME NEW r \in Clients, ReadReasoning(r) PROVE TypeInv'
  <2> USE DEF ReadReasoning, Close, End
  <2>0. req[r].kind \in Kinds /\ (req[r].kind # "register" => req[r].by \in Logins)
    BY RequestFacts, DomainAssumption DEF TypeInv
  <2>a. prior' \in [Clients -> SUBSET Execution]
    BY <1>24 DEF TypeInv, TypeOK, Newest
  <2>1. TypeOK'
    BY <1>24, <2>0, <2>a, DomainAssumption DEF TypeInv, TypeOK, InPlace, PlacesOf, Working,
       Final, Kinds
  <2>2. InPlace'
    BY <1>24, <2>0 DEF TypeInv, TypeOK, InPlace, PlacesOf, Final, Kinds
  <2>3. Attempted'
    BY <1>24, <2>0 DEF TypeInv, TypeOK, InPlace, PlacesOf, Kinds, Attempted
  <2>4. LookedUp'
    BY <1>24, <2>0 DEF TypeInv, TypeOK, InPlace, PlacesOf, Kinds, LookedUp
  <2> QED  BY <1>24, <2>1, <2>2, <2>3, <2>4 DEF TypeInv
<1> QED  BY <1>1, <1>2, <1>3, <1>4, <1>5, <1>6, <1>7, <1>8, <1>9, <1>10, <1>11, <1>12, <1>13,
            <1>14, <1>15, <1>16, <1>17, <1>18, <1>19, <1>20, <1>21, <1>22, <1>23, <1>24 DEF Next,
            Handle, Identify, File, Audit, Show

THEOREM TypeCorrect == Spec => []TypeOK
<1>1. TypeInv => TypeOK
  BY DEF TypeInv
<1> QED  BY <1>1, TypeInit, TypeNext, PTL DEF Spec

-----------------------------------------------------------------------------
(***************************************************************************)
(* The order of verdicts                                                   *)
(***************************************************************************)

\* A row that was there when v's call began has a smaller id than v.
InTime(v) ==
  /\ v.id <= sequence /\ v.began <= clock
  /\ \A w \in verdicts : w.ended <= v.began => w.id < v.id

OrderInv ==
  /\ \A r \in Clients : began[r] <= clock
  /\ \A v \in verdicts : InTime(v)
  /\ \A r \in Clients : \A v \in mine[r] : InTime(v)

LEMMA OrderInit == Init => OrderInv
BY DEF Init, OrderInv

\* The steps that file no verdict, and what they do to one.
LEMMA InTimeStays ==
  ASSUME TypeInv, NEW v \in Verdict, InTime(v), UNCHANGED <<verdicts, sequence>>,
         clock' \in {clock, clock + 1}
  PROVE  InTime(v)'
BY DEF InTime, TypeInv, TypeOK, Verdict

LEMMA OrderFrame ==
  ASSUME TypeInv, OrderInv, UNCHANGED <<verdicts, sequence>>,
         clock' \in {clock, clock + 1},
         \A r \in Clients : began'[r] \in {began[r], clock} /\ mine'[r] \subseteq mine[r]
  PROVE  OrderInv'
<1>1. clock \in Nat /\ \A r \in Clients : began[r] \in Nat
  BY DEF TypeInv, TypeOK
<1>2. verdicts \subseteq Verdict /\ \A r \in Clients : mine[r] \subseteq Verdict
  BY DEF TypeInv, TypeOK
<1>3. \A r \in Clients : began'[r] <= clock'
  BY <1>1 DEF OrderInv
<1>4. ASSUME NEW v \in verdicts' PROVE InTime(v)'
  BY <1>2, <1>4, InTimeStays DEF OrderInv
<1>5. ASSUME NEW r \in Clients, NEW v \in mine'[r] PROVE InTime(v)'
  BY <1>2, <1>5, InTimeStays DEF OrderInv
<1> QED  BY <1>3, <1>4, <1>5 DEF OrderInv

LEMMA OrderFlush ==
  ASSUME TypeInv, OrderInv, NEW r \in Clients, FlushVerdict(r)
  PROVE  OrderInv'
<1> USE DEF FlushVerdict
<1>1. sequence \in Nat /\ clock \in Nat /\ began[r] \in Nat /\ verdicts \subseteq Verdict
  BY DEF TypeInv, TypeOK
<1>2. ASSUME NEW v \in Verdict, InTime(v) PROVE InTime(v)'
  BY <1>1, <1>2 DEF InTime, Verdict
<1>3. \A v \in verdicts' : InTime(v)'
  BY <1>1, <1>2 DEF OrderInv
<1>4. ASSUME NEW p \in Clients, NEW v \in mine'[p] PROVE InTime(v)'
  <2>1. CASE p # r
    <3>1. v \in mine[p] /\ v \in Verdict
      BY <1>4, <2>1 DEF TypeInv, TypeOK
    <3> QED  BY <1>2, <3>1 DEF OrderInv
  <2>2. CASE p = r
    <3>1. v.id = sequence + 1 /\ v.began = began[r]
      BY <1>4, <2>2 DEF TypeInv, TypeOK
    <3>2. \A w \in verdicts : w.id \in Nat /\ w.id <= sequence
      BY <1>1 DEF OrderInv, InTime, Verdict
    <3> QED  BY <1>1, <3>1, <3>2 DEF OrderInv, InTime
  <2> QED  BY <2>1, <2>2
<1> QED  BY <1>3, <1>4 DEF OrderInv

LEMMA OrderCommit ==
  ASSUME TypeInv, OrderInv, NEW r \in Clients, CommitVerdict(r)
  PROVE  OrderInv'
<1>1. clock \in Nat /\ (\A p \in Clients : began[p] \in Nat) /\ verdicts \subseteq Verdict
  BY DEF TypeInv, TypeOK
<1>2. began' = began /\ sequence' = sequence /\ clock' = clock + 1
  BY DEF CommitVerdict, Verified, End, Close
<1>3. \A p \in Clients : mine'[p] \subseteq mine[p] /\ mine[p] \subseteq Verdict
  BY DEF CommitVerdict, Verified, End, Close, TypeInv, TypeOK
<1>4. ASSUME NEW v \in verdicts', v \notin verdicts
      PROVE  \E w \in mine[r] : v.id = w.id /\ v.began = w.began /\ v.ended = clock + 1
  <2>1. PICK w \in mine[r] : v = [w EXCEPT !.ended = clock + 1]
    BY <1>4 DEF CommitVerdict
  <2> QED  BY <1>3, <2>1 DEF Verdict
<1>5. ASSUME NEW v \in Verdict, InTime(v) PROVE InTime(v)'
  <2>1. v.began \in Nat /\ v.began <= clock
    BY <1>5 DEF InTime, Verdict
  <2>2. \A w \in verdicts' : w \notin verdicts => ~ w.ended <= v.began
    BY <1>1, <1>4, <2>1
  <2> QED  BY <1>1, <1>2, <1>5, <2>1, <2>2 DEF InTime
<1>6. ASSUME NEW v \in verdicts' PROVE InTime(v)'
  <2>1. CASE v \in verdicts
    BY <1>1, <1>5, <2>1 DEF OrderInv
  <2>2. CASE v \notin verdicts
    <3>1. PICK w \in mine[r] : v.id = w.id /\ v.began = w.began
      BY <1>4, <1>6, <2>2
    <3>2. InTime(w)'
      BY <1>3, <1>5 DEF OrderInv
    <3> QED  BY <3>1, <3>2 DEF InTime
  <2> QED  BY <2>1, <2>2
<1>7. \A p \in Clients : \A v \in mine'[p] : InTime(v)'
  BY <1>3, <1>5 DEF OrderInv
<1>8. \A p \in Clients : began'[p] <= clock'
  BY <1>1, <1>2 DEF OrderInv
<1> QED  BY <1>6, <1>7, <1>8 DEF OrderInv

LEMMA OrderNext ==
  ASSUME TypeInv, OrderInv, [Next]_vars
  PROVE  OrderInv'
<1>1. CASE UNCHANGED vars
  BY <1>1, OrderFrame DEF vars
<1>2. ASSUME NEW r \in Clients, FlushVerdict(r) \/ CommitVerdict(r) PROVE OrderInv'
  BY <1>2, OrderFlush, OrderCommit
<1> USE DEF Goto, db, session, client, End, Close, TypeInv, TypeOK
<1>3. ASSUME NEW r \in Clients, Begin(r) PROVE OrderInv'
  BY <1>3, OrderFrame DEF Begin
<1>4. ASSUME NEW r \in Clients, FindLogin(r) PROVE OrderInv'
  BY <1>4, OrderFrame DEF FindLogin
<1>5. ASSUME NEW r \in Clients, InsertUser(r) PROVE OrderInv'
  BY <1>5, OrderFrame DEF InsertUser
<1>6. ASSUME NEW r \in Clients, LoseLogin(r) PROVE OrderInv'
  BY <1>6, OrderFrame DEF LoseLogin
<1>7. ASSUME NEW r \in Clients, Deactivate(r) PROVE OrderInv'
  BY <1>7, OrderFrame DEF Deactivate
<1>8. ASSUME NEW r \in Clients, CommitReport(r) PROVE OrderInv'
  BY <1>8, OrderFrame DEF CommitReport
<1>9. ASSUME NEW r \in Clients, FindExecution(r) PROVE OrderInv'
  BY <1>9, OrderFrame DEF FindExecution
<1>10. ASSUME NEW r \in Clients, PutBlob(r) PROVE OrderInv'
  BY <1>10, OrderFrame DEF PutBlob
<1>11. ASSUME NEW r \in Clients, PutFails(r) PROVE OrderInv'
  BY <1>11, OrderFrame DEF PutFails
<1>12. ASSUME NEW r \in Clients, CommitArtifact(r) PROVE OrderInv'
  BY <1>12, OrderFrame DEF CommitArtifact
<1>13. ASSUME NEW r \in Clients, ReadQueue(r) PROVE OrderInv'
  BY <1>13, OrderFrame DEF ReadQueue
<1>14. ASSUME NEW r \in Clients, NextClaim(r) PROVE OrderInv'
  BY <1>14, OrderFrame DEF NextClaim
<1>15. ASSUME NEW r \in Clients, FindClaim(r) PROVE OrderInv'
  BY <1>15, OrderFrame DEF FindClaim, Verified
<1>16. ASSUME NEW r \in Clients, Assess(r) PROVE OrderInv'
  BY <1>16, OrderFrame DEF Assess
<1>17. ASSUME NEW r \in Clients, ReadExecutions(r) PROVE OrderInv'
  BY <1>17, OrderFrame DEF ReadExecutions
<1>18. ASSUME NEW r \in Clients, ReadEvidence(r) PROVE OrderInv'
  BY <1>18, OrderFrame DEF ReadEvidence
<1>19. ASSUME NEW r \in Clients, ReadGreen(r) PROVE OrderInv'
  BY <1>19, OrderFrame DEF ReadGreen
<1>20. ASSUME NEW r \in Clients, Reply(r) PROVE OrderInv'
  BY <1>20, OrderFrame DEF Reply
<1>21. ASSUME NEW r \in Clients, Crash(r) PROVE OrderInv'
  BY <1>21, OrderFrame DEF Crash
<1>22. ASSUME NEW r \in Clients, Retry(r) PROVE OrderInv'
  BY <1>22, OrderFrame DEF Retry
<1>23. ASSUME NEW r \in Clients, ReadReasoning(r) PROVE OrderInv'
  BY <1>23, OrderFrame DEF ReadReasoning
<1> QED  BY <1>1, <1>2, <1>3, <1>4, <1>5, <1>6, <1>7, <1>8, <1>9, <1>10, <1>11, <1>12, <1>13,
            <1>14, <1>15, <1>16, <1>17, <1>18, <1>19, <1>20, <1>21, <1>22, <1>23 DEF Next, Handle,
            Identify, File, Audit, Show

\* A claim with a verdict has one with the greatest id: ids are bounded by the sequence.
LEMMA LatestExists ==
  ASSUME TypeInv, OrderInv, NEW v \in verdicts
  PROVE  /\ Latest(v.claim) \in verdicts
         /\ v.id <= Latest(v.claim).id
<1> DEFINE S == VerdictsOn(v.claim)
           Below(w) == sequence - w.id
           T == {Below(w) : w \in S}
<1>1. \A w \in verdicts : w.id \in Nat /\ w.id <= sequence
  BY DEF TypeInv, TypeOK, Verdict, OrderInv, InTime
<1>2. sequence \in Nat
  BY DEF TypeInv, TypeOK
<1>3. S \subseteq verdicts /\ v \in S
  BY DEF VerdictsOn
<1>4. T \subseteq Nat /\ T # {}
  BY <1>1, <1>2, <1>3
<1>5. PICK x \in T : \A y \in T : ~ (<<y, x>> \in OpToRel(<, Nat))
  BY <1>4, WFMin, NatLessThanWellFounded
<1>6. \A y \in T : x <= y
  <2>1. \A i, j \in Nat : i < j => <<i, j>> \in OpToRel(<, Nat)
    BY Zenon DEF OpToRel
  <2>2. \A y \in T : ~ (y < x)
    BY <1>4, <1>5, <2>1, Zenon
  <2> HIDE DEF T
  <2> QED  BY <1>4, <2>2
<1>7. PICK m \in S : x = Below(m)
  OBVIOUS
<1>8. \A w \in S : w.id <= m.id
  <2> SUFFICES ASSUME NEW w \in S PROVE w.id <= m.id
    OBVIOUS
  <2>1. Below(m) <= Below(w)
    BY <1>6, <1>7
  <2> QED  BY <1>1, <1>2, <1>3, <2>1
<1>9. Latest(v.claim) \in S /\ \A w \in S : w.id <= Latest(v.claim).id
  BY <1>8 DEF Latest
<1> QED  BY <1>3, <1>9

\* The verdict shown of a claim is never one that was there before the call of another
\* began: what verify_claim files later has a greater id.
THEOREM VerdictsAreInOrderHolds == Spec => []VerdictsAreInOrder
<1>1. TypeInv /\ OrderInv => VerdictsAreInOrder
  <2> SUFFICES ASSUME TypeInv, OrderInv, NEW v \in verdicts, Latest(v.claim).ended <= v.began
               PROVE  FALSE
    BY DEF VerdictsAreInOrder
  <2>1. Latest(v.claim) \in verdicts /\ v.id <= Latest(v.claim).id
    BY LatestExists
  <2>2. Latest(v.claim).id < v.id
    BY <2>1 DEF OrderInv, InTime
  <2>3. Latest(v.claim).id \in Nat /\ v.id \in Nat
    BY <2>1 DEF TypeInv, TypeOK, Verdict
  <2> QED  BY <2>1, <2>2, <2>3
<1> QED  BY <1>1, TypeInit, TypeNext, OrderInit, OrderNext, PTL DEF Spec

-----------------------------------------------------------------------------
(***************************************************************************)
(* What readers are shown                                                 *)
(***************************************************************************)

\* A key is in the store before its row is committed; ids of executions are never reused.
StoreInv ==
  /\ \A a \in artifacts : a.key \in blobs
  /\ \A r \in Clients : pc[r] = "commit" /\ req[r].kind = "upload" => Mine(r) \in blobs
  /\ IsFiniteSet(executions)
  /\ \A x \in executions, r \in Clients, n \in Nat :
       x.id = <<r, n>> => n <= attempts[r] /\ (pc[r] \in {"find", "write"} => n < attempts[r])

\* What a reader has gathered of each run it shows.
SightIsWhole(r, s) ==
  /\ s.execution \in executions
  /\ req[r].kind = "bundle" => s.claims = {c \in claims : c.execution = s.execution.id}
  /\ s.artifacts \subseteq blobs
  /\ \A a \in artifacts : a.execution = s.execution.id /\ a.ended <= began[r]
       => a.key \in s.artifacts

\* The runs a reader has shown or has still to show.
Gathered(r) == left[r] \cup {s.execution : s \in shown[r]}

\* They are the runs there were when it began, or as many of the newest as it may show.
Covers(r) ==
  /\ req[r].kind = "bundle" =>
       \A x \in executions : x.ended <= began[r] => x \in Gathered(r)
  /\ req[r].kind = "context" =>
       \A x \in Failing : x.ended <= began[r] =>
         \/ x \in Gathered(r)
         \/ Cardinality(Gathered(r)) = LastN /\ \A y \in Gathered(r) : y.created >= x.created

\* The reasoning of a context is that of the runs there were, or of as many of the newest.
ShowsPrior(r) ==
  req[r].kind = "context" => \A x \in executions : x.ended <= began[r] =>
    \/ x \in prior[r]
    \/ Cardinality(prior[r]) = LastN /\ \A y \in prior[r] : y.created >= x.created

ShowsGreen(r) ==
  req[r].kind = "context" => \A x \in Passing : x.ended <= began[r] =>
                               \E y \in green[r] : y.created >= x.created

Reads(r) == req[r].kind \in {"bundle", "context"}

Reader(r) ==
  /\ shown[r] # {} => Reads(r)
  /\ pc[r] = "read" => shown[r] = {}
  /\ left[r] \subseteq executions
  /\ \A s \in shown[r] : SightIsWhole(r, s)
  /\ Reads(r) /\ pc[r] \in {"each", "green", "reply", "done"} => Covers(r)
  /\ Reads(r) /\ pc[r] \in {"green", "reply", "done"} => left[r] = {} /\ ShowsPrior(r)
  /\ Reads(r) /\ pc[r] \in {"reply", "done"} => ShowsGreen(r)

WholeInv == StoreInv /\ \A r \in Clients : Reader(r)

LEMMA StoreInit == Init => StoreInv
<1> SUFFICES ASSUME Init PROVE StoreInv
  OBVIOUS
<1>1. PICK u \in FirstUsers :
        executions = {[id |-> First, by |-> u, status |-> "fail", created |-> 0, ended |-> 0]}
  BY DEF Init
<1>2. IsFiniteSet(executions)
  BY <1>1, FS_Singleton
<1>3. \A x \in executions, r \in Clients, n \in Nat : x.id # <<r, n>>
  BY <1>1, DomainAssumption DEF First
<1> QED  BY <1>2, <1>3 DEF Init, StoreInv

LEMMA ReaderInit == ASSUME Init, NEW r \in Clients PROVE Reader(r)
BY DEF Init, Reader

LEMMA StoreNext ==
  ASSUME TypeInv, StoreInv, [Next]_vars
  PROVE  StoreInv'
<1> USE DEF Goto, db, session, client, End, Close, Mine
<1>1. CASE UNCHANGED vars
  BY <1>1 DEF vars, StoreInv
<1>2. ASSUME NEW r \in Clients, CommitReport(r) PROVE StoreInv'
  <2>1. IsFiniteSet(executions')
    BY <1>2, FS_AddElement DEF CommitReport, StoreInv
  <2>2. attempts[r] \in Nat
    BY <1>2 DEF CommitReport, TypeInv, TypeOK
  <2>3. ASSUME NEW x \in executions', NEW p \in Clients, NEW n \in Nat, x.id = <<p, n>>
        PROVE  n <= attempts'[p] /\ (pc'[p] \in {"find", "write"} => n < attempts'[p])
    BY <1>2, <2>2, <2>3 DEF CommitReport, StoreInv, TypeInv, TypeOK
  <2> QED  BY <1>2, <2>1, <2>3 DEF CommitReport, StoreInv, TypeInv, TypeOK
<1>3. ASSUME NEW r \in Clients, PutBlob(r) PROVE StoreInv'
  BY <1>3 DEF PutBlob, StoreInv, TypeInv, TypeOK
<1>4. ASSUME NEW r \in Clients, CommitArtifact(r) PROVE StoreInv'
  BY <1>4 DEF CommitArtifact, StoreInv, TypeInv, TypeOK
<1>5. ASSUME NEW r \in Clients, Begin(r) PROVE StoreInv'
  <2>1. req[r].kind \in Kinds /\ attempts[r] \in Nat
    BY RequestFacts DEF TypeInv, TypeOK
  <2>2. pc'[r] \notin {"commit"} /\ (req[r].kind = "audit" => pc'[r] \notin {"find", "write"})
    BY <1>5, <2>1 DEF Begin, Entry, Kinds, TypeInv, TypeOK
  <2>3. ASSUME NEW x \in executions, NEW p \in Clients, NEW n \in Nat, x.id = <<p, n>>
        PROVE  n <= attempts'[p] /\ (pc'[p] \in {"find", "write"} => n < attempts'[p])
    BY <1>5, <2>1, <2>2, <2>3 DEF Begin, StoreInv, TypeInv, TypeOK
  <2>4. \A p \in Clients : pc'[p] = "commit" => p # r
    BY <2>2
  <2> QED  BY <1>5, <2>3, <2>4 DEF Begin, StoreInv, TypeInv, TypeOK
<1>6. ASSUME NEW r \in Clients, FindLogin(r) PROVE StoreInv'
  BY <1>6 DEF FindLogin, StoreInv, TypeInv, TypeOK
<1>7. ASSUME NEW r \in Clients, InsertUser(r) PROVE StoreInv'
  BY <1>7 DEF InsertUser, StoreInv, TypeInv, TypeOK
<1>8. ASSUME NEW r \in Clients, LoseLogin(r) PROVE StoreInv'
  BY <1>8 DEF LoseLogin, StoreInv, TypeInv, TypeOK
<1>9. ASSUME NEW r \in Clients, Deactivate(r) PROVE StoreInv'
  BY <1>9 DEF Deactivate, StoreInv, TypeInv, TypeOK
<1>10. ASSUME NEW r \in Clients, FindExecution(r) PROVE StoreInv'
  BY <1>10 DEF FindExecution, StoreInv, TypeInv, TypeOK
<1>11. ASSUME NEW r \in Clients, PutFails(r) PROVE StoreInv'
  BY <1>11 DEF PutFails, StoreInv, TypeInv, TypeOK
<1>12. ASSUME NEW r \in Clients, ReadQueue(r) PROVE StoreInv'
  BY <1>12 DEF ReadQueue, StoreInv, TypeInv, TypeOK
<1>13. ASSUME NEW r \in Clients, NextClaim(r) PROVE StoreInv'
  BY <1>13 DEF NextClaim, StoreInv, TypeInv, TypeOK
<1>14. ASSUME NEW r \in Clients, FindClaim(r) PROVE StoreInv'
  BY <1>14 DEF FindClaim, Verified, StoreInv, TypeInv, TypeOK
<1>15. ASSUME NEW r \in Clients, FlushVerdict(r) PROVE StoreInv'
  <2>1. req[r].kind # "upload"
    BY <1>15 DEF FlushVerdict, TypeInv, InPlace, PlacesOf, Final
  <2> QED  BY <1>15, <2>1 DEF FlushVerdict, StoreInv, TypeInv, TypeOK
<1>16. ASSUME NEW r \in Clients, CommitVerdict(r) PROVE StoreInv'
  BY <1>16 DEF CommitVerdict, Verified, StoreInv, TypeInv, TypeOK
<1>17. ASSUME NEW r \in Clients, Assess(r) PROVE StoreInv'
  BY <1>17 DEF Assess, StoreInv, TypeInv, TypeOK
<1>18. ASSUME NEW r \in Clients, ReadExecutions(r) PROVE StoreInv'
  BY <1>18 DEF ReadExecutions, StoreInv, TypeInv, TypeOK
<1>19. ASSUME NEW r \in Clients, ReadEvidence(r) PROVE StoreInv'
  BY <1>19 DEF ReadEvidence, StoreInv, TypeInv, TypeOK
<1>20. ASSUME NEW r \in Clients, ReadGreen(r) PROVE StoreInv'
  BY <1>20 DEF ReadGreen, StoreInv, TypeInv, TypeOK
<1>21. ASSUME NEW r \in Clients, Reply(r) PROVE StoreInv'
  BY <1>21 DEF Reply, StoreInv, TypeInv, TypeOK
<1>22. ASSUME NEW r \in Clients, Crash(r) PROVE StoreInv'
  BY <1>22 DEF Crash, StoreInv, TypeInv, TypeOK
<1>23. ASSUME NEW r \in Clients, Retry(r) PROVE StoreInv'
  BY <1>23 DEF Retry, StoreInv, TypeInv, TypeOK
<1>24. ASSUME NEW r \in Clients, ReadReasoning(r) PROVE StoreInv'
  BY <1>24 DEF ReadReasoning, StoreInv, TypeInv, TypeOK
<1> QED  BY <1>1, <1>2, <1>3, <1>4, <1>5, <1>6, <1>7, <1>8, <1>9, <1>10, <1>11, <1>12, <1>13,
            <1>14, <1>15, <1>16, <1>17, <1>18, <1>19, <1>20, <1>21, <1>22, <1>23, <1>24 DEF Next,
            Handle, Identify, File, Audit, Show

\* What a step may do to the tables: rows are only added, new ones are stamped after the
\* calls in progress began, and new claims are of a new run.
Grows ==
  /\ executions \subseteq executions' /\ claims \subseteq claims'
  /\ artifacts \subseteq artifacts' /\ blobs \subseteq blobs'
  /\ \A x \in executions' : x \in executions \/ x.ended = clock + 1
  /\ \A a \in artifacts' : a \in artifacts \/ a.ended = clock + 1
  /\ \A c \in claims' : c \in claims \/ \A x \in executions : c.execution # x.id

LEMMA TablesGrow ==
  ASSUME TypeInv, StoreInv, [Next]_vars
  PROVE  Grows
<1> USE DEF db
<1>1. CASE UNCHANGED <<executions, claims, artifacts, blobs>>
  BY <1>1 DEF Grows
<1>2. ASSUME NEW r \in Clients, CommitReport(r) PROVE Grows
  <2>1. attempts[r] \in Nat
    BY DEF TypeInv, TypeOK
  <2>2. \A x \in executions : x.id # Mine(r)
    BY <1>2, <2>1 DEF CommitReport, StoreInv, Mine
  <2>3. \A x \in executions' : x \in executions \/ x.ended = clock + 1
    BY <1>2 DEF CommitReport
  <2>4. \A c \in claims' : c \in claims \/ c.execution = Mine(r)
    BY <1>2 DEF CommitReport, Filed
  <2> QED  BY <1>2, <2>2, <2>3, <2>4 DEF CommitReport, Grows
<1>3. ASSUME NEW r \in Clients, PutBlob(r) PROVE Grows
  BY <1>3 DEF PutBlob, Grows
<1>4. ASSUME NEW r \in Clients, CommitArtifact(r) PROVE Grows
  BY <1>4 DEF CommitArtifact, Grows
<1>5. CASE \E r \in Clients : Begin(r) \/ Identify(r) \/ FindExecution(r) \/ PutFails(r)
                                \/ Show(r) \/ Reply(r) \/ Crash(r) \/ Retry(r)
  BY <1>1, <1>5 DEF Begin, Identify, FindLogin, InsertUser, LoseLogin, Deactivate, FindExecution,
     PutFails, Show, ReadExecutions, ReadEvidence, ReadReasoning, ReadGreen, Reply, Crash, Retry
<1>6. CASE \E r \in Clients : Audit(r)
  BY <1>1, <1>6 DEF Audit, ReadQueue, NextClaim, FindClaim, FlushVerdict, CommitVerdict, Assess
<1>7. CASE UNCHANGED vars
  BY <1>1, <1>7 DEF vars
<1> QED  BY <1>2, <1>3, <1>4, <1>5, <1>6, <1>7 DEF Next, Handle, File

\* What the tables' growth leaves of what a reader has gathered.
LEMMA SightStays ==
  ASSUME TypeInv, OrderInv, Grows, StoreInv', NEW r \in Clients, NEW s, SightIsWhole(r, s),
         began'[r] = began[r], req' = req
  PROVE  SightIsWhole(r, s)'
<1>1. clock \in Nat /\ began[r] \in Nat /\ began[r] <= clock
  BY DEF TypeInv, TypeOK, OrderInv
<1>2. \A a \in artifacts' : a.ended <= began[r] => a \in artifacts
  BY <1>1 DEF Grows
<1>3. {c \in claims' : c.execution = s.execution.id} = {c \in claims : c.execution = s.execution.id}
  BY DEF Grows, SightIsWhole
<1>4. s.execution \in executions' /\ s.artifacts \subseteq blobs'
  BY DEF Grows, SightIsWhole
<1>5. \A a \in artifacts' : a.execution = s.execution.id /\ a.ended <= began'[r]
        => a.key \in s.artifacts
  BY <1>2 DEF SightIsWhole
<1>6. req'[r].kind = "bundle" => s.claims = {c \in claims' : c.execution = s.execution.id}
  BY <1>3 DEF SightIsWhole
<1> QED  BY <1>4, <1>5, <1>6 DEF SightIsWhole

LEMMA CoverStays ==
  ASSUME TypeInv, OrderInv, Grows, NEW r \in Clients,
         began'[r] = began[r], req' = req, Gathered(r)' = Gathered(r)
  PROVE  Covers(r) => Covers(r)'
<1>1. clock \in Nat /\ began[r] \in Nat /\ began[r] <= clock
  BY DEF TypeInv, TypeOK, OrderInv
<1>2. \A x \in executions' : x.ended <= began[r] => x \in executions
  BY <1>1 DEF Grows
<1> QED  BY <1>2 DEF Covers, Failing

LEMMA PriorStays ==
  ASSUME TypeInv, OrderInv, Grows, NEW r \in Clients,
         began'[r] = began[r], req' = req, prior'[r] = prior[r]
  PROVE  ShowsPrior(r) => ShowsPrior(r)'
<1>1. clock \in Nat /\ began[r] \in Nat /\ began[r] <= clock
  BY DEF TypeInv, TypeOK, OrderInv
<1>2. \A x \in executions' : x.ended <= began[r] => x \in executions
  BY <1>1 DEF Grows
<1> QED  BY <1>2 DEF ShowsPrior

LEMMA GreenStays ==
  ASSUME TypeInv, OrderInv, Grows, NEW r \in Clients,
         began'[r] = began[r], req' = req, green'[r] = green[r]
  PROVE  ShowsGreen(r) => ShowsGreen(r)'
<1>1. clock \in Nat /\ began[r] \in Nat /\ began[r] <= clock
  BY DEF TypeInv, TypeOK, OrderInv
<1>2. \A x \in executions' : x.ended <= began[r] => x \in executions
  BY <1>1 DEF Grows
<1> QED  BY <1>2 DEF ShowsGreen, Passing

\* A step that adds nothing to what r was shown, and takes it to no place where more is
\* promised.
LEMMA ReaderStays ==
  ASSUME TypeInv, OrderInv, Grows, StoreInv', NEW r \in Clients, Reader(r), req' = req,
         began'[r] = began[r], shown'[r] = shown[r], prior'[r] = prior[r],
         green'[r] = green[r],
         \/ left'[r] = left[r] /\ \/ pc'[r] = pc[r]
                                  \/ pc[r] = "reply" /\ pc'[r] = "done"
                                  \/ ~ Reads(r) /\ pc'[r] # "read"
         \/ left'[r] \subseteq left[r] /\ pc'[r] \in {"idle", "rejected", "failed"}
         \/ left'[r] = {} /\ ~ Reads(r) /\ pc'[r] # "read"
  PROVE  Reader(r)'
<1>1. \A s \in shown'[r] : SightIsWhole(r, s)'
  BY SightStays DEF Reader
<1>2. left'[r] \subseteq executions' /\ (shown'[r] # {} => Reads(r)')
  BY DEF Reader, Grows, Reads
<1>3. pc'[r] = "read" => shown'[r] = {}
  BY DEF Reader
<1>4. Reads(r)' /\ pc'[r] \in {"each", "green", "reply", "done"} => Covers(r)'
  <2> SUFFICES ASSUME Reads(r)', pc'[r] \in {"each", "green", "reply", "done"} PROVE Covers(r)'
    OBVIOUS
  <2>1. left'[r] = left[r] /\ Reads(r) /\ pc[r] \in {"each", "green", "reply", "done"}
    BY DEF Reads
  <2>2. Gathered(r)' = Gathered(r)
    BY <2>1 DEF Gathered
  <2> QED  BY <2>1, <2>2, CoverStays DEF Reader
<1>5. Reads(r)' /\ pc'[r] \in {"green", "reply", "done"} => left'[r] = {} /\ ShowsPrior(r)'
  <2> SUFFICES ASSUME Reads(r)', pc'[r] \in {"green", "reply", "done"}
               PROVE  left'[r] = {} /\ ShowsPrior(r)'
    OBVIOUS
  <2>1. left'[r] = left[r] /\ Reads(r) /\ pc[r] \in {"green", "reply", "done"}
    BY DEF Reads
  <2> QED  BY <2>1, PriorStays DEF Reader
<1>6. Reads(r)' /\ pc'[r] \in {"reply", "done"} => ShowsGreen(r)'
  <2> SUFFICES ASSUME Reads(r)', pc'[r] \in {"reply", "done"} PROVE ShowsGreen(r)'
    OBVIOUS
  <2>1. Reads(r) /\ pc[r] \in {"reply", "done"}
    BY DEF Reads
  <2> QED  BY <2>1, GreenStays DEF Reader
<1> QED  BY <1>1, <1>2, <1>3, <1>4, <1>5, <1>6 DEF Reader

LEMMA NotReading ==
  ASSUME TypeInv, NEW r \in Clients,
         pc[r] \in {"find", "write", "look", "put", "flush", "commit", "queue", "next"}
  PROVE  ~ Reads(r)
<1>1. req[r].kind \in Kinds
  BY RequestFacts DEF TypeInv
<1> QED  BY <1>1 DEF TypeInv, InPlace, PlacesOf, Kinds, Final, Reads

LEMMA ReaderBegins ==
  ASSUME TypeInv, OrderInv, Grows, NEW r \in Clients, Reader(r), Begin(r)
  PROVE  Reader(r)'
<1>1. req[r].kind \in Kinds
  BY RequestFacts DEF TypeInv
<1>2. pc'[r] \notin {"each", "green", "reply", "done"}
  BY <1>1 DEF Begin, Goto, Entry, Kinds, TypeInv, TypeOK
<1>3. shown'[r] = {} /\ left'[r] = left[r] /\ executions' = executions
  BY DEF Begin, db, TypeInv, TypeOK
<1> QED  BY <1>2, <1>3 DEF Reader

LEMMA ReaderLists ==
  ASSUME TypeInv, StoreInv, OrderInv, NEW r \in Clients, Reader(r), ReadExecutions(r)
  PROVE  Reader(r)'
<1> USE DEF ReadExecutions, db, client
<1>1. shown[r] = {} /\ shown' = shown /\ pc'[r] = "each"
  BY DEF Reader, Goto, TypeInv, TypeOK
<1>2. PICK S \in IF req[r].kind = "bundle" THEN {executions} ELSE Newest(LastN, Failing) :
        left'[r] = S
  BY DEF TypeInv, TypeOK
<1>3. Gathered(r)' = S
  BY <1>1, <1>2 DEF Gathered
<1>4. S \subseteq executions
  BY <1>2 DEF Newest, Failing
<1>5. Covers(r)'
  <2>1. CASE req[r].kind = "bundle"
    BY <1>2, <1>3, <2>1 DEF Covers
  <2>2. CASE req[r].kind = "context"
    <3>1. /\ S \subseteq Failing
          /\ Cardinality(S) = IF Cardinality(Failing) < LastN THEN Cardinality(Failing) ELSE LastN
          /\ \A x \in S, y \in Failing \ S : y.created <= x.created
      BY <1>2, <2>2 DEF Newest
    <3>2. IsFiniteSet(Failing)
      BY FS_Subset DEF StoreInv, Failing
    <3>3. Cardinality(S) = LastN \/ S = Failing
      BY <3>1, <3>2, FS_Subset
    <3>4. Failing' = Failing /\ req' = req
      BY DEF Failing
    <3>5. \A x \in Failing, y \in S : x \notin S => y.created >= x.created
      BY <3>1 DEF Failing, TypeInv, TypeOK, Execution
    <3> QED  BY <1>3, <2>2, <3>3, <3>4, <3>5 DEF Covers
  <2> QED  BY <2>1, <2>2 DEF Covers
<1> QED  BY <1>1, <1>2, <1>4, <1>5 DEF Reader

LEMMA ReaderShows ==
  ASSUME TypeInv, StoreInv, OrderInv, NEW r \in Clients, Reader(r), ReadEvidence(r)
  PROVE  Reader(r)'
<1> USE DEF ReadEvidence, db, client
<1>1. PICK x \in left[r] :
        /\ left' = [left EXCEPT ![r] = @ \ {x}]
        /\ shown' = [shown EXCEPT ![r] = @ \cup {
             [execution |-> x,
              claims |-> {c \in claims : c.execution = x.id /\ req[r].kind = "bundle"},
              artifacts |-> ArtifactsOf(x)]}]
  OBVIOUS
<1> DEFINE new == [execution |-> x,
                   claims |-> {c \in claims : c.execution = x.id /\ req[r].kind = "bundle"},
                   artifacts |-> ArtifactsOf(x)]
<1>2. left'[r] = left[r] \ {x} /\ shown'[r] = shown[r] \cup {new}
  BY <1>1 DEF TypeInv, TypeOK
<1>3. pc' = pc /\ pc[r] = "each" /\ req' = req /\ began' = began
  OBVIOUS
<1>4. Reads(r)
  <2>1. req[r].kind \in Kinds
    BY RequestFacts DEF TypeInv
  <2> QED  BY <2>1 DEF TypeInv, InPlace, PlacesOf, Kinds, Final, Reads
<1>5. SightIsWhole(r, new)
  BY <1>1 DEF SightIsWhole, Reader, StoreInv, ArtifactsOf
<1>6. \A s \in shown'[r] : SightIsWhole(r, s)'
  <2>1. \A s \in shown'[r] : SightIsWhole(r, s)
    BY <1>2, <1>5 DEF Reader
  <2> QED  BY <2>1 DEF SightIsWhole
<1>7. Gathered(r)' = Gathered(r)
  <2>1. new.execution = x
    OBVIOUS
  <2> HIDE DEF new
  <2>2. {s.execution : s \in shown'[r]} = {s.execution : s \in shown[r]} \cup {x}
    BY <1>2, <2>1
  <2> QED  BY <1>1, <1>2, <2>2 DEF Gathered
<1>8. Covers(r)'
  <2>1. Covers(r)
    BY <1>3, <1>4 DEF Reader
  <2> QED  BY <1>7, <2>1 DEF Covers, Failing
<1> QED  BY <1>2, <1>3, <1>4, <1>6, <1>8 DEF Reader, Reads

\* The newest of some executions: those that were there are among them, or older.
LEMMA NewestCover ==
  ASSUME TypeInv, NEW S \in SUBSET executions, IsFiniteSet(S), NEW n \in Nat, NEW T \in Newest(n, S)
  PROVE  /\ T \subseteq S
         /\ \A x \in S : x \in T \/ (Cardinality(T) = n /\ \A y \in T : y.created >= x.created)
<1>1. /\ T \subseteq S
      /\ Cardinality(T) = IF Cardinality(S) < n THEN Cardinality(S) ELSE n
      /\ \A x \in T, y \in S \ T : y.created <= x.created
  BY DEF Newest
<1>2. Cardinality(T) = n \/ T = S
  BY <1>1, FS_Subset
<1>3. \A x \in S, y \in T : x \notin T => y.created >= x.created
  BY <1>1 DEF TypeInv, TypeOK, Execution
<1> QED  BY <1>1, <1>2, <1>3

LEMMA ReaderReasons ==
  ASSUME TypeInv, StoreInv, OrderInv, NEW r \in Clients, Reader(r), ReadReasoning(r)
  PROVE  Reader(r)'
<1> USE DEF ReadReasoning, db, client
<1>1. /\ pc[r] = "each" /\ pc'[r] = IF req[r].kind = "bundle" THEN "reply" ELSE "green"
      /\ left[r] = {} /\ left' = left /\ shown' = shown
  BY DEF Goto, TypeInv, TypeOK
<1>2. Reads(r)
  <2>1. req[r].kind \in Kinds
    BY RequestFacts DEF TypeInv
  <2> QED  BY <1>1, <2>1 DEF TypeInv, InPlace, PlacesOf, Kinds, Final, Reads
<1>3. Covers(r)'
  <2>1. Gathered(r)' = Gathered(r)
    BY <1>1 DEF Gathered
  <2>2. Covers(r)
    BY <1>1, <1>2 DEF Reader
  <2> QED  BY <2>1, <2>2 DEF Covers, Failing
<1>4. ShowsPrior(r)'
  <2> SUFFICES ASSUME req[r].kind = "context"
               PROVE  \A x \in executions :
                        \/ x \in prior'[r]
                        \/ /\ Cardinality(prior'[r]) = LastN
                           /\ \A y \in prior'[r] : y.created >= x.created
    BY DEF ShowsPrior
  <2>1. prior'[r] \in Newest(LastN, executions)
    BY DEF TypeInv, TypeOK
  <2> QED  BY <2>1, NewestCover, DomainAssumption DEF StoreInv
<1>5. \A s \in shown'[r] : SightIsWhole(r, s)'
  BY <1>1 DEF Reader, SightIsWhole
<1>6. pc'[r] \in {"reply", "done"} => ShowsGreen(r)'
  BY <1>1 DEF ShowsGreen
<1>7. left'[r] = {} /\ (shown'[r] # {} => Reads(r)')
  BY <1>1, <1>2 DEF Reads
<1> QED  BY <1>1, <1>3, <1>4, <1>5, <1>6, <1>7 DEF Reader

LEMMA ReaderEnds ==
  ASSUME TypeInv, StoreInv, OrderInv, NEW r \in Clients, Reader(r), ReadGreen(r)
  PROVE  Reader(r)'
<1> USE DEF ReadGreen, db, client
<1>1. pc[r] = "green" /\ pc'[r] = "reply" /\ left' = left /\ shown' = shown /\ prior' = prior
  BY DEF Goto, TypeInv, TypeOK
<1>2. Reads(r)
  <2>1. req[r].kind \in Kinds
    BY RequestFacts DEF TypeInv
  <2> QED  BY <1>1, <2>1 DEF TypeInv, InPlace, PlacesOf, Kinds, Final, Reads
<1>3. Covers(r)'
  <2>1. Gathered(r)' = Gathered(r)
    BY <1>1 DEF Gathered
  <2>2. Covers(r)
    BY <1>1, <1>2 DEF Reader
  <2> QED  BY <2>1, <2>2 DEF Covers, Failing
<1>a. ShowsPrior(r)'
  <2>1. ShowsPrior(r)
    BY <1>1, <1>2 DEF Reader
  <2> QED  BY <1>1, <2>1 DEF ShowsPrior
<1>4. ShowsGreen(r)'
  <2> SUFFICES ASSUME req[r].kind = "context", NEW x \in Passing
               PROVE  \E y \in green'[r] : y.created >= x.created
    BY DEF ShowsGreen, Passing
  <2>1. /\ green'[r] \subseteq Passing
        /\ Cardinality(green'[r]) = IF Cardinality(Passing) < 1 THEN Cardinality(Passing) ELSE 1
        /\ \A y \in green'[r], z \in Passing \ green'[r] : z.created <= y.created
    BY DEF Newest, TypeInv, TypeOK
  <2>2. IsFiniteSet(Passing)
    BY FS_Subset DEF StoreInv, Passing
  <2>3. Cardinality(Passing) \in Nat /\ Cardinality(Passing) # 0
    BY <2>2, FS_CardinalityType, FS_EmptySet
  <2>4. green'[r] # {}
    <3> SUFFICES ASSUME green'[r] = {} PROVE FALSE
      OBVIOUS
    <3>1. Cardinality(green'[r]) = 0
      BY FS_EmptySet
    <3> QED  BY <2>1, <2>3, <3>1
  <2>5. \A z \in Passing : z.created \in Nat
    BY DEF Passing, TypeInv, TypeOK, Execution
  <2>6. PICK y \in green'[r] : x \in green'[r] => y = x
    BY <2>4
  <2> QED  BY <2>1, <2>5, <2>6
<1>5. \A s \in shown'[r] : SightIsWhole(r, s)'
  BY <1>1 DEF Reader, SightIsWhole
<1>6. left'[r] = {} /\ (shown'[r] # {} => Reads(r)')
  BY <1>1, <1>2 DEF Reader, Reads
<1> QED  BY <1>1, <1>3, <1>a, <1>4, <1>5, <1>6 DEF Reader

LEMMA ReaderNext ==
  ASSUME TypeInv, OrderInv, StoreInv, StoreInv', Grows, [Next]_vars,
         NEW p \in Clients, Reader(p)
  PROVE  Reader(p)'
<1> USE DEF Goto, db, session, client, End, Close, TypeInv, TypeOK
<1>1. CASE UNCHANGED vars
  BY <1>1, ReaderStays DEF vars
<1>2. ASSUME NEW r \in Clients, Begin(r) PROVE Reader(p)'
  <2>1. CASE p # r
    BY <1>2, <2>1, ReaderStays DEF Begin
  <2>2. CASE p = r
    BY <1>2, <2>2, ReaderBegins
  <2> QED  BY <2>1, <2>2
<1>3. ASSUME NEW r \in Clients, FindLogin(r) PROVE Reader(p)'
  <2>1. CASE p # r
    BY <1>3, <2>1, ReaderStays DEF FindLogin
  <2>2. CASE p = r
    <3>1. ~ Reads(r)
      BY <1>3, NotReading DEF FindLogin
    <3> QED  BY <1>3, <2>2, <3>1, ReaderStays DEF FindLogin
  <2> QED  BY <2>1, <2>2
<1>4. ASSUME NEW r \in Clients, InsertUser(r) PROVE Reader(p)'
  <2>1. CASE p # r
    BY <1>4, <2>1, ReaderStays DEF InsertUser
  <2>2. CASE p = r
    <3>1. ~ Reads(r)
      BY <1>4, NotReading DEF InsertUser
    <3> QED  BY <1>4, <2>2, <3>1, ReaderStays DEF InsertUser
  <2> QED  BY <2>1, <2>2
<1>5. ASSUME NEW r \in Clients, LoseLogin(r) PROVE Reader(p)'
  <2>1. CASE p # r
    BY <1>5, <2>1, ReaderStays DEF LoseLogin
  <2>2. CASE p = r
    <3>1. ~ Reads(r)
      BY <1>5, NotReading DEF LoseLogin
    <3> QED  BY <1>5, <2>2, <3>1, ReaderStays DEF LoseLogin
  <2> QED  BY <2>1, <2>2
<1>6. ASSUME NEW r \in Clients, Deactivate(r) PROVE Reader(p)'
  <2>1. CASE p # r
    BY <1>6, <2>1, ReaderStays DEF Deactivate
  <2>2. CASE p = r
    <3>1. ~ Reads(r)
      BY <1>6, NotReading DEF Deactivate
    <3> QED  BY <1>6, <2>2, <3>1, ReaderStays DEF Deactivate
  <2> QED  BY <2>1, <2>2
<1>7. ASSUME NEW r \in Clients, CommitReport(r) PROVE Reader(p)'
  <2>1. CASE p # r
    BY <1>7, <2>1, ReaderStays DEF CommitReport
  <2>2. CASE p = r
    <3>1. ~ Reads(r)
      BY <1>7, NotReading DEF CommitReport
    <3> QED  BY <1>7, <2>2, <3>1, ReaderStays DEF CommitReport
  <2> QED  BY <2>1, <2>2
<1>8. ASSUME NEW r \in Clients, FindExecution(r) PROVE Reader(p)'
  <2>1. CASE p # r
    BY <1>8, <2>1, ReaderStays DEF FindExecution
  <2>2. CASE p = r
    <3>1. ~ Reads(r)
      BY <1>8, NotReading DEF FindExecution
    <3> QED  BY <1>8, <2>2, <3>1, ReaderStays DEF FindExecution
  <2> QED  BY <2>1, <2>2
<1>9. ASSUME NEW r \in Clients, PutBlob(r) PROVE Reader(p)'
  <2>1. CASE p # r
    BY <1>9, <2>1, ReaderStays DEF PutBlob
  <2>2. CASE p = r
    <3>1. ~ Reads(r)
      BY <1>9, NotReading DEF PutBlob
    <3> QED  BY <1>9, <2>2, <3>1, ReaderStays DEF PutBlob
  <2> QED  BY <2>1, <2>2
<1>10. ASSUME NEW r \in Clients, PutFails(r) PROVE Reader(p)'
  <2>1. CASE p # r
    BY <1>10, <2>1, ReaderStays DEF PutFails
  <2>2. CASE p = r
    BY <1>10, <2>2, ReaderStays DEF PutFails
  <2> QED  BY <2>1, <2>2
<1>11. ASSUME NEW r \in Clients, CommitArtifact(r) PROVE Reader(p)'
  <2>1. CASE p # r
    BY <1>11, <2>1, ReaderStays DEF CommitArtifact
  <2>2. CASE p = r
    <3>1. ~ Reads(r)
      BY <1>11, NotReading DEF CommitArtifact
    <3> QED  BY <1>11, <2>2, <3>1, ReaderStays DEF CommitArtifact
  <2> QED  BY <2>1, <2>2
<1>12. ASSUME NEW r \in Clients, ReadQueue(r) PROVE Reader(p)'
  <2>1. CASE p # r
    BY <1>12, <2>1, ReaderStays DEF ReadQueue
  <2>2. CASE p = r
    <3>1. ~ Reads(r)
      BY <1>12, NotReading DEF ReadQueue
    <3> QED  BY <1>12, <2>2, <3>1, ReaderStays DEF ReadQueue
  <2> QED  BY <2>1, <2>2
<1>13. ASSUME NEW r \in Clients, NextClaim(r) PROVE Reader(p)'
  <2>1. CASE p # r
    BY <1>13, <2>1, ReaderStays DEF NextClaim
  <2>2. CASE p = r
    <3>1. ~ Reads(r)
      BY <1>13, NotReading DEF NextClaim
    <3>2. shown[r] = {} /\ shown' = shown /\ executions' = executions
      BY <1>13, <2>2, <3>1 DEF NextClaim, Reader
    <3>3. left'[r] \subseteq left[r] /\ pc'[r] # "read" /\ req' = req
      BY <1>13 DEF NextClaim
    <3> QED  BY <2>2, <3>1, <3>2, <3>3 DEF Reader, Reads
  <2> QED  BY <2>1, <2>2
<1>14. ASSUME NEW r \in Clients, FindClaim(r) PROVE Reader(p)'
  <2>1. CASE p # r
    BY <1>14, <2>1, ReaderStays DEF FindClaim, Verified
  <2>2. CASE p = r
    <3>1. ~ Reads(r)
      BY <1>14, NotReading DEF FindClaim
    <3> QED  BY <1>14, <2>2, <3>1, ReaderStays DEF FindClaim, Verified
  <2> QED  BY <2>1, <2>2
<1>15. ASSUME NEW r \in Clients, FlushVerdict(r) PROVE Reader(p)'
  <2>1. CASE p # r
    BY <1>15, <2>1, ReaderStays DEF FlushVerdict
  <2>2. CASE p = r
    <3>1. ~ Reads(r)
      BY <1>15, NotReading DEF FlushVerdict
    <3> QED  BY <1>15, <2>2, <3>1, ReaderStays DEF FlushVerdict
  <2> QED  BY <2>1, <2>2
<1>16. ASSUME NEW r \in Clients, CommitVerdict(r) PROVE Reader(p)'
  <2>1. CASE p # r
    BY <1>16, <2>1, ReaderStays DEF CommitVerdict, Verified
  <2>2. CASE p = r
    <3>1. ~ Reads(r)
      BY <1>16, NotReading DEF CommitVerdict
    <3> QED  BY <1>16, <2>2, <3>1, ReaderStays DEF CommitVerdict, Verified
  <2> QED  BY <2>1, <2>2
<1>17. ASSUME NEW r \in Clients, Assess(r) PROVE Reader(p)'
  <2>1. CASE p # r
    BY <1>17, <2>1, ReaderStays DEF Assess
  <2>2. CASE p = r
    <3>1. ~ Reads(r)
      BY <1>17, NotReading DEF Assess
    <3> QED  BY <1>17, <2>2, <3>1, ReaderStays DEF Assess
  <2> QED  BY <2>1, <2>2
<1>18. ASSUME NEW r \in Clients, ReadExecutions(r) PROVE Reader(p)'
  <2>1. CASE p # r
    BY <1>18, <2>1, ReaderStays DEF ReadExecutions
  <2>2. CASE p = r
    BY <1>18, <2>2, ReaderLists
  <2> QED  BY <2>1, <2>2
<1>19. ASSUME NEW r \in Clients, ReadEvidence(r) PROVE Reader(p)'
  <2>1. CASE p # r
    BY <1>19, <2>1, ReaderStays DEF ReadEvidence
  <2>2. CASE p = r
    BY <1>19, <2>2, ReaderShows
  <2> QED  BY <2>1, <2>2
<1>20. ASSUME NEW r \in Clients, ReadGreen(r) PROVE Reader(p)'
  <2>1. CASE p # r
    BY <1>20, <2>1, ReaderStays DEF ReadGreen
  <2>2. CASE p = r
    BY <1>20, <2>2, ReaderEnds
  <2> QED  BY <2>1, <2>2
<1>21. ASSUME NEW r \in Clients, Reply(r) PROVE Reader(p)'
  <2>1. CASE p # r
    BY <1>21, <2>1, ReaderStays DEF Reply
  <2>2. CASE p = r
    BY <1>21, <2>2, ReaderStays DEF Reply
  <2> QED  BY <2>1, <2>2
<1>22. ASSUME NEW r \in Clients, Crash(r) PROVE Reader(p)'
  <2>1. CASE p # r
    BY <1>22, <2>1, ReaderStays DEF Crash
  <2>2. CASE p = r
    BY <1>22, <2>2, ReaderStays DEF Crash
  <2> QED  BY <2>1, <2>2
<1>23. ASSUME NEW r \in Clients, Retry(r) PROVE Reader(p)'
  <2>1. CASE p # r
    BY <1>23, <2>1, ReaderStays DEF Retry
  <2>2. CASE p = r
    BY <1>23, <2>2, ReaderStays DEF Retry
  <2> QED  BY <2>1, <2>2
<1>24. ASSUME NEW r \in Clients, ReadReasoning(r) PROVE Reader(p)'
  <2>1. CASE p # r
    BY <1>24, <2>1, ReaderStays DEF ReadReasoning
  <2>2. CASE p = r
    BY <1>24, <2>2, ReaderReasons
  <2> QED  BY <2>1, <2>2
<1> QED  BY <1>1, <1>2, <1>3, <1>4, <1>5, <1>6, <1>7, <1>8, <1>9, <1>10, <1>11, <1>12, <1>13,
            <1>14, <1>15, <1>16, <1>17, <1>18, <1>19, <1>20, <1>21, <1>22, <1>23, <1>24 DEF Next,
            Handle, Identify, File, Audit, Show

LEMMA WholeNext ==
  ASSUME TypeInv, OrderInv, WholeInv, [Next]_vars
  PROVE  WholeInv'
<1>1. StoreInv' /\ Grows
  BY StoreNext, TablesGrow DEF WholeInv
<1>2. ASSUME NEW p \in Clients PROVE Reader(p)'
  BY <1>1, <1>2, ReaderNext DEF WholeInv
<1> QED  BY <1>1, <1>2 DEF WholeInv

LEMMA WholeIsEnough ==
  ASSUME TypeInv, WholeInv
  PROVE  EvidenceIsWhole
<1>1. \A r \in Clients : \A s \in shown[r] : SightIsWhole(r, s)
  BY DEF WholeInv, Reader
<1>2. ASSUME NEW r \in Clients, pc[r] \in {"reply", "done"}, Reads(r)
      PROVE  /\ Covers(r) /\ ShowsPrior(r) /\ ShowsGreen(r)
             /\ Gathered(r) = {s.execution : s \in shown[r]}
  <2>1. Covers(r) /\ ShowsPrior(r) /\ ShowsGreen(r) /\ left[r] = {}
    BY <1>2 DEF WholeInv, Reader
  <2> QED  BY <2>1 DEF Gathered
<1>3. AnswersAreFresh
  <2> SUFFICES ASSUME NEW r \in Clients, pc[r] \in {"reply", "done"}, Reads(r)
               PROVE  /\ req[r].kind = "bundle" =>
                           \A x \in executions : x.ended <= began[r] =>
                             \E s \in shown[r] : s.execution = x
                      /\ req[r].kind = "context" =>
                           /\ \A x \in Failing : x.ended <= began[r] =>
                                \/ \E s \in shown[r] : s.execution = x
                                \/ /\ Cardinality({s.execution : s \in shown[r]}) = LastN
                                   /\ \A s \in shown[r] : s.execution.created >= x.created
                           /\ \A x \in executions : x.ended <= began[r] =>
                                \/ x \in prior[r]
                                \/ /\ Cardinality(prior[r]) = LastN
                                   /\ \A y \in prior[r] : y.created >= x.created
                           /\ \A x \in Passing : x.ended <= began[r] =>
                                \E y \in green[r] : y.created >= x.created
    BY DEF AnswersAreFresh, Reads
  <2>1. req[r].kind = "bundle" =>
          \A x \in executions : x.ended <= began[r] => \E s \in shown[r] : s.execution = x
    BY <1>2 DEF Covers
  <2>2. req[r].kind = "context" =>
          \A x \in Failing : x.ended <= began[r] =>
            \/ \E s \in shown[r] : s.execution = x
            \/ /\ Cardinality({s.execution : s \in shown[r]}) = LastN
               /\ \A s \in shown[r] : s.execution.created >= x.created
    BY <1>2 DEF Covers
  <2>3. req[r].kind = "context" =>
          \A x \in Passing : x.ended <= began[r] => \E y \in green[r] : y.created >= x.created
    BY <1>2 DEF ShowsGreen
  <2>4. req[r].kind = "context" =>
          \A x \in executions : x.ended <= began[r] =>
            \/ x \in prior[r]
            \/ Cardinality(prior[r]) = LastN /\ \A y \in prior[r] : y.created >= x.created
    BY <1>2 DEF ShowsPrior
  <2> QED  BY <2>1, <2>2, <2>3, <2>4
<1> QED  BY <1>1, <1>3 DEF EvidenceIsWhole, SightIsWhole, WholeInv, StoreInv

\* Whatever a reader is shown of a run is whole, with stored blobs, and an answered bundle
\* or context shows what was there when it was asked for, however uploads, reports,
\* crashes and retries fall between its statements.
THEOREM EvidenceIsWholeHolds == Spec => []EvidenceIsWhole
<1>1. Init => WholeInv
  BY StoreInit, ReaderInit DEF WholeInv
<1> QED  BY <1>1, TypeInit, TypeNext, OrderInit, OrderNext, WholeNext, WholeIsEnough, PTL DEF Spec

-----------------------------------------------------------------------------
(***************************************************************************)
(* Progress: no request waits for another, no step undoes progress, and an *)
(* auditor skips nothing that was on the list it read.  This is the safe   *)
(* half of ClaimsGetAudited; the rest is that the server keeps running.    *)
(***************************************************************************)

\* The guards of r's handler steps: an auditor's list has a top, and the executions a reader
\* may show can be put in the order of their times.
Ready(r) ==
  \/ pc[r] \in {"idle", "find", "put", "flush", "commit", "queue", "reply"}
  \/ pc[r] = "write" /\ req[r].kind \in {"register", "deactivate", "report", "assess"}
  \/ pc[r] = "look" /\ req[r].kind \in {"upload", "verify", "audit"}
  \/ /\ pc[r] = "next"
     /\ todo[r] = {} \/ ~ Authenticated(r) \/ \E c \in todo[r] : \A d \in todo[r] : c <= d
  \/ pc[r] = "read" /\ (req[r].kind = "bundle" \/ Newest(LastN, Failing) # {})
  \/ /\ pc[r] = "each"
     /\ left[r] # {} \/ req[r].kind = "bundle" \/ Newest(LastN, executions) # {}
  \/ pc[r] = "green" /\ Newest(1, Passing) # {}

\* A request that is not settled can always take a step.
NeverStuck == \A r \in Clients : pc[r] \notin Final => Ready(r)

\* How far a place is from the end of the client's attempt, an auditor's from the end of its
\* list or of the claim it is at.
Stage(p) ==
  CASE p \in {"find", "queue", "read", "look"} -> 6 [] p \in {"write", "put", "flush"} -> 5
    [] p \in {"commit", "each"} -> 4 [] p \in {"next", "green"} -> 3 [] p = "reply" -> 2
    [] p \in Final -> 1 [] p = "idle" -> 0

\* r uses up an attempt or one of the crashes, shows an execution, gets to a later stage, or,
\* as an auditor, takes a claim off its list; it reads the list anew when nothing is left.
Advances(r) ==
  \/ attempts[r] < attempts'[r]
  \/ crashes < crashes'
  \/ /\ attempts'[r] = attempts[r]
     /\ \/ /\ Stage(pc'[r]) < Stage(pc[r])
           /\ pc[r] # "queue" => todo'[r] \subseteq todo[r]
           /\ pc'[r] = "idle" => pc[r] = "failed" \/ todo[r] = {}
        \/ <<pc[r], pc'[r]>> = <<"next", "look">> /\ \E c \in todo[r] : todo'[r] = todo[r] \ {c}
        \/ <<pc[r], pc'[r]>> = <<"each", "each">> /\ \E x \in left[r] : left'[r] = left[r] \ {x}
        \/ pc[r] = "idle" /\ pc'[r] \in {"queue", "rejected"} /\ req[r].kind = "audit"

\* Nothing of that changes for s.
StaysPut(s) ==
  attempts'[s] = attempts[s] /\ pc'[s] = pc[s] /\ todo'[s] = todo[s] /\ left'[s] = left[s]

\* Every step takes one request further, and none further back.
EveryStepAdvances ==
  [][\E r \in Clients : Advances(r) /\ \A s \in Clients \ {r} : StaysPut(s)]_vars

\* The claims an auditor is at or has still to verify.
Assigned(r) ==
  todo[r] \cup (IF pc[r] \in {"look", "flush", "commit"} THEN {target[r]} ELSE {})

\* r has seen to claim c: there is a verdict of its own on it, unless it filed the claim.
SeenTo(r, c) ==
  \/ \E v \in verdicts : v.claim = c /\ v.auditor = req[r].by
  \/ OwnClaim(r, c)

\* An auditor that reads the list takes on every claim without a verdict, and is rid of one
\* only when it has seen to it, was deactivated or has died.
AuditorsSkipNothing ==
  [][\A r \in Clients, c \in claims :
       req[r].kind = "audit" =>
         /\ pc[r] = "queue" /\ pc'[r] = "next" /\ VerdictsOn(c.id) = {} => c.id \in Assigned(r)'
         /\ c.id \in Assigned(r) /\ c.id \notin Assigned(r)' =>
              \/ SeenTo(r, c.id)' \/ crashes < crashes'
              \/ pc'[r] = "rejected" /\ ~ Authenticated(r)]_vars

\* A verdict that was flushed is on the claim the request is at, by the one who asked.
Flushed ==
  \A r \in Clients : pc[r] = "commit" /\ req[r].kind # "upload" =>
    /\ mine[r] # {}
    /\ \A v \in mine[r] : v.claim = target[r] /\ v.auditor = req[r].by

\* Only an auditor that is working on a list has one.
Listed ==
  \A r \in Clients :
    req[r].kind # "audit" \/ pc[r] \notin {"next", "look", "flush", "commit"} => todo[r] = {}

\* Reports began before they were committed.
Dated == \A x \in executions : x.created <= clock

\* What the steps of one request do to its own place, and to the others'.
LEMMA OthersStay ==
  ASSUME TypeInv, NEW r \in Clients, Handle(r) \/ Crash(r) \/ Retry(r), NEW s \in Clients \ {r}
  PROVE  StaysPut(s) /\ target'[s] = target[s] /\ mine'[s] = mine[s]
<1> USE DEF Goto, db, session, client, End, Close, TypeInv, TypeOK, StaysPut
<1>1. CASE Begin(r) \/ Reply(r) \/ Crash(r) \/ Retry(r)
  BY <1>1 DEF Begin, Reply, Crash, Retry
<1>2. CASE FindLogin(r) \/ InsertUser(r) \/ LoseLogin(r) \/ Deactivate(r)
  BY <1>2 DEF FindLogin, InsertUser, LoseLogin, Deactivate
<1>3. CASE CommitReport(r) \/ FindExecution(r) \/ PutBlob(r) \/ PutFails(r) \/ CommitArtifact(r)
  BY <1>3 DEF CommitReport, FindExecution, PutBlob, PutFails, CommitArtifact
<1>4. CASE ReadQueue(r) \/ NextClaim(r) \/ FindClaim(r)
  BY <1>4 DEF ReadQueue, NextClaim, FindClaim, Verified
<1>5. CASE FlushVerdict(r) \/ CommitVerdict(r) \/ Assess(r)
  BY <1>5 DEF FlushVerdict, CommitVerdict, Verified, Assess
<1>6. CASE ReadExecutions(r) \/ ReadEvidence(r) \/ ReadReasoning(r) \/ ReadGreen(r)
  BY <1>6 DEF ReadExecutions, ReadEvidence, ReadReasoning, ReadGreen
<1> QED  BY <1>1, <1>2, <1>3, <1>4, <1>5, <1>6 DEF Handle, Identify, File, Audit, Show

LEMMA RequestsStay ==
  ASSUME [Next]_vars
  PROVE  req' = req
<1> USE DEF client, End, Verified
<1>1. ASSUME NEW r \in Clients, Begin(r) \/ Identify(r) \/ File(r) PROVE req' = req
  BY <1>1 DEF Begin, Identify, FindLogin, InsertUser, LoseLogin, Deactivate, File, CommitReport,
     FindExecution, PutBlob, PutFails, CommitArtifact
<1>2. ASSUME NEW r \in Clients, Audit(r) \/ Show(r) PROVE req' = req
  BY <1>2 DEF Audit, ReadQueue, NextClaim, FindClaim, FlushVerdict, CommitVerdict, Assess,
     Show, ReadExecutions, ReadEvidence, ReadReasoning, ReadGreen
<1>3. ASSUME NEW r \in Clients, Reply(r) \/ Crash(r) \/ Retry(r) PROVE req' = req
  BY <1>3 DEF Reply, Crash, Retry
<1> QED  BY <1>1, <1>2, <1>3 DEF Next, Handle, vars

\* A verdict waits for its commit only where FlushVerdict has put it.
LEMMA FlushedNext ==
  ASSUME TypeInv, Flushed, [Next]_vars
  PROVE  Flushed'
<1>0. req' = req
  BY RequestsStay
<1>1. CASE UNCHANGED vars
  BY <1>1 DEF vars, Flushed
<1>2. ASSUME NEW r \in Clients, Handle(r) \/ Crash(r) \/ Retry(r) PROVE Flushed'
  <2>1. ASSUME NEW s \in Clients \ {r}, pc'[s] = "commit", req[s].kind # "upload"
        PROVE  /\ mine'[s] # {}
               /\ \A v \in mine'[s] : v.claim = target'[s] /\ v.auditor = req[s].by
    <3>1. pc'[s] = pc[s] /\ mine'[s] = mine[s] /\ target'[s] = target[s]
      BY <1>2, OthersStay DEF StaysPut
    <3> QED  BY <2>1, <3>1 DEF Flushed
  <2>2. ASSUME pc'[r] = "commit", req[r].kind # "upload"
        PROVE  FlushVerdict(r)
    <3>0. /\ pc \in [Clients -> {"idle"} \cup Working \cup Final]
          /\ req[r].kind \in Kinds
          /\ pc[r] \in {"idle", "reply"} \cup Final \cup PlacesOf[req[r].kind]
      BY RequestFacts DEF TypeInv, TypeOK, InPlace
    <3> USE DEF Goto, End, Verified
    <3>1. ~ Begin(r) /\ ~ Reply(r) /\ ~ Crash(r) /\ ~ Retry(r)
      BY <2>2, <3>0 DEF Begin, Reply, Crash, Retry, Entry, Kinds
    <3>2. ~ Identify(r) /\ ~ Show(r)
      BY <2>2, <3>0 DEF Identify, FindLogin, InsertUser, LoseLogin, Deactivate, Show,
         ReadExecutions, ReadEvidence, ReadReasoning, ReadGreen
    <3>3. ~ File(r)
      BY <2>2, <3>0 DEF File, CommitReport, FindExecution, PutBlob, PutFails, CommitArtifact,
         PlacesOf, Kinds, Final
    <3>4. ~ ReadQueue(r) /\ ~ NextClaim(r) /\ ~ FindClaim(r) /\ ~ CommitVerdict(r) /\ ~ Assess(r)
      BY <2>2, <3>0 DEF ReadQueue, NextClaim, FindClaim, CommitVerdict, Assess
    <3> QED  BY <1>2, <3>1, <3>2, <3>3, <3>4 DEF Handle, Audit
  <2>3. ASSUME FlushVerdict(r)
        PROVE  /\ mine'[r] # {} /\ target'[r] = target[r]
               /\ \A v \in mine'[r] : v.claim = target[r] /\ v.auditor = req[r].by
    <3> DEFINE new == [id |-> sequence + 1, claim |-> target[r], auditor |-> req[r].by,
                       verdict |-> req[r].value, began |-> began[r], ended |-> 0]
    <3>1. mine'[r] = {new} /\ target' = target
      BY <2>3 DEF FlushVerdict, TypeInv, TypeOK
    <3>2. new.claim = target[r] /\ new.auditor = req[r].by
      OBVIOUS
    <3> HIDE DEF new
    <3> QED  BY <3>1, <3>2
  <2> QED  BY <1>0, <2>1, <2>2, <2>3 DEF Flushed
<1> QED  BY <1>1, <1>2 DEF Next

\* A list ends with the auditor's round.
LEMMA ListedNext ==
  ASSUME TypeInv, Listed, [Next]_vars
  PROVE  Listed'
<1>0. req' = req
  BY RequestsStay
<1>1. CASE UNCHANGED vars
  BY <1>1 DEF vars, Listed
<1>2. ASSUME NEW r \in Clients, Handle(r) \/ Crash(r) \/ Retry(r) PROVE Listed'
  <2>0. /\ pc \in [Clients -> {"idle"} \cup Working \cup Final]
        /\ todo \in [Clients -> SUBSET Nat] /\ req[r].kind \in Kinds
        /\ pc[r] \in {"idle", "reply"} \cup Final \cup PlacesOf[req[r].kind]
        /\ req[r].kind # "audit" \/ pc[r] \notin {"next", "look", "flush", "commit"}
             => todo[r] = {}
    BY RequestFacts DEF TypeInv, TypeOK, InPlace, Listed
  <2>1. \A s \in Clients \ {r} : pc'[s] = pc[s] /\ todo'[s] = todo[s]
    BY <1>2, OthersStay DEF StaysPut
  <2>2. req[r].kind # "audit" \/ pc'[r] \notin {"next", "look", "flush", "commit"} => todo'[r] = {}
    <3> USE <2>0 DEF Goto, End, Close, Verified, db, session, client
    <3>1. CASE Begin(r) \/ Reply(r) \/ Retry(r)
      BY <3>1 DEF Begin, Reply, Retry
    <3>2. CASE Identify(r) \/ Assess(r) \/ Crash(r)
      BY <3>2 DEF Identify, FindLogin, InsertUser, LoseLogin, Deactivate, Assess, Crash
    <3>3. CASE File(r)
      BY <3>3 DEF File, CommitReport, FindExecution, PutBlob, PutFails, CommitArtifact,
         PlacesOf, Kinds, Final
    <3>4. CASE ReadQueue(r) \/ NextClaim(r)
      BY <3>4 DEF ReadQueue, NextClaim, PlacesOf, Kinds, Final
    <3>5. CASE FindClaim(r) \/ FlushVerdict(r)
      BY <3>5 DEF FindClaim, FlushVerdict
    <3>6. CASE CommitVerdict(r)
      BY <3>6 DEF CommitVerdict
    <3>7. CASE Show(r)
      BY <3>7 DEF Show, ReadExecutions, ReadEvidence, ReadReasoning, ReadGreen, PlacesOf, Kinds,
         Final
    <3> QED  BY <1>2, <3>1, <3>2, <3>3, <3>4, <3>5, <3>6, <3>7 DEF Handle, Audit
  <2> QED  BY <1>0, <2>1, <2>2 DEF Listed
<1> QED  BY <1>1, <1>2 DEF Next

\* A report's time is the clock when its call began.
LEMMA DatedNext ==
  ASSUME TypeInv, OrderInv, Dated, [Next]_vars
  PROVE  Dated'
<1>0. clock \in Nat /\ executions \subseteq Execution /\ \A r \in Clients : began[r] \in Nat
  BY DEF TypeInv, TypeOK
<1>1. ASSUME NEW r \in Clients, CommitReport(r) PROVE Dated'
  <2>1. /\ clock' = clock + 1
        /\ \A x \in executions' : x \in executions \/ x.created = began[r]
    BY <1>1 DEF CommitReport
  <2>2. began[r] <= clock /\ \A x \in executions : x.created \in Nat /\ x.created <= clock
    BY <1>0 DEF OrderInv, Dated, Execution
  <2> QED  BY <1>0, <2>1, <2>2 DEF Dated
<1>2. CASE executions' = executions /\ clock' \in {clock, clock + 1}
  <2>1. \A x \in executions : x.created \in Nat /\ x.created <= clock
    BY <1>0 DEF Dated, Execution
  <2> QED  BY <1>0, <1>2, <2>1 DEF Dated
<1> USE DEF db, session, client, End, Verified
<1>3. ASSUME NEW r \in Clients, Begin(r) \/ Identify(r) \/ Show(r) PROVE Dated'
  BY <1>2, <1>3 DEF Begin, Identify, FindLogin, InsertUser, LoseLogin, Deactivate, Show,
     ReadExecutions, ReadEvidence, ReadReasoning, ReadGreen
<1>4. ASSUME NEW r \in Clients, FindExecution(r) \/ PutBlob(r) \/ PutFails(r) \/ CommitArtifact(r)
      PROVE  Dated'
  BY <1>2, <1>4 DEF FindExecution, PutBlob, PutFails, CommitArtifact
<1>5. ASSUME NEW r \in Clients, Audit(r) PROVE Dated'
  BY <1>2, <1>5 DEF Audit, ReadQueue, NextClaim, FindClaim, FlushVerdict, CommitVerdict, Assess
<1>6. ASSUME NEW r \in Clients, Reply(r) \/ Crash(r) \/ Retry(r) PROVE Dated'
  BY <1>2, <1>6 DEF Reply, Crash, Retry
<1>7. CASE UNCHANGED vars
  BY <1>2, <1>7 DEF vars
<1> QED  BY <1>1, <1>3, <1>4, <1>5, <1>6, <1>7 DEF Next, Handle, File

LEMMA ProgressAlways == Spec => [](TypeInv /\ StoreInv /\ Flushed /\ Listed /\ Dated)
<1>1. Init => Flushed /\ Listed /\ Dated
  <2> SUFFICES ASSUME Init PROVE Flushed /\ Listed /\ Dated
    OBVIOUS
  <2>1. Flushed /\ Listed
    BY DEF Init, Flushed, Listed
  <2>2. \A x \in executions : x.created = 0
    BY DEF Init
  <2> QED  BY <2>1, <2>2 DEF Init, Dated
<1> QED  BY <1>1, TypeInit, TypeNext, OrderInit, OrderNext, StoreInit, StoreNext, FlushedNext,
            ListedNext, DatedNext, PTL DEF Spec

\* A set of numbers has a least one.
LEMMA Least ==
  ASSUME NEW T \in SUBSET Nat, T # {}
  PROVE  \E m \in T : \A k \in T : m <= k
<1>1. PICK m \in T : \A k \in T : ~ (<<k, m>> \in OpToRel(<, Nat))
  BY WFMin, NatLessThanWellFounded
<1>2. \A i, j \in Nat : i < j => <<i, j>> \in OpToRel(<, Nat)
  BY Zenon DEF OpToRel
<1>3. \A k \in T : ~ (k < m)
  BY <1>1, <1>2, Zenon
<1> QED  BY <1>3

\* Of some executions one began last.
LEMMA LastBegun ==
  ASSUME TypeOK, Dated, NEW S \in SUBSET executions, S # {}
  PROVE  \E y \in S : \A x \in S : x.created <= y.created
<1>1. clock \in Nat /\ \A x \in S : x.created \in Nat /\ x.created <= clock
  BY DEF TypeOK, Dated, Execution
<1> DEFINE T == {clock - x.created : x \in S}
<1>2. T \in SUBSET Nat /\ T # {}
  BY <1>1
<1>3. PICK m \in T : \A k \in T : m <= k
  <2> HIDE DEF T
  <2> QED  BY <1>2, Least
<1>4. PICK y \in S : m = clock - y.created
  OBVIOUS
<1>5. ASSUME NEW x \in S PROVE x.created <= y.created
  <2>1. clock - y.created <= clock - x.created
    BY <1>3, <1>4
  <2> QED  BY <1>1, <2>1
<1> QED  BY <1>5

\* Finitely many executions can be put in the order of their times: the newest k of them exist
\* for every k, since they do with one less and one of the others began last.
LEMMA NewestExist ==
  ASSUME TypeOK, Dated, NEW S \in SUBSET executions, IsFiniteSet(S), NEW n \in Nat
  PROVE  Newest(n, S) # {}
<1>0. Cardinality(S) \in Nat
  BY FS_CardinalityType
<1> DEFINE Top(T, k) == /\ T \subseteq S /\ Cardinality(T) = k
                          /\ \A x \in T, y \in S \ T : y.created <= x.created
           Missing == {k \in Nat : k <= Cardinality(S) /\ ~ \E T : Top(T, k)}
<1>1. Missing = {}
  <2> SUFFICES ASSUME Missing # {} PROVE FALSE
    OBVIOUS
  <2>1. PICK k \in Missing : \A j \in Missing : k <= j
    <3>1. Missing \in SUBSET Nat
      OBVIOUS
    <3> HIDE DEF Missing
    <3> QED  BY <3>1, Least
  <2>2. k # 0
    <3>1. Top({}, 0)
      BY FS_EmptySet
    <3> HIDE DEF Top
    <3> QED  BY <3>1
  <2>3. /\ k \in Nat /\ k - 1 \in Nat /\ k - 1 <= Cardinality(S) /\ k - 1 \notin Missing
        /\ k <= Cardinality(S)
    <3>1. k \in Nat /\ k <= Cardinality(S)
      OBVIOUS
    <3>2. ~ k <= k - 1
      BY <3>1
    <3>3. k - 1 \notin Missing
      <4> HIDE DEF Missing
      <4> QED  BY <2>1, <3>2
    <3> HIDE DEF Missing
    <3> QED  BY <1>0, <2>2, <3>1, <3>3
  <2>4. PICK T : Top(T, k - 1)
    <3> HIDE DEF Top
    <3> QED  BY <2>3
  <2>5. IsFiniteSet(T) /\ S \ T # {}
    <3>1. IsFiniteSet(T)
      BY <2>4, FS_Subset
    <3>2. S # T
      BY <1>0, <2>3, <2>4
    <3> QED  BY <2>4, <3>1, <3>2
  <2>6. PICK y \in S \ T : \A x \in S \ T : x.created <= y.created
    BY <2>5, LastBegun
  <2>7. Cardinality(T \cup {y}) = k
    <3>1. Cardinality(T \cup {y}) = Cardinality(T) + 1
      BY <2>5, <2>6, FS_AddElement
    <3>2. Cardinality(T) = k - 1
      BY <2>4
    <3>3. k \in Nat
      BY <2>3
    <3> HIDE DEF Missing, Top
    <3> QED  BY <3>1, <3>2, <3>3
  <2>8. Top(T \cup {y}, k)
    BY <2>4, <2>6, <2>7
  <2> HIDE DEF Top
  <2> QED  BY <2>1, <2>8
<1> DEFINE k == IF Cardinality(S) < n THEN Cardinality(S) ELSE n
<1>2. k \in Nat /\ k <= Cardinality(S)
  BY <1>0
<1>3. PICK T : Top(T, k)
  <2> HIDE DEF Top, k
  <2> QED  BY <1>1, <1>2
<1>4. T \in Newest(n, S)
  BY <1>3 DEF Newest
<1> QED  BY <1>4

\* No request waits for another, and no read of the auditors and readers is without a result:
\* the list has a top, the failures a newest.
THEOREM NobodyGetsStuck == Spec => []NeverStuck
<1>1. TypeInv /\ StoreInv /\ Dated => NeverStuck
  <2> SUFFICES ASSUME TypeInv, StoreInv, Dated, NEW r \in Clients, pc[r] \notin Final
               PROVE  Ready(r)
    BY DEF NeverStuck
  <2>0. /\ req[r].kind \in Kinds /\ pc[r] \in {"idle"} \cup Working \cup Final
        /\ pc[r] \in {"idle", "reply"} \cup Final \cup PlacesOf[req[r].kind]
        /\ todo[r] \subseteq Nat /\ LastN \in Nat
    BY RequestFacts, DomainAssumption DEF TypeInv, TypeOK, InPlace
  <2>1. CASE pc[r] \in {"idle", "find", "put", "flush", "commit", "queue", "reply"}
    BY <2>1 DEF Ready
  <2>2. CASE pc[r] \in {"write", "look"}
    BY <2>0, <2>2 DEF Ready, PlacesOf, Kinds, Final
  <2>3. CASE pc[r] = "next"
    BY <2>0, <2>3, Least DEF Ready
  <2>4. CASE pc[r] \in {"read", "each", "green"}
    <3>1. Failing \in SUBSET executions /\ Passing \in SUBSET executions
      BY DEF Failing, Passing
    <3>2. IsFiniteSet(Failing) /\ IsFiniteSet(Passing) /\ IsFiniteSet(executions)
      BY <3>1, FS_Subset DEF StoreInv
    <3>3. /\ Newest(LastN, Failing) # {} /\ Newest(LastN, executions) # {}
          /\ Newest(1, Passing) # {}
      BY <2>0, <3>1, <3>2, NewestExist DEF TypeInv
    <3> QED  BY <2>4, <3>3 DEF Ready
  <2> QED  BY <2>0, <2>1, <2>2, <2>3, <2>4 DEF Working
<1> QED  BY <1>1, ProgressAlways, PTL

\* Each step uses up something there is only so much of: attempts, crashes, the places of a
\* handler, the claims of a list, the executions of an answer.  Auditors begin their lists
\* anew, but only when they are through with them.
THEOREM EveryStepAdvancesHolds == Spec => EveryStepAdvances
<1> DEFINE A == \E r \in Clients : Advances(r) /\ \A s \in Clients \ {r} : StaysPut(s)
<1>1. ASSUME TypeInv, NEW r \in Clients, Handle(r) \/ Crash(r) \/ Retry(r)
      PROVE  Advances(r)
  <2>0. /\ pc \in [Clients -> {"idle"} \cup Working \cup Final]
        /\ attempts \in [Clients -> 0..MaxAttempts] /\ crashes \in 0..MaxCrashes
        /\ todo \in [Clients -> SUBSET Nat] /\ left \in [Clients -> SUBSET Execution]
        /\ req[r].kind \in Kinds
        /\ pc[r] \in {"idle", "reply"} \cup Final \cup PlacesOf[req[r].kind]
    BY <1>1, RequestFacts DEF TypeInv, TypeOK, InPlace
  <2> USE <2>0 DEF Goto, End, Close, Verified, db, session, client, Advances, Stage, Final
  <2>1. CASE Begin(r)
    BY <2>1, DomainAssumption DEF Begin, Entry
  <2>2. CASE FindLogin(r) \/ InsertUser(r) \/ LoseLogin(r) \/ Deactivate(r)
    BY <2>2 DEF FindLogin, InsertUser, LoseLogin, Deactivate
  <2>3. CASE CommitReport(r) \/ FindExecution(r) \/ PutBlob(r)
    BY <2>3 DEF CommitReport, FindExecution, PutBlob
  <2>4. CASE PutFails(r) \/ CommitArtifact(r) \/ Assess(r)
    BY <2>4 DEF PutFails, CommitArtifact, Assess
  <2>5. CASE ReadQueue(r)
    BY <2>5 DEF ReadQueue
  <2>6. CASE NextClaim(r)
    BY <2>6 DEF NextClaim
  <2>7. CASE FindClaim(r) \/ FlushVerdict(r)
    BY <2>7 DEF FindClaim, FlushVerdict
  <2>8. CASE CommitVerdict(r)
    BY <2>8 DEF CommitVerdict
  <2>9. CASE ReadExecutions(r) \/ ReadEvidence(r) \/ ReadReasoning(r) \/ ReadGreen(r)
    BY <2>9 DEF ReadExecutions, ReadEvidence, ReadReasoning, ReadGreen
  <2>10. CASE Crash(r)
    BY <2>10 DEF Crash
  <2>11. CASE Reply(r) \/ Retry(r)
    BY <2>11 DEF Reply, Retry
  <2> QED  BY <1>1, <2>1, <2>2, <2>3, <2>4, <2>5, <2>6, <2>7, <2>8, <2>9, <2>10, <2>11
           DEF Handle, Identify, File, Audit, Show
<1>2. ASSUME TypeInv, NEW r \in Clients, Handle(r) \/ Crash(r) \/ Retry(r),
             NEW s \in Clients \ {r}
      PROVE  StaysPut(s)
  BY <1>2, OthersStay
<1>3. TypeInv /\ [Next]_vars => [A]_vars
  BY <1>1, <1>2 DEF Next
<1> QED  BY <1>3, TypeInit, TypeNext, PTL DEF EveryStepAdvances, Spec

\* What r's own step does to its list: it goes on unless r is through with the claim, has
\* died, or is not let in.
LEMMA ListGoesOn ==
  ASSUME TypeInv, Flushed, Listed, NEW r \in Clients, Handle(r) \/ Crash(r) \/ Retry(r),
         req[r].kind = "audit", req' = req, NEW c \in claims, c.id \in Assigned(r),
         c.id \notin Assigned(r)'
  PROVE  \/ SeenTo(r, c.id)' \/ crashes < crashes'
         \/ pc'[r] = "rejected" /\ ~ Authenticated(r)
<1>0. /\ pc \in [Clients -> {"idle"} \cup Working \cup Final] /\ crashes \in Nat
      /\ todo \in [Clients -> SUBSET Nat] /\ target \in [Clients -> Nat \cup {None}]
      /\ pc[r] \in {"idle", "reply"} \cup Final \cup {"queue", "next", "look", "flush", "commit"}
  BY DEF TypeInv, TypeOK, InPlace, PlacesOf
<1> USE <1>0 DEF Goto, End, Close, Verified, db, session, client, Assigned
<1>1. CASE Begin(r)
  BY <1>1 DEF Begin, Final
<1>2. CASE Identify(r) \/ Show(r) \/ Retry(r)
  BY <1>2 DEF Identify, FindLogin, InsertUser, LoseLogin, Deactivate, Show, ReadExecutions,
     ReadEvidence, ReadReasoning, ReadGreen, Retry, Final
<1>3. CASE File(r) \/ Assess(r) \/ Reply(r)
  BY <1>3 DEF File, CommitReport, FindExecution, PutBlob, PutFails, CommitArtifact, Assess,
     Reply, Final
<1>4. CASE ReadQueue(r)
  <2>1. pc[r] = "queue" /\ todo[r] = {}
    BY <1>4 DEF ReadQueue, Listed
  <2> QED  BY <2>1
<1>5. CASE NextClaim(r)
  BY <1>5 DEF NextClaim
<1>6. CASE FindClaim(r)
  <2>1. pc[r] = "look" /\ claims' = claims
    BY <1>6 DEF FindClaim
  <2>2. OwnClaim(r, target[r]) \/ ~ \E d \in claims : d.id = target[r]
    BY <1>6, <2>1 DEF FindClaim
  <2>3. c.id = target[r]
    BY <1>6, <2>1, <2>2 DEF FindClaim
  <2> QED  BY <2>1, <2>2, <2>3 DEF SeenTo, OwnClaim
<1>7. CASE FlushVerdict(r)
  BY <1>7 DEF FlushVerdict
<1>8. CASE CommitVerdict(r)
  <2>1. /\ pc[r] = "commit" /\ todo'[r] = todo[r]
        /\ verdicts' = verdicts \cup {[v EXCEPT !.ended = clock + 1] : v \in mine[r]}
    BY <1>8 DEF CommitVerdict
  <2>2. c.id = target[r]
    BY <2>1
  <2>3. PICK v \in mine[r] : v.claim = target[r] /\ v.auditor = req[r].by
    BY <2>1 DEF Flushed
  <2>4. v \in Verdict
    BY DEF TypeInv, TypeOK
  <2> DEFINE seen == [v EXCEPT !.ended = clock + 1]
  <2>5. seen \in verdicts' /\ seen.claim = c.id /\ seen.auditor = req[r].by
    BY <2>1, <2>2, <2>3, <2>4 DEF Verdict
  <2> HIDE DEF seen
  <2> QED  BY <2>5 DEF SeenTo
<1>9. CASE Crash(r)
  BY <1>9 DEF Crash
<1> QED  BY <1>1, <1>2, <1>3, <1>4, <1>5, <1>6, <1>7, <1>8, <1>9 DEF Handle, Audit

\* No claim gets lost on the way from the list to its verdict, whoever else verifies it, files
\* new ones or withdraws users meanwhile.
THEOREM AuditorsSkipNothingHolds == Spec => AuditorsSkipNothing
<1> DEFINE A == \A r \in Clients, c \in claims :
                  req[r].kind = "audit" =>
                    /\ pc[r] = "queue" /\ pc'[r] = "next" /\ VerdictsOn(c.id) = {}
                         => c.id \in Assigned(r)'
                    /\ c.id \in Assigned(r) /\ c.id \notin Assigned(r)' =>
                         \/ SeenTo(r, c.id)' \/ crashes < crashes'
                         \/ pc'[r] = "rejected" /\ ~ Authenticated(r)
<1>1. ASSUME TypeInv, Flushed, Listed, NEW p \in Clients, Handle(p) \/ Crash(p) \/ Retry(p),
             NEW r \in Clients, NEW c \in claims, req[r].kind = "audit"
      PROVE  /\ pc[r] = "queue" /\ pc'[r] = "next" /\ VerdictsOn(c.id) = {}
                  => c.id \in Assigned(r)'
             /\ c.id \in Assigned(r) /\ c.id \notin Assigned(r)' =>
                  \/ SeenTo(r, c.id)' \/ crashes < crashes'
                  \/ pc'[r] = "rejected" /\ ~ Authenticated(r)
  <2>0. /\ req' = req /\ pc \in [Clients -> {"idle"} \cup Working \cup Final]
        /\ todo \in [Clients -> SUBSET Nat]
    BY <1>1, RequestsStay DEF Next, TypeInv, TypeOK
  <2>1. CASE p # r
    <3>1. pc'[r] = pc[r] /\ todo'[r] = todo[r] /\ target'[r] = target[r]
      BY <1>1, <2>1, OthersStay DEF StaysPut
    <3> QED  BY <3>1 DEF Assigned
  <2>2. CASE p = r
    <3>1. pc[r] = "queue" /\ pc'[r] = "next" => ReadQueue(r)
      <4> USE <2>0 DEF Goto, End, Verified
      <4>1. pc[r] = "queue" /\ pc'[r] = "next" =>
              ~ (Begin(r) \/ Identify(r) \/ File(r) \/ Show(r) \/ Reply(r) \/ Crash(r) \/ Retry(r))
        BY DEF Begin, Identify, FindLogin, InsertUser, LoseLogin, Deactivate, File, CommitReport,
           FindExecution, PutBlob, PutFails, CommitArtifact, Show, ReadExecutions, ReadEvidence,
           ReadReasoning,
           ReadGreen, Reply, Crash, Retry
      <4>2. pc[r] = "queue" =>
              ~ (NextClaim(r) \/ FindClaim(r) \/ FlushVerdict(r) \/ CommitVerdict(r) \/ Assess(r))
        BY DEF NextClaim, FindClaim, FlushVerdict, CommitVerdict, Assess
      <4> QED  BY <1>1, <2>2, <4>1, <4>2 DEF Handle, Audit
    <3>2. ReadQueue(r) /\ VerdictsOn(c.id) = {} => c.id \in Assigned(r)'
      BY <2>0 DEF ReadQueue, Unverified, Assigned
    <3> QED  BY <1>1, <2>0, <2>2, <3>1, <3>2, ListGoesOn
  <2> QED  BY <2>1, <2>2
<1>2. TypeInv /\ Flushed /\ Listed /\ [Next]_vars => [A]_vars
  BY <1>1 DEF Next
<1> QED  BY <1>2, ProgressAlways, PTL DEF AuditorsSkipNothing, Spec

=============================================================================
