--------------------------- MODULE PlanningProofs ---------------------------
(***************************************************************************)
(* Proofs about Planning: type correctness, what a repeated selection may  *)
(* leave, whole requirements, lasting coverage, complete removals and      *)
(* queued reruns, for any planners, requests, cases, plans and bounds.     *)
(*                                                                         *)
(* The tables only gain rows stamped with the commit that brings them, so  *)
(* that what a request has read stays true of the rows there were when it  *)
(* read.  Every invariant is of that form: one part for each request in    *)
(* flight, about the rows that were committed when it looked.              *)
(***************************************************************************)
EXTENDS Planning, SequenceTheorems, FiniteSetTheorems, WellFoundedInduction, TLAPS

Step(r) == Handle(r) \/ Crash(r) \/ Retry(r)

\* The places of the handler of each kind of request.
PlacesOf ==
  [add |-> {"pin", "find"}, require |-> {"pin", "find"}, cover |-> {"pin", "find"},
   remove |-> {"known", "linked", "delete"}, rerun |-> {"scan"}, bump |-> {"write"},
   assign |-> {"write"}, close |-> {"write"}, reopen |-> {"write"}]

Placed(r) ==
  /\ pc[r] \in {"idle", "reply"} \cup Final \cup PlacesOf[req[r].kind]
  /\ pc[r] = "idle" => attempts[r] < MaxAttempts

\* What was looked up stays: plans, specifications and builds are constant, and no
\* requirement is deleted.
Resolved(r) ==
  /\ req[r].kind = "add" /\ pc[r] \in {"pin", "find"} => req[r].on \in Plans
  /\ req[r].kind = "require" /\ pc[r] \in {"pin", "find"} => req[r].on \in Specs
  /\ req[r].kind = "cover" /\ pc[r] \in {"pin", "find"} => \E q \in reqs : q.id = req[r].on
  /\ req[r].kind = "rerun" /\ pc[r] = "scan" => req[r].on \in Builds
  /\ req[r].kind = "bump" /\ pc[r] = "write" => req[r].cases[1] \in Cases
  /\ req[r].kind = "remove" /\ pc[r] \in {"known", "linked", "delete"} => todo[r] = req[r].cases
  /\ pc[r] = "find" => todo[r] # << >> /\ Head(todo[r]) \in Cases

\* The uncommitted rows are of the request's kind; a closed session has none.
Holds(r) ==
  /\ pc[r] \in {"idle", "reply"} \cup Final => mine[r] = {}
  /\ req[r].kind = "add" => mine[r] \subseteq Link /\ \A x \in mine[r] : x.order < order[r]
  /\ req[r].kind \in {"require", "cover"} => mine[r] \subseteq Coverage
  /\ req[r].kind = "rerun" =>
       /\ mine[r] \subseteq Assignment
       /\ \A a \in mine[r] : a.case \in Cases \cup Elements(req[r].cases)
       /\ Elements(todo[r]) \subseteq Cases \cup Elements(req[r].cases)
  /\ req[r].kind \notin {"add", "require", "cover", "rerun"} => mine[r] = {}

OrdersBounded == \E n \in Nat : \A x \in links : x.order <= n

TypeInv ==
  /\ TypeOK /\ OrdersBounded
  /\ \A r \in Planners : Placed(r) /\ Resolved(r) /\ Holds(r)

-----------------------------------------------------------------------------
(***************************************************************************)
(* Lists, orders and frames                                                *)
(***************************************************************************)

\* What the assumptions say of the request of a client.
LEMMA RequestFacts ==
  ASSUME TypeOK, NEW r \in Planners
  PROVE  /\ req[r].kind \in Kinds
         /\ req[r].cases \in Seq(Cases \cup {"ghost"})
         /\ req[r].platform \in Platforms \cup {None}
         /\ req[r].kind \in {"remove", "bump", "assign", "close", "reopen"}
              => Len(req[r].cases) = 1
         /\ req[r].kind = "rerun" => Len(req[r].cases) <= 1
BY RequestsAssumption DEF TypeOK

\* A list that is not empty is its head and its tail.
LEMMA ListFacts ==
  ASSUME NEW S, NEW s \in Seq(S)
  PROVE  /\ Elements(s) \subseteq S
         /\ Elements(<< >>) = {}
         /\ s # << >> => /\ Head(s) \in S /\ Tail(s) \in Seq(S)
                         /\ Elements(s) = {Head(s)} \cup Elements(Tail(s))
<1>1. Elements(s) \subseteq S
  BY LenProperties DEF Elements
<1>2. Elements(<< >>) = {}
  BY DEF Elements
<1>3. ASSUME s # << >> PROVE /\ Head(s) \in S /\ Tail(s) \in Seq(S)
                            /\ Elements(s) = {Head(s)} \cup Elements(Tail(s))
  <2>1. /\ Head(s) \in S /\ Tail(s) \in Seq(S) /\ Len(Tail(s)) = Len(s) - 1
        /\ \A i \in 1..Len(Tail(s)) : Tail(s)[i] = s[i + 1]
    BY <1>3, HeadTailProperties
  <2>2. /\ Len(s) \in Nat /\ DOMAIN s = 1..Len(s) /\ DOMAIN Tail(s) = 1..(Len(s) - 1)
        /\ Head(s) = s[1] /\ Len(s) # 0
    BY <1>3, <2>1, LenProperties, EmptySeq
  <2>3. ASSUME NEW i \in 1..Len(s) PROVE s[i] \in {Head(s)} \cup Elements(Tail(s))
    <3>1. CASE i = 1
      BY <2>2, <3>1
    <3>2. CASE i # 1
      <4>1. i - 1 \in 1..(Len(s) - 1) /\ (i - 1) + 1 = i
        BY <2>2, <3>2
      <4>2. Tail(s)[i - 1] = s[i]
        BY <2>1, <4>1
      <4> QED  BY <2>2, <4>1, <4>2 DEF Elements
    <3> QED  BY <3>1, <3>2
  <2>4. ASSUME NEW i \in 1..(Len(s) - 1) PROVE Tail(s)[i] \in Elements(s)
    <3>1. Tail(s)[i] = s[i + 1] /\ i + 1 \in 1..Len(s)
      BY <2>1, <2>2
    <3> QED  BY <2>2, <3>1 DEF Elements
  <2>5. Head(s) \in Elements(s)
    BY <2>2 DEF Elements
  <2>6. Elements(s) \subseteq {Head(s)} \cup Elements(Tail(s))
    BY <2>2, <2>3 DEF Elements
  <2>7. Elements(Tail(s)) \subseteq Elements(s)
    BY <2>2, <2>4 DEF Elements
  <2> QED  BY <2>1, <2>5, <2>6, <2>7
<1> QED  BY <1>1, <1>2, <1>3

\* A list of one case is that case.
LEMMA SingleFacts ==
  ASSUME NEW S, NEW s \in Seq(S), Len(s) = 1
  PROVE  s # << >> /\ Head(s) = s[1] /\ s[1] \in S /\ Elements(s) = {s[1]}
<1>1. DOMAIN s = 1..1 /\ s[1] \in S
  <2>1. s \in [1..Len(s) -> S]
    BY LenProperties
  <2>2. s \in [1..1 -> S] /\ 1 \in 1..1
    BY <2>1
  <2> QED  BY <2>2
<1>2. s # << >>
  BY EmptySeq
<1> QED  BY <1>1, <1>2 DEF Elements

\* The order rows come in is a list of each of them.
LEMMA ListingFacts ==
  ASSUME NEW S, S \subseteq Cases, NEW list \in Listings(S)
  PROVE  list \in Seq(Cases) /\ Elements(list) = S
<1>1. IsFiniteSet(S)
  BY FS_Subset, DomainAssumption
<1>2. Cardinality(S) \in Nat
  BY <1>1, FS_CardinalityType
<1>3. list \in [1..Cardinality(S) -> Cases]
  BY DEF Listings
<1> QED  BY <1>2, <1>3, SeqDef DEF Listings

\* The order of a new link is greater than that of any link the plan has.
LEMMA NextOrderFacts ==
  ASSUME TypeOK, OrdersBounded, NEW p
  PROVE  NextOrder(p) \in Nat /\ \A x \in links : x.plan = p => x.order < NextOrder(p)
<1> DEFINE S == {0} \cup {x.order : x \in {y \in links : y.plan = p}}
           T == {n \in Nat : \A i \in S : i <= n}
<1>1. S \subseteq Nat
  BY DEF TypeOK, Link
<1>2. PICK n \in Nat : \A x \in links : x.order <= n
  BY DEF OrdersBounded
<1>3. n \in T
  BY <1>2
<1>4. PICK m \in T : \A k \in T : ~ (<<k, m>> \in OpToRel(<, Nat))
  BY <1>3, WFMin, NatLessThanWellFounded
<1>5. \A k \in T : m <= k
  <2>1. \A i, j \in Nat : i < j => <<i, j>> \in OpToRel(<, Nat)
    BY Zenon DEF OpToRel
  <2>2. \A k \in T : ~ (k < m)
    BY <1>4, <2>1, Zenon
  <2>3. T \subseteq Nat
    OBVIOUS
  <2> HIDE DEF T
  <2> QED  BY <2>2, <2>3
<1>6. m \in S
  <2>1. m \in Nat /\ \A i \in S : i <= m
    OBVIOUS
  <2>2. 0 \in S
    OBVIOUS
  <2>3. CASE m = 0
    BY <2>2, <2>3
  <2>4. CASE m # 0
    <3>1. SUFFICES ASSUME m \notin S PROVE FALSE
      OBVIOUS
    <3>2. m - 1 \in Nat
      BY <2>1, <2>4
    <3>3. \A i \in S : i <= m - 1
      <4> HIDE DEF S
      <4> QED  BY <1>1, <2>1, <3>1
    <3>4. m - 1 \in T
      BY <3>2, <3>3
    <3>5. m <= m - 1
      BY <1>5, <3>4
    <3> QED  BY <2>1, <3>5
  <2> QED  BY <2>3, <2>4
<1>7. Max(S) \in S /\ \A i \in S : Max(S) >= i
  <2>1. \A i \in S : m >= i
    <3>1. m \in Nat /\ \A i \in S : i <= m
      OBVIOUS
    <3> HIDE DEF S, T
    <3> QED  BY <1>1, <3>1
  <2> HIDE DEF S, T
  <2> QED  BY <1>6, <2>1 DEF Max
<1> DEFINE M == Max(S)
<1>8. NextOrder(p) = M + 1
  BY DEF NextOrder
<1>11. M \in Nat /\ \A i \in S : M >= i
  <2> HIDE DEF S, T
  <2> QED  BY <1>1, <1>7
<1>9. ASSUME NEW x \in links, x.plan = p PROVE x.order < NextOrder(p)
  <2>1. x.order \in S
    BY <1>9
  <2>2. x.order \in Nat /\ M >= x.order
    BY <1>1, <1>11, <2>1
  <2> HIDE DEF S, T, M
  <2> QED  BY <1>8, <1>11, <2>2
<1>10. NextOrder(p) \in Nat
  <2> HIDE DEF S, T, M
  <2> QED  BY <1>8, <1>11
<1> QED  BY <1>9, <1>10

\* A step of one request leaves the others where they are.
LEMMA OthersStay ==
  ASSUME TypeOK, NEW r \in Planners, Step(r), NEW s \in Planners, s # r
  PROVE  /\ req' = req
         /\ pc'[s] = pc[s] /\ began'[s] = began[s] /\ todo'[s] = todo[s]
         /\ version'[s] = version[s] /\ order'[s] = order[s] /\ mine'[s] = mine[s]
         /\ doomed'[s] = doomed[s] /\ attempts'[s] = attempts[s]
<1> USE DEF TypeOK, Goto, Close, Rollback, db, session, client
<1>1. CASE Begin(r)
  BY <1>1 DEF Begin
<1>2. CASE Pin(r)
  BY <1>2 DEF Pin
<1>3. CASE Refuse(r)
  BY <1>3 DEF Refuse
<1>4. CASE FindLink(r)
  BY <1>4 DEF FindLink
<1>5. CASE FindCoverage(r)
  BY <1>5 DEF FindCoverage
<1>6. CASE Ambiguous(r)
  BY <1>6 DEF Ambiguous
<1>7. CASE CommitRows(r)
  BY <1>7 DEF CommitRows
<1>8. CASE ReadVersions(r)
  BY <1>8 DEF ReadVersions
<1>9. CASE ReadLinks(r)
  BY <1>9 DEF ReadLinks
<1>10. CASE DeleteLinks(r)
  BY <1>10 DEF DeleteLinks
<1>11. CASE Bump(r)
  BY <1>11 DEF Bump
<1>12. CASE ScanCase(r)
  BY <1>12 DEF ScanCase
<1>13. CASE FailKey(r)
  BY <1>13 DEF FailKey
<1>14. CASE CommitReruns(r)
  BY <1>14 DEF CommitReruns
<1>15. CASE CreateAssignment(r)
  BY <1>15 DEF CreateAssignment
<1>16. CASE UpdateAssignment(r)
  BY <1>16 DEF UpdateAssignment
<1>17. CASE NoAssignment(r)
  BY <1>17 DEF NoAssignment
<1>18. CASE Reply(r)
  BY <1>18 DEF Reply
<1>19. CASE Crash(r)
  BY <1>19 DEF Crash
<1>20. CASE Retry(r)
  BY <1>20 DEF Retry
<1> QED  BY <1>1, <1>2, <1>3, <1>4, <1>5, <1>6, <1>7, <1>8, <1>9, <1>10, <1>11, <1>12, <1>13,
            <1>14, <1>15, <1>16, <1>17, <1>18, <1>19, <1>20
          DEF Step, Handle, Select, Remove, Enqueue

-----------------------------------------------------------------------------
(***************************************************************************)
(* Type correctness                                                        *)
(***************************************************************************)

LEMMA TypeInit == Init => TypeInv
<1> SUFFICES ASSUME Init PROVE TypeInv
  OBVIOUS
<1>1. \A r \in Planners : req[r] \in Requests /\ req[r].kind \in Kinds
  BY RequestsAssumption DEF Init
<1>2. PICK k \in 1..MaxVersion : versions = [c \in Cases |-> k]
  BY DEF Init
<1>3. versions \in [Cases -> Nat \ {0}]
  BY <1>2, DomainAssumption
<1>4. reqs \subseteq Requirement
  BY DomainAssumption DEF Init, Requirement, ReqIds
<1>5. /\ links \subseteq Link /\ coverage \subseteq Coverage
      /\ queue \subseteq Assignment /\ {a.case : a \in queue} \subseteq Cases
      /\ \A x \in links : x.order <= 1
  <2>1. CASE links = {} /\ coverage = {} /\ queue = {}
    BY <2>1
  <2>2. CASE ~ (links = {} /\ coverage = {} /\ queue = {})
    <3>1. PICK b \in Builds, c \in Cases :
            /\ links = {[plan |-> PlanOf[b], case |-> c, version |-> 1, platform |-> None,
                         order |-> 1, began |-> 0, looked |-> 0, ended |-> 0]}
            /\ coverage = {[req |-> FirstReq, case |-> c, version |-> 1, looked |-> 0,
                            ended |-> 0]}
            /\ queue = {[type |-> "rerun", build |-> b, case |-> c, status |-> "done",
                         looked |-> 0, ended |-> 0, changed |-> 0, reopened |-> FALSE]}
      BY <2>2 DEF Init
    <3>2. PlanOf[b] \in Plans /\ FirstReq \in ReqIds
      BY DomainAssumption DEF ReqIds
    <3>3. links \subseteq Link /\ \A x \in links : x.order <= 1
      BY <3>1, <3>2 DEF Link
    <3>4. coverage \subseteq Coverage
      BY <3>1, <3>2 DEF Coverage
    <3>5. queue \subseteq Assignment /\ {a.case : a \in queue} \subseteq Cases
      BY <3>1 DEF Assignment
    <3> QED  BY <3>3, <3>4, <3>5
  <2> QED  BY <2>1, <2>2
<1>6. TypeOK
  BY <1>3, <1>4, <1>5, EmptySeq, DomainAssumption DEF Init, TypeOK
<1>7. OrdersBounded
  BY <1>5 DEF OrdersBounded
<1>8. \A r \in Planners : Placed(r) /\ Resolved(r)
  BY <1>1, DomainAssumption DEF Init, Placed, Resolved
<1>9. \A r \in Planners : Holds(r)
  BY <1>1, ListFacts, EmptySeq DEF Init, Holds
<1> QED  BY <1>6, <1>7, <1>8, <1>9 DEF TypeInv

\* What a step must show: the parts of the invariant about the others stay.
LEMMA TypeFrame ==
  ASSUME TypeInv, NEW r \in Planners, Step(r), reqs \subseteq reqs',
         TypeOK', OrdersBounded', (Placed(r) /\ Resolved(r) /\ Holds(r))'
  PROVE  TypeInv'
<1>1. ASSUME NEW s \in Planners, s # r PROVE (Placed(s) /\ Resolved(s) /\ Holds(s))'
  <2>1. /\ req' = req
        /\ pc'[s] = pc[s] /\ began'[s] = began[s] /\ todo'[s] = todo[s]
        /\ version'[s] = version[s] /\ order'[s] = order[s] /\ mine'[s] = mine[s]
        /\ doomed'[s] = doomed[s] /\ attempts'[s] = attempts[s]
    BY <1>1, OthersStay DEF TypeInv
  <2>2. Placed(s) /\ Resolved(s) /\ Holds(s)
    BY DEF TypeInv
  <2>3. Placed(s)'
    BY <2>1, <2>2 DEF Placed
  <2>4. Resolved(s)'
    BY <2>1, <2>2 DEF Resolved
  <2>5. Holds(s)'
    BY <2>1, <2>2 DEF Holds
  <2> QED  BY <2>3, <2>4, <2>5
<1> QED  BY <1>1 DEF TypeInv

\* The end of a session leaves nothing to describe.
LEMMA ClosedFrame ==
  ASSUME TypeInv, NEW r \in Planners, Step(r), Close(r), UNCHANGED <<req, attempts>>,
         Goto(r, "reply") \/ Goto(r, "rejected") \/ Goto(r, "failed"),
         reqs \subseteq reqs', OrdersBounded',
         versions' \in [Cases -> Nat \ {0}], links' \subseteq Link, reqs' \subseteq Requirement,
         coverage' \subseteq Coverage,
         queue' \subseteq Assignment /\ {a.case : a \in queue'} \subseteq Cases,
         clock' \in Nat, crashes' \in 0..MaxCrashes
  PROVE  TypeInv'
<1> USE DEF Close, Goto
<1>1. TypeOK'
  BY EmptySeq DEF TypeInv, TypeOK, Working, Final
<1>2. req[r].kind \in Kinds
  BY RequestFacts DEF TypeInv
<1>3. (Placed(r) /\ Resolved(r))'
  BY DEF TypeInv, TypeOK, Placed, Resolved, Final
<1>4. mine'[r] = {} /\ Elements(todo'[r]) = {} /\ req' = req
  BY ListFacts, EmptySeq DEF TypeInv, TypeOK
<1>5. Holds(r)'
  BY <1>4 DEF Holds
<1> QED  BY <1>1, <1>3, <1>5, TypeFrame

\* The rows of a request get the time of its commit and keep their kind.
LEMMA StampedFacts ==
  ASSUME TypeInv, NEW r \in Planners
  PROVE  /\ req[r].kind = "add" => Stamped(r) \subseteq Link
         /\ req[r].kind \in {"require", "cover"} => Stamped(r) \subseteq Coverage
<1>1. clock + 1 \in Nat
  BY DEF TypeInv, TypeOK
<1>2. ASSUME mine[r] \subseteq Link PROVE Stamped(r) \subseteq Link
  BY <1>1, <1>2 DEF Stamped, Link
<1>3. ASSUME mine[r] \subseteq Coverage PROVE Stamped(r) \subseteq Coverage
  BY <1>1, <1>3 DEF Stamped, Coverage
<1> QED  BY <1>2, <1>3 DEF TypeInv, Holds

\* The requirement a request attaches coverage to has an identifier.
LEMMA CoveringFacts ==
  ASSUME TypeInv, NEW r \in Planners, req[r].kind \in {"require", "cover"},
         pc[r] \in {"pin", "find"}
  PROVE  Covering(r) \in ReqIds
<1>1. attempts[r] \in Nat
  BY DomainAssumption DEF TypeInv, TypeOK
<1>2. CASE req[r].kind = "require"
  BY <1>1, <1>2 DEF Covering, ReqIds
<1>3. CASE req[r].kind = "cover"
  <2>1. \E q \in reqs : q.id = req[r].on
    BY <1>3 DEF TypeInv, Resolved
  <2> QED  BY <1>3, <2>1 DEF Covering, TypeInv, TypeOK, Requirement
<1> QED  BY <1>2, <1>3

LEMMA TypeStep ==
  ASSUME TypeInv, NEW r \in Planners, Step(r)
  PROVE  TypeInv'
<1>0. /\ TypeOK /\ OrdersBounded /\ Placed(r) /\ Resolved(r) /\ Holds(r)
      /\ req[r].kind \in Kinds /\ req[r].cases \in Seq(Cases \cup {"ghost"})
      /\ req[r].platform \in Platforms \cup {None}
      /\ Elements(req[r].cases) \subseteq Cases \cup {"ghost"}
  BY RequestFacts, ListFacts DEF TypeInv
<1> USE DEF db, session, client
<1>1. CASE Begin(r)
  <2> USE DEF Begin, Goto
  <2>1. UNCHANGED <<versions, links, reqs, coverage, queue, clock, req, mine>>
    BY <1>1
  <2>2. attempts' \in [Planners -> 0..MaxAttempts]
    BY <1>0, <1>1, DomainAssumption DEF TypeOK, Placed
  <2>3. began' \in [Planners -> Nat]
    BY <1>0, <1>1 DEF TypeOK
  <2>4. CASE Unresolved(req[r])
    <3>1. TypeOK'
      BY <1>0, <1>1, <2>2, <2>3, <2>4 DEF TypeOK, Final
    <3>2. (Placed(r) /\ Resolved(r))'
      BY <1>0, <1>1, <2>4 DEF TypeOK, Placed, Resolved, Final
    <3>3. Holds(r)'
      BY <1>0, <1>1, <2>4 DEF TypeOK, Holds, Final
    <3> QED  BY <1>0, <2>1, <3>1, <3>2, <3>3, TypeFrame DEF OrdersBounded
  <2>5. CASE ~ Unresolved(req[r])
    <3> DEFINE reads == req[r].kind = "rerun" /\ req[r].cases = << >>
               planned == {x.case : x \in {y \in links : y.plan = PlanOf[req[r].on]}}
    <3>1. PICK list \in IF reads THEN Listings(planned) ELSE {req[r].cases} :
            todo' = [todo EXCEPT ![r] = list]
      BY <1>1, <2>5
    <3>2. planned \subseteq Cases
      BY <1>0 DEF TypeOK, Link
    <3>3. list \in Seq(Cases \cup {"ghost"})
      <4>1. CASE reads
        <5>1. list \in Listings(planned)
          BY <3>1, <4>1
        <5> HIDE DEF planned
        <5>2. list \in Seq(Cases)
          BY <3>2, <5>1, ListingFacts
        <5>3. /\ Len(list) \in Nat /\ list \in [1..Len(list) -> Cases \cup {"ghost"}]
          BY <5>2, LenProperties
        <5> QED  BY <5>3, SeqDef
      <4>2. CASE ~ reads
        BY <1>0, <3>1, <4>2
      <4> QED  BY <4>1, <4>2
    <3>4. Elements(list) \subseteq Cases \cup Elements(req[r].cases)
      <4>1. CASE reads
        <5>1. list \in Listings(planned)
          BY <3>1, <4>1
        <5> HIDE DEF planned
        <5> QED  BY <3>2, <5>1, ListingFacts
      <4>2. CASE ~ reads
        BY <3>1, <4>2
      <4> QED  BY <4>1, <4>2
    <3>5. ~ reads => list = req[r].cases
      BY <3>1
    <3>6. todo'[r] = list /\ todo' \in [Planners -> Seq(Cases \cup {"ghost"})]
      BY <1>0, <3>1, <3>3 DEF TypeOK
    <3> HIDE DEF reads, planned
    <3>7. pc' = [pc EXCEPT ![r] = Entry[req[r].kind]]
      BY <1>1, <2>5
    <3>8. Entry[req[r].kind] \in {"pin", "known", "scan", "write"}
      BY <1>0 DEF Entry, Kinds
    <3>9. order' \in [Planners -> Nat]
      <4>1. order' = [order EXCEPT ![r] = NextOrder(req[r].on)] \/ order' = order
        BY <1>1, <2>5
      <4>2. NextOrder(req[r].on) \in Nat
        BY <1>0, NextOrderFacts
      <4> QED  BY <1>0, <4>1, <4>2 DEF TypeOK
    <3>10. TypeOK'
      BY <1>0, <1>1, <2>1, <2>2, <2>3, <3>6, <3>7, <3>8, <3>9 DEF TypeOK, Working
    <3>11. Placed(r)'
      BY <1>0, <2>1, <3>7 DEF TypeOK, Placed, PlacesOf, Entry, Kinds
    <3>12. Resolved(r)'
      BY <1>0, <2>1, <2>5, <3>5, <3>6, <3>7
      DEF TypeOK, Resolved, Unresolved, NoPlan, NoBuild, Entry, Kinds, reads
    <3>13. Holds(r)'
      <4>1. mine[r] = {}
        BY <1>0, <1>1 DEF Holds
      <4> QED  BY <2>1, <3>4, <3>6, <4>1 DEF Holds
    <3> QED  BY <1>0, <2>1, <3>10, <3>11, <3>12, <3>13, TypeFrame DEF OrdersBounded
  <2> QED  BY <2>4, <2>5
<1>2. CASE Pin(r)
  <2> USE DEF Pin, Goto
  <2>1. /\ todo[r] \in Seq(Cases \cup {"ghost"}) /\ Head(todo[r]) \in Cases
    BY <1>0, <1>2 DEF TypeOK, Refused
  <2>2. TypeOK'
    BY <1>0, <1>2, <2>1 DEF TypeOK, Working
  <2>3. req[r].kind \in {"add", "require", "cover"}
    BY <1>0, <1>2 DEF Placed, PlacesOf, Kinds, Final
  <2>5. Placed(r)'
    BY <1>0, <1>2, <2>3 DEF TypeOK, Placed, PlacesOf
  <2>6. Resolved(r)'
    BY <1>0, <1>2, <2>1, <2>3 DEF TypeOK, Resolved
  <2>4. Holds(r)'
    BY <1>0, <1>2 DEF TypeOK, Holds, Final
  <2> QED  BY <1>0, <1>2, <2>2, <2>4, <2>5, <2>6, TypeFrame DEF OrdersBounded
<1>3. CASE Refuse(r)
  BY <1>0, <1>3, ClosedFrame DEF Refuse, Rollback, TypeOK, OrdersBounded
<1>4. CASE FindLink(r)
  <2> USE DEF FindLink, Goto
  <2>1. /\ req[r].on \in Plans /\ Head(todo[r]) \in Cases /\ todo[r] # << >>
        /\ todo[r] \in Seq(Cases \cup {"ghost"})
    BY <1>0, <1>4 DEF Resolved, TypeOK
  <2>2. Tail(todo[r]) \in Seq(Cases \cup {"ghost"})
    BY <2>1, ListFacts
  <2>3. NewLink(r, Head(todo[r])) \in Link
    BY <1>0, <2>1 DEF NewLink, Link, TypeOK
  <2>4. /\ mine[r] \subseteq Link /\ order[r] \in Nat
        /\ \A x \in mine[r] : x.order \in Nat /\ x.order < order[r]
    BY <1>0, <1>4 DEF Holds, TypeOK, Link
  <2>5. mine'[r] \subseteq Link /\ mine' \in [Planners -> SUBSET (Link \cup Coverage \cup Assignment)]
    BY <1>0, <1>4, <2>3, <2>4 DEF TypeOK
  <2>6. order' \in [Planners -> Nat]
    BY <1>0, <1>4 DEF TypeOK
  <2>7. TypeOK'
    BY <1>0, <1>4, <2>2, <2>5, <2>6 DEF TypeOK, Working
  <2>8. (Placed(r) /\ Resolved(r))'
    BY <1>0, <1>4 DEF TypeOK, Placed, Resolved, PlacesOf, Kinds, Final
  <2>9. \A x \in mine'[r] : x.order < order'[r]
    <3>1. NewLink(r, Head(todo[r])).order = order[r]
      BY DEF NewLink
    <3>2. CASE LinksTo(r, Head(todo[r])) = {}
      <4>1. mine'[r] = mine[r] \cup {NewLink(r, Head(todo[r]))} /\ order'[r] = order[r] + 1
        BY <1>0, <1>4, <3>2 DEF TypeOK
      <4> QED  BY <2>4, <3>1, <4>1
    <3>3. CASE LinksTo(r, Head(todo[r])) # {}
      BY <1>0, <1>4, <2>4, <3>3 DEF TypeOK
    <3> QED  BY <3>2, <3>3
  <2>10. Holds(r)'
    BY <1>0, <1>4, <2>5, <2>9 DEF TypeOK, Holds, Final
  <2> QED  BY <1>0, <1>4, <2>7, <2>8, <2>10, TypeFrame DEF OrdersBounded
<1>5. CASE FindCoverage(r)
  <2> USE DEF FindCoverage, Goto
  <2>0. req[r].kind \in {"require", "cover"}
    BY <1>0, <1>5 DEF Placed, PlacesOf, Kinds, Final
  <2>1. /\ Head(todo[r]) \in Cases /\ todo[r] # << >>
        /\ todo[r] \in Seq(Cases \cup {"ghost"}) /\ Covering(r) \in ReqIds
    BY <1>0, <1>5, <2>0, CoveringFacts DEF Resolved, TypeOK
  <2>2. Tail(todo[r]) \in Seq(Cases \cup {"ghost"})
    BY <2>1, ListFacts
  <2>3. NewCoverage(r, Head(todo[r])) \in Coverage
    BY <1>0, <2>1 DEF NewCoverage, Coverage, TypeOK
  <2>4. mine[r] \subseteq Coverage
    BY <1>0, <2>0 DEF Holds
  <2>5. mine'[r] \subseteq Coverage /\ mine' \in [Planners -> SUBSET (Link \cup Coverage \cup Assignment)]
    BY <1>0, <1>5, <2>3, <2>4 DEF TypeOK
  <2>6. TypeOK'
    BY <1>0, <1>5, <2>2, <2>5 DEF TypeOK, Working
  <2>7. (Placed(r) /\ Resolved(r))'
    BY <1>0, <1>5, <2>0 DEF TypeOK, Placed, Resolved, PlacesOf, Kinds, Final
  <2>8. Holds(r)'
    BY <1>0, <1>5, <2>0, <2>5 DEF TypeOK, Holds, Final
  <2> QED  BY <1>0, <1>5, <2>6, <2>7, <2>8, TypeFrame DEF OrdersBounded
<1>6. CASE Ambiguous(r)
  BY <1>0, <1>6, ClosedFrame DEF Ambiguous, Rollback, TypeOK, OrdersBounded
<1>7. CASE CommitRows(r)
  <2> USE DEF CommitRows
  <2>0. req[r].kind \in {"add", "require", "cover"}
    BY <1>0, <1>7 DEF Placed, PlacesOf, Kinds, Final
  <2>1. links' \subseteq Link /\ coverage' \subseteq Coverage
    BY <1>0, <1>7, <2>0, StampedFacts DEF TypeOK
  <2>2. reqs \subseteq reqs' /\ reqs' \subseteq Requirement
    <3>1. req[r].kind = "require" => Covering(r) \in ReqIds /\ req[r].on \in Specs
      BY <1>0, <1>7, CoveringFacts DEF Resolved
    <3> QED  BY <1>0, <1>7, <3>1 DEF TypeOK, Requirement
  <2>3. OrdersBounded'
    <3>1. PICK n \in Nat : \A x \in links : x.order <= n
      BY <1>0 DEF OrdersBounded
    <3>2. order[r] \in Nat /\ links \subseteq Link
      BY <1>0 DEF TypeOK
    <3>3. \A x \in links' : x.order \in Nat /\ x.order <= n + order[r]
      <4>1. \A x \in links : x.order \in Nat /\ x.order <= n + order[r]
        BY <3>1, <3>2 DEF Link
      <4>2. CASE req[r].kind = "add"
        <5>1. \A x \in mine[r] : x \in Link /\ x.order \in Nat /\ x.order < order[r]
          BY <1>0, <4>2 DEF Holds, Link
        <5>2. \A x \in Stamped(r) : x.order \in Nat /\ x.order < order[r]
          <6> SUFFICES ASSUME NEW x \in Stamped(r) PROVE x.order \in Nat /\ x.order < order[r]
            OBVIOUS
          <6>1. PICK y \in mine[r] : x = [y EXCEPT !.ended = clock + 1]
            BY DEF Stamped
          <6>2. x.order = y.order
            BY <5>1, <6>1 DEF Link
          <6> QED  BY <5>1, <6>2
        <5>3. links' = links \cup Stamped(r)
          BY <1>7, <4>2
        <5> QED  BY <3>1, <3>2, <4>1, <5>2, <5>3
      <4>3. CASE req[r].kind # "add"
        BY <1>7, <4>1, <4>3
      <4> QED  BY <4>2, <4>3
    <3>4. n + order[r] \in Nat
      BY <3>2
    <3> QED  BY <3>3, <3>4 DEF OrdersBounded
  <2>4. /\ Close(r) /\ Goto(r, "reply") /\ UNCHANGED <<req, attempts, crashes>>
        /\ UNCHANGED <<versions, queue>> /\ clock' = clock + 1
    BY <1>7
  <2>5. clock' \in Nat
    BY <1>0, <2>4 DEF TypeOK
  <2> HIDE DEF CommitRows
  <2> QED  BY <1>0, <2>1, <2>2, <2>3, <2>4, <2>5, ClosedFrame DEF TypeOK
<1>8. CASE ReadVersions(r)
  <2> USE DEF ReadVersions, Goto
  <2>0. req[r].kind = "remove"
    BY <1>0, <1>8 DEF Placed, PlacesOf, Kinds, Final
  <2>1. TypeOK'
    BY <1>0, <1>8 DEF TypeOK, Working
  <2>2. (Placed(r) /\ Resolved(r))'
    BY <1>0, <1>8, <2>0 DEF TypeOK, Placed, Resolved, PlacesOf, Final
  <2>3. Holds(r)'
    BY <1>0, <1>8, <2>0 DEF TypeOK, Holds, Final
  <2> QED  BY <1>0, <1>8, <2>1, <2>2, <2>3, TypeFrame DEF OrdersBounded
<1>9. CASE ReadLinks(r)
  <2> USE DEF ReadLinks, Goto
  <2>0. req[r].kind = "remove"
    BY <1>0, <1>9 DEF Placed, PlacesOf, Kinds, Final
  <2>1. TypeOK'
    BY <1>0, <1>9 DEF TypeOK, Working
  <2>2. (Placed(r) /\ Resolved(r))'
    BY <1>0, <1>9, <2>0 DEF TypeOK, Placed, Resolved, PlacesOf, Final
  <2>3. Holds(r)'
    BY <1>0, <1>9, <2>0 DEF TypeOK, Holds, Final
  <2> QED  BY <1>0, <1>9, <2>1, <2>2, <2>3, TypeFrame DEF OrdersBounded
<1>10. CASE DeleteLinks(r)
  <2>1. /\ Close(r) /\ Goto(r, "reply") /\ UNCHANGED <<req, attempts, crashes>>
        /\ UNCHANGED <<versions, reqs, coverage, queue>> /\ links' \subseteq links
        /\ clock' = clock + 1
    BY <1>10 DEF DeleteLinks
  <2>2. clock' \in Nat
    BY <1>0, <2>1 DEF TypeOK
  <2>3. OrdersBounded'
    BY <1>0, <2>1 DEF OrdersBounded
  <2> QED  BY <1>0, <2>1, <2>2, <2>3, ClosedFrame DEF TypeOK
<1>11. CASE Bump(r)
  <2>1. req[r].cases[1] \in Cases
    BY <1>0, <1>11 DEF Bump, Resolved
  <2>2. /\ Close(r) /\ Goto(r, "reply") /\ UNCHANGED <<req, attempts, crashes>>
        /\ UNCHANGED <<links, reqs, coverage, queue>> /\ clock' = clock + 1
    BY <1>11 DEF Bump
  <2>3. versions' \in [Cases -> Nat \ {0}] /\ clock' \in Nat
    BY <1>0, <1>11, <2>1, <2>2 DEF Bump, TypeOK
  <2>4. OrdersBounded'
    BY <1>0, <2>2 DEF OrdersBounded
  <2> QED  BY <1>0, <2>2, <2>3, <2>4, ClosedFrame DEF TypeOK
<1>12. CASE ScanCase(r)
  <2> USE DEF ScanCase, Goto
  <2> DEFINE new == NewAssignment(r, "rerun", Head(todo[r]))
  <2>0. req[r].kind = "rerun"
    BY <1>0, <1>12 DEF Placed, PlacesOf, Kinds, Final
  <2>1. /\ Head(todo[r]) \in Cases \cup {"ghost"} /\ Tail(todo[r]) \in Seq(Cases \cup {"ghost"})
        /\ Head(todo[r]) \in Elements(todo[r]) /\ Elements(Tail(todo[r])) \subseteq Elements(todo[r])
    <3>1. todo[r] \in Seq(Cases \cup {"ghost"})
      BY <1>0 DEF TypeOK
    <3>2. /\ Head(todo[r]) \in Cases \cup {"ghost"} /\ Tail(todo[r]) \in Seq(Cases \cup {"ghost"})
          /\ Elements(todo[r]) = {Head(todo[r])} \cup Elements(Tail(todo[r]))
      BY <1>12, <3>1, ListFacts
    <3> QED  BY <3>2
  <2>2. /\ new \in Assignment /\ new.case = Head(todo[r])
    BY <1>0, <1>12, <2>0, <2>1 DEF NewAssignment, Assignment, TypeOK, Resolved
  <2> HIDE DEF new
  <2>3. /\ mine'[r] \subseteq mine[r] \cup {new} /\ todo'[r] = Tail(todo[r])
    BY <1>0, <1>12 DEF TypeOK, new
  <2>4. mine[r] \subseteq Assignment /\ \A a \in mine[r] : a.case \in Cases \cup Elements(req[r].cases)
    BY <1>0, <2>0 DEF Holds
  <2>5. Elements(todo[r]) \subseteq Cases \cup Elements(req[r].cases)
    BY <1>0, <2>0 DEF Holds
  <2>6. mine'[r] \subseteq Assignment /\ \A a \in mine'[r] : a.case \in Cases \cup Elements(req[r].cases)
    BY <2>1, <2>2, <2>3, <2>4, <2>5
  <2>7. mine' \in [Planners -> SUBSET (Link \cup Coverage \cup Assignment)]
    BY <1>0, <1>12, <2>6 DEF TypeOK
  <2>8. TypeOK'
    BY <1>0, <1>12, <2>1, <2>7 DEF TypeOK
  <2>9. (Placed(r) /\ Resolved(r))'
    BY <1>0, <1>12, <2>0 DEF TypeOK, Placed, Resolved
  <2>10. Holds(r)'
    BY <1>0, <1>12, <2>0, <2>1, <2>3, <2>5, <2>6 DEF Holds, Final
  <2> QED  BY <1>0, <1>12, <2>8, <2>9, <2>10, TypeFrame DEF OrdersBounded
<1>13. CASE FailKey(r)
  BY <1>0, <1>13, ClosedFrame DEF FailKey, Rollback, TypeOK, OrdersBounded
<1>14. CASE CommitReruns(r)
  <2> DEFINE Stamp(a) == [a EXCEPT !.ended = clock + 1, !.changed = clock + 1]
             new == {Stamp(a) : a \in mine[r]}
  <2>0. req[r].kind = "rerun"
    <3>1. pc[r] = "scan"
      BY <1>14 DEF CommitReruns
    <3> QED  BY <1>0, <3>1 DEF Placed, PlacesOf, Kinds, Final
  <2>1. clock + 1 \in Nat
    BY <1>0 DEF TypeOK
  <2>2. \A a \in mine[r] : a \in Assignment /\ a.case \in Cases
    BY <1>0, <1>14, <2>0 DEF CommitReruns, Holds
  <2>3. \A a \in mine[r] : Stamp(a) \in Assignment /\ Stamp(a).case \in Cases
    BY <2>1, <2>2 DEF Assignment
  <2>4. queue' = queue \cup new
    BY <1>14 DEF CommitReruns
  <2>5. queue' \subseteq Assignment /\ {a.case : a \in queue'} \subseteq Cases
    <3>1. \A a \in new : a \in Assignment /\ a.case \in Cases
      BY <2>3
    <3> HIDE DEF new
    <3> QED  BY <1>0, <2>4, <3>1 DEF TypeOK
  <2> QED  BY <1>0, <1>14, <2>1, <2>5, ClosedFrame DEF CommitReruns, TypeOK, OrdersBounded
<1>15. CASE CreateAssignment(r)
  <2> DEFINE new == [NewAssignment(r, None, req[r].cases[1])
                       EXCEPT !.ended = clock + 1, !.changed = clock + 1]
  <2>1. clock \in Nat /\ clock + 1 \in Nat
    BY <1>0 DEF TypeOK
  <2>2. new \in Assignment /\ new.case \in Cases
    BY <1>15, <2>1 DEF CreateAssignment, NewAssignment, Assignment
  <2>3. queue' = queue \cup {new}
    BY <1>15 DEF CreateAssignment
  <2> HIDE DEF new
  <2>4. queue' \subseteq Assignment /\ {a.case : a \in queue'} \subseteq Cases
    BY <1>0, <2>2, <2>3 DEF TypeOK
  <2> QED  BY <1>0, <1>15, <2>1, <2>4, ClosedFrame DEF CreateAssignment, TypeOK, OrdersBounded
<1>16. CASE UpdateAssignment(r)
  <2> DEFINE status == IF req[r].kind = "close" THEN "done" ELSE "open"
             Set(a) == [a EXCEPT !.status = status, !.changed = clock + 1,
                                 !.reopened = @ \/ (status = "open" /\ a.status = "done")]
  <2>1. PICK a \in queue : queue' = (queue \ {a}) \cup {Set(a)}
    BY <1>16 DEF UpdateAssignment
  <2>2. clock + 1 \in Nat /\ a \in Assignment /\ a.case \in Cases
    BY <1>0 DEF TypeOK
  <2>3. Set(a) \in Assignment /\ Set(a).case \in Cases
    BY <2>2 DEF Assignment
  <2> HIDE DEF Set
  <2>4. queue' \subseteq Assignment /\ {x.case : x \in queue'} \subseteq Cases
    BY <1>0, <2>1, <2>3 DEF TypeOK
  <2> QED  BY <1>0, <1>16, <2>2, <2>4, ClosedFrame DEF UpdateAssignment, TypeOK, OrdersBounded
<1>17. CASE NoAssignment(r)
  BY <1>0, <1>17, ClosedFrame DEF NoAssignment, Rollback, TypeOK, OrdersBounded
<1>18. CASE Reply(r)
  <2>1. TypeOK'
    BY <1>0, <1>18 DEF Reply, Goto, TypeOK, Final
  <2>2. (Placed(r) /\ Resolved(r))'
    BY <1>0, <1>18 DEF Reply, Goto, TypeOK, Placed, Resolved, Final
  <2>3. Holds(r)'
    BY <1>0, <1>18 DEF Reply, Goto, Holds, Final
  <2> QED  BY <1>0, <1>18, <2>1, <2>2, <2>3, TypeFrame DEF Reply, Goto, OrdersBounded
<1>19. CASE Crash(r)
  <2>1. crashes' \in 0..MaxCrashes
    BY <1>0, <1>19, DomainAssumption DEF Crash, TypeOK
  <2> QED  BY <1>0, <1>19, <2>1, ClosedFrame DEF Crash, Rollback, Close, TypeOK, OrdersBounded
<1>20. CASE Retry(r)
  <2>1. TypeOK'
    BY <1>0, <1>20 DEF Retry, Goto, TypeOK
  <2>2. (Placed(r) /\ Resolved(r))'
    BY <1>0, <1>20 DEF Retry, Goto, TypeOK, Placed, Resolved
  <2>3. Holds(r)'
    BY <1>0, <1>20 DEF Retry, Goto, Holds, Final
  <2> QED  BY <1>0, <1>20, <2>1, <2>2, <2>3, TypeFrame DEF Retry, Goto, OrdersBounded
<1> QED  BY <1>1, <1>2, <1>3, <1>4, <1>5, <1>6, <1>7, <1>8, <1>9, <1>10, <1>11, <1>12, <1>13,
            <1>14, <1>15, <1>16, <1>17, <1>18, <1>19, <1>20
          DEF Step, Handle, Select, Remove, Enqueue

LEMMA TypeNext ==
  ASSUME TypeInv, [Next]_vars
  PROVE  TypeInv'
<1>1. CASE UNCHANGED vars
  BY ZenonT(20), <1>1 DEF vars, TypeInv, TypeOK, OrdersBounded, Placed, Resolved, Holds
<1>2. ASSUME NEW r \in Planners, Step(r) PROVE TypeInv'
  BY <1>2, TypeStep
<1> QED  BY <1>1, <1>2 DEF Next, Step

\* Every value the handlers keep stays in its domain; in particular the queue names only
\* cases that exist, as its foreign key demands.
THEOREM TypeCorrect == Spec => []TypeOK
<1>1. TypeInv => TypeOK
  BY DEF TypeInv
<1> QED  BY <1>1, TypeInit, TypeNext, PTL DEF Spec

-----------------------------------------------------------------------------
(***************************************************************************)
(* What a step may do                                                      *)
(***************************************************************************)

\* A request is given up, or sent again: nothing else changes.
Ends(r) == pc'[r] \in {"idle", "rejected", "failed"} /\ UNCHANGED <<db, began, req>>

\* The other steps, with the kinds of request that take them.
Moves(r) ==
  \/ Begin(r) /\ pc'[r] # "rejected"
  \/ Pin(r) /\ req[r].kind \in {"add", "require", "cover"}
  \/ FindLink(r) /\ req[r].kind = "add"
  \/ FindCoverage(r) /\ req[r].kind \in {"require", "cover"}
  \/ CommitRows(r) /\ req[r].kind \in {"add", "require", "cover"}
  \/ (ReadVersions(r) \/ ReadLinks(r) \/ DeleteLinks(r)) /\ req[r].kind = "remove"
  \/ Bump(r) /\ req[r].cases[1] \in Cases
  \/ (ScanCase(r) \/ CommitReruns(r)) /\ req[r].kind = "rerun"
  \/ CreateAssignment(r) \/ UpdateAssignment(r)
  \/ Reply(r)

LEMMA RequestStays ==
  ASSUME NEW r \in Planners, Step(r)
  PROVE  req' = req
<1> USE DEF client
<1>1. CASE Begin(r)
  BY <1>1 DEF Begin
<1>2. CASE Pin(r)
  BY <1>2 DEF Pin
<1>3. CASE Refuse(r)
  BY <1>3 DEF Refuse
<1>4. CASE FindLink(r)
  BY <1>4 DEF FindLink
<1>5. CASE FindCoverage(r)
  BY <1>5 DEF FindCoverage
<1>6. CASE Ambiguous(r)
  BY <1>6 DEF Ambiguous
<1>7. CASE CommitRows(r)
  BY <1>7 DEF CommitRows
<1>8. CASE ReadVersions(r)
  BY <1>8 DEF ReadVersions
<1>9. CASE ReadLinks(r)
  BY <1>9 DEF ReadLinks
<1>10. CASE DeleteLinks(r)
  BY <1>10 DEF DeleteLinks
<1>11. CASE Bump(r)
  BY <1>11 DEF Bump
<1>12. CASE ScanCase(r)
  BY <1>12 DEF ScanCase
<1>13. CASE FailKey(r)
  BY <1>13 DEF FailKey
<1>14. CASE CommitReruns(r)
  BY <1>14 DEF CommitReruns
<1>15. CASE CreateAssignment(r)
  BY <1>15 DEF CreateAssignment
<1>16. CASE UpdateAssignment(r)
  BY <1>16 DEF UpdateAssignment
<1>17. CASE NoAssignment(r)
  BY <1>17 DEF NoAssignment
<1>18. CASE Reply(r)
  BY <1>18 DEF Reply
<1>19. CASE Crash(r)
  BY <1>19 DEF Crash
<1>20. CASE Retry(r)
  BY <1>20 DEF Retry
<1> QED  BY <1>1, <1>2, <1>3, <1>4, <1>5, <1>6, <1>7, <1>8, <1>9, <1>10, <1>11, <1>12, <1>13,
            <1>14, <1>15, <1>16, <1>17, <1>18, <1>19, <1>20
          DEF Step, Handle, Select, Remove, Enqueue

LEMMA StepMoves ==
  ASSUME TypeInv, NEW r \in Planners, Step(r)
  PROVE  Moves(r) \/ Ends(r) \/ (Begin(r) /\ pc'[r] = "rejected")
<1>0. /\ TypeOK /\ Placed(r) /\ Resolved(r) /\ req[r].kind \in Kinds
      /\ pc \in [Planners -> {"idle"} \cup Working \cup Final] /\ req' = req
  BY RequestFacts, RequestStays DEF TypeInv, TypeOK
<1>1. CASE Begin(r) \/ Reply(r) \/ CreateAssignment(r) \/ UpdateAssignment(r)
  BY <1>1 DEF Moves
<1>3. CASE FindLink(r)
  <2>1. req[r].kind = "add"
    BY <1>3 DEF FindLink
  <2> QED  BY <1>3, <2>1 DEF Moves
<1>7. CASE Bump(r)
  <2>1. req[r].cases[1] \in Cases
    BY <1>0, <1>7 DEF Bump, Resolved
  <2> QED  BY <1>7, <2>1 DEF Moves
<1>2. CASE Pin(r)
  <2>1. pc[r] = "pin"
    BY <1>2 DEF Pin
  <2>2. req[r].kind \in {"add", "require", "cover"}
    BY <1>0, <2>1 DEF Placed, PlacesOf, Kinds, Final
  <2> QED  BY <1>2, <2>2 DEF Moves
<1>4. CASE FindCoverage(r)
  <2>1. pc[r] = "find" /\ req[r].kind # "add"
    BY <1>4 DEF FindCoverage
  <2>2. req[r].kind \in {"require", "cover"}
    BY <1>0, <2>1 DEF Placed, PlacesOf, Kinds, Final
  <2> QED  BY <1>4, <2>2 DEF Moves
<1>5. CASE CommitRows(r)
  <2>1. pc[r] = "pin"
    BY <1>5 DEF CommitRows
  <2>2. req[r].kind \in {"add", "require", "cover"}
    BY <1>0, <2>1 DEF Placed, PlacesOf, Kinds, Final
  <2> QED  BY <1>5, <2>2 DEF Moves
<1>6. CASE ReadVersions(r) \/ ReadLinks(r) \/ DeleteLinks(r)
  <2>1. pc[r] \in {"known", "linked", "delete"}
    BY <1>6 DEF ReadVersions, ReadLinks, DeleteLinks
  <2>2. req[r].kind \in {"remove"}
    BY <1>0, <2>1 DEF Placed, PlacesOf, Kinds, Final
  <2> QED  BY <1>6, <2>2 DEF Moves
<1>8. CASE ScanCase(r) \/ CommitReruns(r)
  <2>1. pc[r] = "scan"
    BY <1>8 DEF ScanCase, CommitReruns
  <2>2. req[r].kind \in {"rerun"}
    BY <1>0, <2>1 DEF Placed, PlacesOf, Kinds, Final
  <2> QED  BY <1>8, <2>2 DEF Moves
<1>9. CASE Refuse(r)
  <2>1. Rollback(r) /\ Goto(r, "rejected")
    BY <1>9 DEF Refuse
  <2> QED  BY <1>0, <2>1 DEF Rollback, Close, Goto, Ends
<1>10. CASE Ambiguous(r)
  <2>1. Rollback(r) /\ Goto(r, "failed")
    BY <1>10 DEF Ambiguous
  <2> QED  BY <1>0, <2>1 DEF Rollback, Close, Goto, Ends
<1>11. CASE FailKey(r)
  <2>1. Rollback(r) /\ Goto(r, "failed")
    BY <1>11 DEF FailKey
  <2> QED  BY <1>0, <2>1 DEF Rollback, Close, Goto, Ends
<1>12. CASE NoAssignment(r)
  <2>1. Rollback(r) /\ Goto(r, "rejected")
    BY <1>12 DEF NoAssignment
  <2> QED  BY <1>0, <2>1 DEF Rollback, Close, Goto, Ends
<1>13. CASE Crash(r)
  <2>1. Rollback(r) /\ Goto(r, "failed")
    BY <1>13 DEF Crash
  <2> QED  BY <1>0, <2>1 DEF Rollback, Close, Goto, Ends
<1>14. CASE Retry(r)
  <2>1. Goto(r, "idle") /\ UNCHANGED <<db, began>>
    BY <1>14 DEF Retry, session
  <2> QED  BY <1>0, <2>1 DEF Goto, Ends
<1> QED  BY <1>1, <1>2, <1>3, <1>4, <1>5, <1>6, <1>7, <1>8, <1>9, <1>10, <1>11, <1>12, <1>13,
            <1>14
          DEF Step, Handle, Select, Remove, Enqueue

\* The rows of a commit carry its time; otherwise they are what was inserted.
LEMMA StampedIs ==
  ASSUME TypeInv, NEW r \in Planners, NEW x \in Stamped(r)
  PROVE  \E y \in mine[r] :
           /\ x.ended = clock + 1 /\ x.looked = y.looked /\ x.case = y.case
           /\ req[r].kind = "add" =>
                /\ x.plan = y.plan /\ x.version = y.version /\ x.platform = y.platform
                /\ x.order = y.order /\ x.began = y.began
           /\ req[r].kind \in {"require", "cover"} => x.req = y.req /\ x.version = y.version
<1>1. PICK y \in mine[r] : x = [y EXCEPT !.ended = clock + 1]
  BY DEF Stamped
<1>2. y \in Link \/ y \in Coverage \/ y \in Assignment
  BY DEF TypeInv, TypeOK
<1>3. /\ req[r].kind = "add" => y \in Link
      /\ req[r].kind \in {"require", "cover"} => y \in Coverage
  BY DEF TypeInv, Holds
<1>4. x.ended = clock + 1 /\ x.looked = y.looked /\ x.case = y.case
  <2>1. CASE y \in Link
    BY <1>1, <2>1 DEF Link
  <2>2. CASE y \in Coverage
    BY <1>1, <2>2 DEF Coverage
  <2>3. CASE y \in Assignment
    BY <1>1, <2>3 DEF Assignment
  <2> QED  BY <1>2, <2>1, <2>2, <2>3
<1>5. req[r].kind = "add" =>
        /\ x.plan = y.plan /\ x.version = y.version /\ x.platform = y.platform
        /\ x.order = y.order /\ x.began = y.began
  BY <1>1, <1>3 DEF Link
<1>6. req[r].kind \in {"require", "cover"} => x.req = y.req /\ x.version = y.version
  BY <1>1, <1>3 DEF Coverage
<1> QED  BY <1>4, <1>5, <1>6

\* A row of the queue after a step: the one it was before, but for its status.
Was(a, b) ==
  /\ a.type = b.type /\ a.build = b.build /\ a.case = b.case
  /\ a.looked = b.looked /\ a.ended = b.ended /\ (b.reopened => a.reopened)
  /\ a.status = "open" => b.status = "open" \/ a.reopened

\* Rows are inserted with the time of their commit; only links are deleted, and only
\* assignments are updated.
Grown ==
  /\ clock' \in {clock, clock + 1}
  /\ \A c \in Cases : versions[c] <= versions'[c]
  /\ reqs \subseteq reqs' /\ coverage \subseteq coverage'
  /\ \A x \in links' : x \in links \/ (x.ended = clock + 1 /\ clock' = clock + 1)
  /\ \A x \in coverage' : x \in coverage \/ (x.ended = clock + 1 /\ clock' = clock + 1)
  /\ \A a \in queue' : \/ \E b \in queue : Was(a, b)
                       \/ a.ended = clock + 1 /\ clock' = clock + 1
  /\ \A b \in queue : \E a \in queue' :
       Was(a, b) /\ (a = b \/ (a.changed = clock + 1 /\ clock' = clock + 1))

LEMMA TablesGrow ==
  ASSUME TypeInv, NEW r \in Planners, Step(r)
  PROVE  Grown
<1>0. /\ clock \in Nat /\ versions \in [Cases -> Nat \ {0}]
      /\ queue \subseteq Assignment /\ req[r].kind \in Kinds
  BY RequestFacts DEF TypeInv, TypeOK
<1>1. \A c \in Cases : versions[c] <= versions[c]
  BY <1>0
<1>2. \A a \in queue : Was(a, a)
  BY DEF Was
<1>3. ASSUME UNCHANGED <<versions, links, reqs, coverage, queue>>, clock' \in {clock, clock + 1}
      PROVE  Grown
  <2>1. \A a \in queue' : \E b \in queue : Was(a, b)
    BY <1>2, <1>3
  <2>2. \A b \in queue : \E a \in queue' : Was(a, b) /\ a = b
    BY <1>2, <1>3
  <2>3. \A c \in Cases : versions[c] <= versions'[c]
    BY <1>1, <1>3
  <2> QED  BY <1>3, <2>1, <2>2, <2>3 DEF Grown
<1>4. CASE Ends(r)
  BY <1>0, <1>3, <1>4 DEF Ends, db
<1> USE DEF db, session, client
<1>5. CASE Begin(r) \/ Pin(r) \/ FindLink(r) \/ FindCoverage(r) \/ ReadVersions(r)
             \/ ReadLinks(r) \/ ScanCase(r) \/ Reply(r)
  BY <1>3, <1>5 DEF Begin, Pin, FindLink, FindCoverage, ReadVersions, ReadLinks, ScanCase, Reply
<1>6. CASE CommitRows(r)
  <2>1. /\ clock' = clock + 1 /\ UNCHANGED <<versions, queue>> /\ reqs \subseteq reqs'
        /\ links \subseteq links' /\ links' \subseteq links \cup Stamped(r)
        /\ coverage \subseteq coverage' /\ coverage' \subseteq coverage \cup Stamped(r)
    BY <1>6 DEF CommitRows
  <2>2. \A x \in Stamped(r) : x.ended = clock + 1
    BY StampedIs
  <2> QED  BY <1>1, <1>2, <2>1, <2>2 DEF Grown
<1>7. CASE DeleteLinks(r)
  <2>1. /\ clock' = clock + 1 /\ UNCHANGED <<versions, queue, reqs, coverage>>
        /\ links' \subseteq links
    BY <1>7 DEF DeleteLinks
  <2> QED  BY <1>1, <1>2, <2>1 DEF Grown
<1>8. CASE Bump(r)
  <2>1. /\ clock' = clock + 1 /\ UNCHANGED <<links, queue, reqs, coverage>>
        /\ versions' = [versions EXCEPT ![req[r].cases[1]] = @ + 1]
    BY <1>8 DEF Bump
  <2>2. \A c \in Cases : versions[c] <= versions'[c]
    BY <1>0, <2>1
  <2> QED  BY <1>2, <2>1, <2>2 DEF Grown
<1>9. CASE CommitReruns(r)
  <2> DEFINE Stamp(a) == [a EXCEPT !.ended = clock + 1, !.changed = clock + 1]
  <2>1. CASE mine[r] = {}
    BY <1>3, <1>9, <2>1 DEF CommitReruns
  <2>2. CASE mine[r] # {}
    <3>1. /\ clock' = clock + 1 /\ UNCHANGED <<versions, links, reqs, coverage>>
          /\ queue' = queue \cup {Stamp(a) : a \in mine[r]}
      BY <1>9, <2>2 DEF CommitReruns
    <3>2. req[r].kind = "rerun" /\ Placed(r) /\ Holds(r)
      <4>1. pc[r] = "scan" /\ Placed(r) /\ Holds(r)
        BY <1>9 DEF CommitReruns, TypeInv
      <4> QED  BY <1>0, <4>1 DEF Placed, PlacesOf, Kinds, Final
    <3>3. mine[r] \subseteq Assignment
      BY <3>2 DEF Holds
    <3>4. \A a \in mine[r] : Stamp(a).ended = clock + 1
      BY <3>3 DEF Assignment
    <3> QED  BY <1>1, <1>2, <3>1, <3>4 DEF Grown
  <2> QED  BY <2>1, <2>2
<1>10. CASE CreateAssignment(r)
  <2> DEFINE new == [NewAssignment(r, None, req[r].cases[1])
                       EXCEPT !.ended = clock + 1, !.changed = clock + 1]
  <2>1. /\ clock' = clock + 1 /\ UNCHANGED <<versions, links, reqs, coverage>>
        /\ queue' = queue \cup {new}
    BY <1>10 DEF CreateAssignment
  <2>2. new.ended = clock + 1
    BY DEF NewAssignment
  <2> HIDE DEF new
  <2> QED  BY <1>1, <1>2, <2>1, <2>2 DEF Grown
<1>11. CASE UpdateAssignment(r)
  <2> DEFINE status == IF req[r].kind = "close" THEN "done" ELSE "open"
             Set(a) == [a EXCEPT !.status = status, !.changed = clock + 1,
                                 !.reopened = @ \/ (status = "open" /\ a.status = "done")]
  <2>1. PICK a \in queue : queue' = (queue \ {a}) \cup {Set(a)}
    BY <1>11 DEF UpdateAssignment
  <2>2. clock' = clock + 1 /\ UNCHANGED <<versions, links, reqs, coverage>>
    BY <1>11 DEF UpdateAssignment
  <2>3. a \in Assignment
    BY <1>0
  <2>4. Was(Set(a), a) /\ Set(a).changed = clock + 1
    <3>1. /\ Set(a).type = a.type /\ Set(a).build = a.build /\ Set(a).case = a.case
          /\ Set(a).looked = a.looked /\ Set(a).ended = a.ended
          /\ Set(a).changed = clock + 1 /\ Set(a).status = status
      BY <2>3 DEF Assignment
    <3>2. Set(a).reopened <=> (a.reopened \/ (status = "open" /\ a.status = "done"))
      BY <2>3, Zenon DEF Assignment
    <3>3. a.status \in {"open", "done"}
      BY <2>3 DEF Assignment
    <3> HIDE DEF Set
    <3> QED  BY <3>1, <3>2, <3>3 DEF Was
  <2> HIDE DEF Set
  <2> QED  BY <1>1, <1>2, <2>1, <2>2, <2>4 DEF Grown
<1>12. Moves(r) \/ Ends(r) \/ Begin(r)
  BY StepMoves
<1> QED  BY <1>4, <1>5, <1>6, <1>7, <1>8, <1>9, <1>10, <1>11, <1>12 DEF Moves

-----------------------------------------------------------------------------
(***************************************************************************)
(* Requirements and their coverage                                         *)
(***************************************************************************)

\* No step opens a gap or takes a case out of the traceability of a requirement: rows of
\* req_coverage are never deleted, and what a gap is does not depend on current versions.
THEOREM CoveredStaysCoveredHolds == Spec => CoveredStaysCovered
<1> DEFINE Kept == \A q \in reqs : q \in reqs' /\ (q \notin Gaps => q \notin Gaps')
                                     /\ Traced(q) \subseteq Traced(q)'
<1>1. ASSUME TypeInv, [Next]_vars PROVE [Kept]_vars
  <2>1. ASSUME NEW r \in Planners, Step(r) PROVE Kept
    <3>1. reqs \subseteq reqs' /\ coverage \subseteq coverage'
      BY <1>1, <2>1, TablesGrow DEF Grown
    <3> SUFFICES ASSUME NEW q \in reqs
                 PROVE  q \in reqs' /\ (q \notin Gaps => q \notin Gaps')
                          /\ Traced(q) \subseteq Traced(q)'
      OBVIOUS
    <3>2. q \notin Gaps => q \notin Gaps'
      BY <3>1 DEF Gaps, Covers
    <3>3. Traced(q) \subseteq Traced(q)'
      BY <3>1 DEF Traced, Covers
    <3> QED  BY <3>1, <3>2, <3>3
  <2>2. CASE UNCHANGED vars
    BY <2>2
  <2> QED  BY <1>1, <2>1, <2>2 DEF Next, Step
<1>2. TypeInv /\ [Next]_vars => TypeInv'
  BY TypeNext
<1> QED  BY <1>1, <1>2, TypeInit, PTL DEF Spec, CoveredStaysCovered

\* Case c is one that link_coverage accepts for the requirement of r.
Fits(r, c) ==
  IF req[r].kind = "require" THEN ProjectOf[c] = ProjectOf[req[r].on]
  ELSE \A q \in reqs : q.id = req[r].on => ProjectOf[c] = ProjectOf[q.spec]

\* Of the cases a request names, those off its list have their row.
Attaching(r) ==
  req[r].kind \in {"require", "cover"} /\ pc[r] \in {"pin", "find"} =>
    /\ \A x \in mine[r] : x.req = Covering(r) /\ Fits(r, x.case)
    /\ pc[r] = "find" => Fits(r, Head(todo[r]))
    /\ req[r].kind = "require" =>
         \A c \in Elements(req[r].cases) :
           \/ c \in Elements(todo[r])
           \/ \E x \in mine[r] \cup coverage : x.req = Covering(r) /\ x.case = c

\* Requirements are told apart by their identifier, and coverage is of one there is.
CoverageFits ==
  /\ \A p, q \in reqs : p.id = q.id => p = q
  /\ \A x \in coverage : \E q \in reqs : q.id = x.req
  /\ \A x \in coverage, q \in reqs : x.req = q.id => ProjectOf[x.case] = ProjectOf[q.spec]

\* A requirement with the identifier of a request is the one it asked for.
Asked ==
  \A q \in reqs : \A r \in Planners, n \in Nat :
    q.id = <<r, n>> => /\ req[r].kind = "require" /\ q.spec = req[r].on
                       /\ Elements(req[r].cases) \subseteq Traced(q)

CoverInv == CoverageFits /\ Asked /\ \A r \in Planners : Attaching(r)

LEMMA CoverInit == Init => CoverInv
<1> SUFFICES ASSUME Init PROVE CoverInv
  OBVIOUS
<1>1. reqs = {[id |-> <<None, 0>>, spec |-> FirstSpec]}
  BY DEF Init, FirstReq
<1>2. \A x \in coverage : x.req = <<None, 0>> /\ ProjectOf[x.case] = ProjectOf[FirstSpec]
  BY DEF Init, FirstReq
<1>3. CoverageFits
  BY <1>1, <1>2 DEF CoverageFits
<1>4. Asked
  BY <1>1, DomainAssumption DEF Asked
<1>5. \A r \in Planners : Attaching(r)
  BY DEF Init, Attaching
<1> QED  BY <1>3, <1>4, <1>5 DEF CoverInv

\* The rows of a commit belong to its requirement, which is there once it is committed.
LEMMA CommittedCoverage ==
  ASSUME TypeInv, CoverInv, NEW r \in Planners, CommitRows(r), Step(r),
         req[r].kind \in {"require", "cover"}
  PROVE  (CoverageFits /\ Asked)'
<1> DEFINE new == [id |-> Covering(r), spec |-> req[r].on]
<1>1. /\ pc[r] = "pin" /\ todo[r] = << >> /\ coverage' = coverage \cup Stamped(r)
      /\ reqs' = IF req[r].kind = "require" THEN reqs \cup {new} ELSE reqs
      /\ req' = req
  BY DEF CommitRows, client
<1>2. /\ \A x \in mine[r] : x.req = Covering(r) /\ Fits(r, x.case)
      /\ req[r].kind = "require" =>
           \A c \in Elements(req[r].cases) :
             \/ c \in Elements(todo[r])
             \/ \E x \in mine[r] \cup coverage : x.req = Covering(r) /\ x.case = c
  BY <1>1 DEF CoverInv, Attaching
<1>3. \A x \in Stamped(r) : x.req = Covering(r) /\ Fits(r, x.case)
  BY <1>2, StampedIs
<1>4. attempts[r] \in Nat
  BY DomainAssumption DEF TypeInv, TypeOK
<1>5. req[r].kind = "require" => new.id = <<r, attempts[r]>> /\ new.spec = req[r].on
  BY DEF Covering
<1>6. req[r].kind = "require" => \A q \in reqs : q.id = new.id => q = new
  <2> SUFFICES ASSUME req[r].kind = "require", NEW q \in reqs, q.id = new.id PROVE q = new
    OBVIOUS
  <2>1. q.spec = req[r].on
    BY <1>4, <1>5 DEF CoverInv, Asked
  <2>2. q = [id |-> q.id, spec |-> q.spec]
    BY DEF TypeInv, TypeOK, Requirement
  <2> QED  BY <1>5, <2>1, <2>2
<1>7. \E q \in reqs' : q.id = Covering(r)
  <2>1. CASE req[r].kind = "require"
    <3>1. new \in reqs' /\ new.id = Covering(r)
      BY <1>1, <2>1
    <3> HIDE DEF new
    <3> QED  BY <3>1
  <2>2. CASE req[r].kind = "cover"
    <3>1. \E q \in reqs : q.id = req[r].on
      BY <1>1, <2>2 DEF TypeInv, Resolved
    <3> QED  BY <1>1, <2>2, <3>1 DEF Covering
  <2> QED  BY <2>1, <2>2
<1>8. \A p, q \in reqs' : p.id = q.id => p = q
  <2>1. \A p, q \in reqs : p.id = q.id => p = q
    BY DEF CoverInv, CoverageFits
  <2> HIDE DEF new
  <2> QED  BY <1>1, <1>6, <2>1
<1>9. \A x \in coverage' : \E q \in reqs' : q.id = x.req
  <2>1. \A x \in coverage : \E q \in reqs : q.id = x.req
    BY DEF CoverInv, CoverageFits
  <2>2. reqs \subseteq reqs'
    BY <1>1
  <2> HIDE DEF new
  <2> QED  BY <1>1, <1>3, <1>7, <2>1, <2>2
<1>10. ASSUME NEW x \in coverage', NEW q \in reqs', x.req = q.id
       PROVE  ProjectOf[x.case] = ProjectOf[q.spec]
  <2>1. CASE x \in coverage
    <3>1. PICK p \in reqs : p.id = x.req
      BY <2>1 DEF CoverInv, CoverageFits
    <3>2. p = q
      <4>1. p \in reqs' /\ p.id = q.id
        BY <1>1, <1>10, <3>1
      <4> QED  BY <1>8, <4>1
    <3> QED  BY <1>10, <2>1, <3>1, <3>2 DEF CoverInv, CoverageFits
  <2>2. CASE x \in Stamped(r)
    <3>1. q.id = Covering(r) /\ Fits(r, x.case)
      BY <1>3, <1>10, <2>2
    <3>2. CASE req[r].kind = "require"
      <4>1. new \in reqs' /\ new.id = Covering(r)
        BY <1>1, <3>2
      <4>2. q = new
        <5> HIDE DEF new
        <5> QED  BY <1>8, <3>1, <4>1
      <4> QED  BY <1>5, <3>1, <3>2, <4>2 DEF Fits
    <3>3. CASE req[r].kind = "cover"
      BY <1>1, <3>1, <3>3 DEF Fits, Covering
    <3> QED  BY <3>2, <3>3
  <2> QED  BY <1>1, <2>1, <2>2
<1>11. CoverageFits'
  BY <1>8, <1>9, <1>10 DEF CoverageFits
<1>12. ASSUME NEW q \in reqs', NEW s \in Planners, NEW n \in Nat, q.id = <<s, n>>
       PROVE  /\ req'[s].kind = "require" /\ q.spec = req'[s].on
              /\ Elements(req'[s].cases) \subseteq Traced(q)'
  <2>1. CASE q \in reqs
    <3>1. /\ req[s].kind = "require" /\ q.spec = req[s].on
          /\ Elements(req[s].cases) \subseteq Traced(q)
      BY <1>12, <2>1 DEF CoverInv, Asked
    <3>2. Traced(q) \subseteq Traced(q)'
      BY <1>1 DEF Traced, Covers
    <3> QED  BY <1>1, <3>1, <3>2
  <2>2. CASE q \notin reqs
    <3>1. req[r].kind = "require" /\ q = new
      BY <1>1, <2>2
    <3>2. s = r
      BY <1>5, <1>12, <3>1
    <3>3. ASSUME NEW c \in Elements(req[r].cases) PROVE c \in Traced(q)'
      <4>1. c \notin Elements(todo[r])
        BY <1>1, ListFacts, EmptySeq
      <4>2. PICK x \in mine[r] \cup coverage : x.req = Covering(r) /\ x.case = c
        BY <1>2, <3>1, <4>1
      <4>3. \E y \in coverage' : y.req = Covering(r) /\ y.case = c
        <5>1. CASE x \in coverage
          BY <1>1, <4>2, <5>1
        <5>2. CASE x \in mine[r]
          <6> DEFINE y == [x EXCEPT !.ended = clock + 1]
          <6>1. y \in Stamped(r)
            BY <5>2 DEF Stamped
          <6>2. x \in Coverage
            BY <3>1, <5>2 DEF TypeInv, Holds
          <6>3. y.req = x.req /\ y.case = x.case
            BY <6>2 DEF Coverage
          <6> QED  BY <1>1, <4>2, <6>1, <6>3
        <5> QED  BY <4>2, <5>1, <5>2
      <4> QED  BY <3>1, <4>3 DEF Traced, Covers
    <3> QED  BY <1>1, <1>5, <3>1, <3>2, <3>3
  <2> QED  BY <2>1, <2>2
<1>13. Asked'
  BY <1>12 DEF Asked
<1> QED  BY <1>11, <1>13

\* A request attaches a row to each case it names, if it may.
LEMMA AttachingStep ==
  ASSUME TypeInv, CoverInv, NEW r \in Planners, Step(r), req' = req,
         req[r].kind \in {"require", "cover"}
  PROVE  Attaching(r)'
<1>0. /\ TypeOK /\ Attaching(r) /\ Holds(r) /\ Resolved(r) /\ req[r].kind \in Kinds
      /\ pc \in [Planners -> {"idle"} \cup Working \cup Final]
      /\ todo \in [Planners -> Seq(Cases \cup {"ghost"})]
      /\ mine \in [Planners -> SUBSET (Link \cup Coverage \cup Assignment)]
  BY RequestFacts DEF TypeInv, TypeOK, CoverInv
<1>1. CASE Ends(r)
  BY <1>1 DEF Ends, Attaching
<1>2. CASE Begin(r)
  <2>1. pc'[r] \in {"pin", "rejected"} /\ mine'[r] = {} /\ req' = req
    BY <1>0, <1>2 DEF Begin, Goto, Entry, Holds
  <2>2. pc'[r] = "pin" => todo'[r] = req[r].cases
    BY <1>0, <1>2 DEF Begin, Goto
  <2> QED  BY <2>1, <2>2 DEF Attaching
<1>3. CASE Pin(r)
  <2>1. /\ pc[r] = "pin" /\ pc'[r] = "find" /\ ~ Refused(r, Head(todo[r]))
        /\ UNCHANGED <<reqs, coverage, todo, mine, req, attempts>>
    BY <1>0, <1>3 DEF Pin, Goto, db, client
  <2>2. Fits(r, Head(todo[r]))
    BY <2>1 DEF Refused, Fits
  <2>3. Covering(r)' = Covering(r)
    BY <2>1 DEF Covering
  <2> QED  BY <1>0, <2>1, <2>2, <2>3 DEF Attaching, Fits
<1>4. CASE FindCoverage(r)
  <2> DEFINE c == Head(todo[r])
             new == NewCoverage(r, c)
  <2>1. /\ pc[r] = "find" /\ pc'[r] = "pin" /\ todo'[r] = Tail(todo[r])
        /\ mine'[r] = IF CoverageOf(r, c) = {} THEN mine[r] \cup {new} ELSE mine[r]
        /\ UNCHANGED <<reqs, coverage, req, attempts>>
    BY <1>0, <1>4 DEF FindCoverage, Goto, db, client
  <2>2. new.req = Covering(r) /\ new.case = c /\ Covering(r)' = Covering(r)
    BY <2>1 DEF NewCoverage, Covering
  <2>3. Fits(r, c)
    BY <1>0, <2>1 DEF Attaching
  <2> HIDE DEF new
  <2>4. \A x \in mine'[r] : x.req = Covering(r) /\ Fits(r, x.case)
    BY <1>0, <2>1, <2>2, <2>3 DEF Attaching
  <2>5. Elements(todo[r]) = {c} \cup Elements(Tail(todo[r]))
    <3>1. todo[r] \in Seq(Cases \cup {"ghost"}) /\ todo[r] # << >>
      BY <1>0, <2>1 DEF Resolved
    <3> QED  BY <3>1, ListFacts
  <2>6. \E x \in mine'[r] \cup coverage : x.req = Covering(r) /\ x.case = c
    <3>1. CASE CoverageOf(r, c) = {}
      BY <2>1, <2>2, <3>1
    <3>2. CASE CoverageOf(r, c) # {}
      BY <2>1, <3>2 DEF CoverageOf
    <3> QED  BY <3>1, <3>2
  <2>7. mine[r] \subseteq mine'[r]
    BY <2>1
  <2>8. ASSUME req[r].kind = "require", NEW d \in Elements(req[r].cases)
        PROVE  \/ d \in Elements(todo'[r])
               \/ \E x \in mine'[r] \cup coverage' : x.req = Covering(r) /\ x.case = d
    <3>1. \/ d \in Elements(todo[r])
          \/ \E x \in mine[r] \cup coverage : x.req = Covering(r) /\ x.case = d
      BY <1>0, <2>1, <2>8 DEF Attaching
    <3> HIDE DEF c
    <3> QED  BY <2>1, <2>5, <2>6, <2>7, <3>1
  <2>9. \A x \in mine'[r] : Fits(r, x.case)'
    BY <2>1, <2>4 DEF Fits
  <2> QED  BY <2>1, <2>2, <2>4, <2>8, <2>9 DEF Attaching
<1>5. CASE CommitRows(r)
  <2>1. pc'[r] = "reply"
    BY <1>0, <1>5 DEF CommitRows, Goto
  <2> QED  BY <2>1 DEF Attaching
<1>6. CASE CreateAssignment(r) \/ UpdateAssignment(r) \/ Bump(r) \/ Reply(r)
  <2>1. pc'[r] \in {"reply", "done"}
    BY <1>0, <1>6 DEF CreateAssignment, UpdateAssignment, Bump, Reply, Goto
  <2> QED  BY <2>1 DEF Attaching
<1>7. Moves(r) \/ Ends(r) \/ Begin(r)
  BY StepMoves
<1> QED  BY <1>1, <1>2, <1>3, <1>4, <1>5, <1>6, <1>7 DEF Moves

LEMMA CoverStep ==
  ASSUME TypeInv, CoverInv, NEW r \in Planners, Step(r)
  PROVE  CoverInv'
<1>1. req' = req /\ Grown /\ TypeInv'
  BY RequestStays, TablesGrow, TypeStep
<1>2. (CoverageFits /\ Asked)'
  <2>1. CASE CommitRows(r) /\ req[r].kind \in {"require", "cover"}
    BY <2>1, CommittedCoverage
  <2>2. CASE ~ (CommitRows(r) /\ req[r].kind \in {"require", "cover"})
    <3>1. UNCHANGED <<reqs, coverage>>
      <4>1. Moves(r) \/ Ends(r) \/ Begin(r)
        BY StepMoves
      <4> QED  BY <2>2, <4>1
               DEF Moves, Ends, Begin, Pin, FindLink, FindCoverage, CommitRows, ReadVersions,
                   ReadLinks, DeleteLinks, Bump, ScanCase, CommitReruns, CreateAssignment,
                   UpdateAssignment, Reply, db
    <3>2. CoverageFits'
      BY <3>1 DEF CoverInv, CoverageFits
    <3>3. Asked'
      BY <1>1, <3>1 DEF CoverInv, Asked, Traced, Covers
    <3> QED  BY <3>2, <3>3
  <2> QED  BY <2>1, <2>2
<1>3. ASSUME NEW s \in Planners PROVE Attaching(s)'
  <2>1. CASE s = r
    <3>1. CASE req[r].kind \in {"require", "cover"}
      BY <1>1, <2>1, <3>1, AttachingStep
    <3>2. CASE req[r].kind \notin {"require", "cover"}
      BY <1>1, <2>1, <3>2 DEF Attaching
    <3> QED  BY <3>1, <3>2
  <2>2. CASE s # r
    <3>1. /\ pc'[s] = pc[s] /\ todo'[s] = todo[s] /\ mine'[s] = mine[s]
          /\ attempts'[s] = attempts[s]
      BY <2>2, OthersStay DEF TypeInv
    <3>2. Attaching(s) /\ Resolved(s)
      BY DEF CoverInv, TypeInv
    <3>3. reqs \subseteq reqs' /\ coverage \subseteq coverage'
      BY <1>1 DEF Grown
    <3>4. Covering(s)' = Covering(s)
      BY <1>1, <3>1 DEF Covering
    <3>5. ASSUME req[s].kind \in {"require", "cover"}, pc[s] \in {"pin", "find"},
                 NEW c, Fits(s, c)
          PROVE  Fits(s, c)'
      <4>1. CASE req[s].kind = "require"
        BY <1>1, <3>5, <4>1 DEF Fits
      <4>2. CASE req[s].kind = "cover"
        <5>1. PICK q \in reqs : q.id = req[s].on
          BY <3>2, <3>5, <4>2 DEF Resolved
        <5>2. \A p \in reqs' : p.id = req[s].on => p = q
          BY <1>2, <3>3, <5>1 DEF CoverageFits
        <5> QED  BY <1>1, <3>5, <4>2, <5>1, <5>2 DEF Fits
      <4> QED  BY <3>5, <4>1, <4>2
    <3>6. ASSUME req[s].kind \in {"require", "cover"}, pc[s] \in {"pin", "find"}
          PROVE  /\ \A x \in mine'[s] : x.req = Covering(s)' /\ Fits(s, x.case)'
                 /\ pc'[s] = "find" => Fits(s, Head(todo[s]))'
      <4>1. /\ \A x \in mine[s] : x.req = Covering(s) /\ Fits(s, x.case)
            /\ pc[s] = "find" => Fits(s, Head(todo[s]))
        BY <3>2, <3>6 DEF Attaching
      <4>2. \A x \in mine[s] : Fits(s, x.case)'
        <5> TAKE x \in mine[s]
        <5> DEFINE c == x.case
        <5>1. Fits(s, c)
          BY <4>1
        <5>2. Fits(s, c)'
          <6> HIDE DEF c
          <6> QED  BY <3>5, <3>6, <5>1
        <5> QED  BY <5>2
      <4>3. pc[s] = "find" => Fits(s, Head(todo[s]))'
        <5> DEFINE c == Head(todo[s])
        <5>1. pc[s] = "find" => Fits(s, c)
          BY <4>1
        <5>2. todo'[s] = todo[s]
          BY <3>1
        <5>3. pc[s] = "find" => Fits(s, c)'
          BY <1>1, <3>5, <3>6, <5>1, <5>2 DEF Fits
        <5> QED  BY <5>3
      <4> QED  BY <3>1, <3>4, <4>1, <4>2, <4>3
    <3> QED  BY <1>1, <3>1, <3>2, <3>3, <3>4, <3>6 DEF Attaching
  <2> QED  BY <2>1, <2>2
<1> QED  BY <1>2, <1>3 DEF CoverInv

LEMMA CoverNext ==
  ASSUME TypeInv, CoverInv, [Next]_vars
  PROVE  CoverInv'
<1>1. CASE UNCHANGED vars
  BY <1>1 DEF vars, CoverInv, CoverageFits, Asked, Traced, Covers, Attaching, Fits, Covering
<1>2. ASSUME NEW r \in Planners, Step(r) PROVE CoverInv'
  BY <1>2, CoverStep
<1> QED  BY <1>1, <1>2 DEF Next, Step

\* A requirement is recorded with all the coverage it was asked to have, of cases of its
\* project, or not at all: create_requirement commits once, after the whole list.
THEOREM RequirementIsWholeHolds == Spec => []RequirementIsWhole
<1>1. TypeInv /\ CoverInv => RequirementIsWhole
  <2> SUFFICES ASSUME TypeInv, CoverInv, NEW q \in reqs, NEW r \in Planners,
                      NEW n \in 1..MaxAttempts, q.id = <<r, n>>
               PROVE  /\ q.spec = req[r].on /\ Elements(req[r].cases) \subseteq Traced(q)
                      /\ \A c \in Traced(q) : ProjectOf[c] = ProjectOf[q.spec]
    BY DEF RequirementIsWhole
  <2>1. n \in Nat
    BY DomainAssumption
  <2>2. q.spec = req[r].on /\ Elements(req[r].cases) \subseteq Traced(q)
    BY <2>1 DEF CoverInv, Asked
  <2>3. \A c \in Traced(q) : ProjectOf[c] = ProjectOf[q.spec]
    BY DEF CoverInv, CoverageFits, Traced, Covers
  <2> QED  BY <2>2, <2>3
<1>2. Init => TypeInv /\ CoverInv
  BY TypeInit, CoverInit
<1>3. TypeInv /\ CoverInv /\ [Next]_vars => (TypeInv /\ CoverInv)'
  BY TypeNext, CoverNext
<1> QED  BY <1>1, <1>2, <1>3, PTL DEF Spec

-----------------------------------------------------------------------------
(***************************************************************************)
(* The clock                                                               *)
(***************************************************************************)

\* The version a link is about to pin is one the case has.
Pinned(r) ==
  req[r].kind = "add" =>
    /\ pc[r] = "find" => version[r] <= versions[Head(todo[r])]
    /\ \A x \in mine[r] : x.version <= versions[x.case] /\ x.began = began[r]

Dated ==
  /\ \A r \in Planners : began[r] <= clock /\ Pinned(r)
  /\ \A r \in Planners : \A x \in mine[r] : x.looked <= clock
  /\ \A x \in links : x.ended <= clock /\ x.version <= versions[x.case]
  /\ \A x \in coverage : x.ended <= clock
  /\ \A a \in queue : a.ended <= clock

LEMMA DatedInit == Init => Dated
<1> SUFFICES ASSUME Init PROVE Dated
  OBVIOUS
<1>1. PICK k \in 1..MaxVersion : versions = [c \in Cases |-> k]
  BY DEF Init
<1>2. k \in Nat /\ 1 <= k
  BY DomainAssumption
<1>3. \A x \in links : x.ended <= clock /\ x.version <= versions[x.case]
  BY <1>1, <1>2 DEF Init
<1>4. (\A x \in coverage : x.ended <= clock) /\ (\A a \in queue : a.ended <= clock)
  BY DEF Init
<1>5. \A r \in Planners : began[r] <= clock /\ Pinned(r) /\ mine[r] = {}
  BY DEF Init, Pinned
<1> QED  BY <1>3, <1>4, <1>5 DEF Dated

\* Every row has its times.
LEMMA RowTypes ==
  ASSUME TypeInv
  PROVE  /\ clock \in Nat /\ versions \in [Cases -> Nat \ {0}]
         /\ \A r \in Planners : began[r] \in Nat /\ version[r] \in Nat /\ order[r] \in Nat
         /\ \A x \in links : /\ x.case \in Cases /\ x.version \in Nat /\ x.order \in Nat
                             /\ x.began \in Nat /\ x.looked \in Nat /\ x.ended \in Nat
         /\ \A x \in coverage : x.case \in Cases /\ x.looked \in Nat /\ x.ended \in Nat
         /\ \A a \in queue : a.looked \in Nat /\ a.ended \in Nat /\ a.changed \in Nat
         /\ \A r \in Planners : \A x \in mine[r] : x.looked \in Nat
         /\ \A r \in Planners : req[r].kind = "add" => \A x \in mine[r] :
              /\ x.case \in Cases /\ x.version \in Nat /\ x.order \in Nat /\ x.began \in Nat
<1>1. \A x \in Link : /\ x.case \in Cases /\ x.version \in Nat /\ x.order \in Nat
                      /\ x.began \in Nat /\ x.looked \in Nat /\ x.ended \in Nat
  BY DEF Link
<1>2. \A x \in Coverage : x.case \in Cases /\ x.looked \in Nat /\ x.ended \in Nat
  BY DEF Coverage
<1>3. \A a \in Assignment : a.looked \in Nat /\ a.ended \in Nat /\ a.changed \in Nat
  BY DEF Assignment
<1>4. \A r \in Planners : mine[r] \subseteq Link \cup Coverage \cup Assignment
  BY DEF TypeInv, TypeOK
<1>5. \A r \in Planners : req[r].kind = "add" => mine[r] \subseteq Link
  BY DEF TypeInv, Holds
<1> QED  BY <1>1, <1>2, <1>3, <1>4, <1>5 DEF TypeInv, TypeOK

LEMMA PinnedStep ==
  ASSUME TypeInv, Dated, NEW r \in Planners, Step(r), req[r].kind = "add"
  PROVE  Pinned(r)' /\ \A x \in mine'[r] : x.looked <= clock
<1>0. /\ TypeOK /\ Pinned(r) /\ Holds(r) /\ Placed(r) /\ Resolved(r) /\ req' = req
      /\ pc \in [Planners -> {"idle"} \cup Working \cup Final]
      /\ mine \in [Planners -> SUBSET (Link \cup Coverage \cup Assignment)]
      /\ \A x \in mine[r] : x.looked <= clock
  BY RequestStays DEF TypeInv, TypeOK, Dated
<1>1. CASE Ends(r) \/ Begin(r) \/ Reply(r) \/ CommitRows(r)
  <2>1. pc'[r] \in {"idle", "rejected", "failed", "pin", "reply", "done"}
    BY <1>0, <1>1 DEF Ends, Begin, Reply, CommitRows, Goto, Entry
  <2>2. mine'[r] = {}
    <3>1. Holds(r)' /\ pc'[r] # "pin" => mine'[r] = {}
      BY <2>1 DEF Holds, Final
    <3>2. TypeInv'
      BY TypeStep
    <3>3. pc'[r] = "pin" => mine[r] = {} /\ mine' = mine
      BY <1>0, <1>1 DEF Ends, Begin, Reply, CommitRows, Goto, Entry, Holds
    <3> QED  BY <3>1, <3>2, <3>3 DEF TypeInv
  <2> QED  BY <2>1, <2>2 DEF Pinned
<1>2. CASE Pin(r)
  <2>1. /\ version'[r] = versions[Head(todo[r])]
        /\ UNCHANGED <<versions, todo, mine, began>> /\ Head(todo[r]) \in Cases
    BY <1>0, <1>2 DEF Pin, db, TypeOK, Refused
  <2>2. version'[r] <= versions'[Head(todo'[r])]
    BY <2>1, RowTypes
  <2> QED  BY <1>0, <2>1, <2>2 DEF Pinned
<1>3. CASE FindLink(r)
  <2> DEFINE c == Head(todo[r])
             new == NewLink(r, c)
  <2>1. /\ pc[r] = "find" /\ pc'[r] = "pin" /\ UNCHANGED <<versions, began>>
        /\ mine'[r] \subseteq mine[r] \cup {new}
    BY <1>0, <1>3 DEF FindLink, Goto, db
  <2>2. new.case = c /\ new.version = version[r] /\ new.began = began[r] /\ new.looked = clock
    BY DEF NewLink
  <2>3. version[r] <= versions[c]
    BY <1>0, <2>1 DEF Pinned
  <2> HIDE DEF new, c
  <2>4. \A x \in mine'[r] : x.version <= versions[x.case] /\ x.began = began[r]
    BY <1>0, <2>1, <2>2, <2>3 DEF Pinned
  <2>5. clock <= clock
    BY RowTypes
  <2>6. \A x \in mine'[r] : x.looked <= clock
    BY <1>0, <2>1, <2>2, <2>5
  <2> QED  BY <1>0, <2>1, <2>4, <2>6 DEF Pinned
<1>4. CASE CreateAssignment(r) \/ UpdateAssignment(r) \/ Bump(r)
  BY <1>4 DEF CreateAssignment, UpdateAssignment, Bump
<1>5. Moves(r) \/ Ends(r) \/ Begin(r)
  BY StepMoves
<1> QED  BY <1>1, <1>2, <1>3, <1>4, <1>5 DEF Moves

\* What a request that adds no links inserts is dated as well.
LEMMA LookedStep ==
  ASSUME TypeInv, Dated, NEW r \in Planners, Step(r), req[r].kind # "add"
  PROVE  \A x \in mine'[r] : x.looked <= clock
<1>0. /\ mine \in [Planners -> SUBSET (Link \cup Coverage \cup Assignment)]
      /\ \A x \in mine[r] : x.looked <= clock
  BY DEF TypeInv, TypeOK, Dated
<1>1. CASE FindCoverage(r)
  <2>1. mine'[r] \subseteq mine[r] \cup {NewCoverage(r, Head(todo[r]))}
    BY <1>0, <1>1 DEF FindCoverage
  <2>2. NewCoverage(r, Head(todo[r])).looked = clock /\ clock <= clock
    BY RowTypes DEF NewCoverage
  <2> QED  BY <1>0, <2>1, <2>2
<1>2. CASE ScanCase(r)
  <2>1. mine'[r] \subseteq mine[r] \cup {NewAssignment(r, "rerun", Head(todo[r]))}
    BY <1>0, <1>2 DEF ScanCase
  <2>2. NewAssignment(r, "rerun", Head(todo[r])).looked = clock /\ clock <= clock
    BY RowTypes DEF NewAssignment
  <2> QED  BY <1>0, <2>1, <2>2
<1>3. CASE Begin(r) \/ Pin(r) \/ ReadVersions(r) \/ ReadLinks(r)
  BY <1>0, <1>3 DEF Begin, Pin, ReadVersions, ReadLinks
<1>4. CASE Ends(r) \/ CommitRows(r) \/ DeleteLinks(r) \/ Bump(r) \/ CommitReruns(r)
             \/ CreateAssignment(r) \/ UpdateAssignment(r) \/ Reply(r)
  <2>1. pc'[r] \in {"idle", "reply"} \cup Final
    BY <1>4 DEF Ends, CommitRows, DeleteLinks, Bump, CommitReruns, CreateAssignment,
                UpdateAssignment, Reply, Goto, TypeInv, TypeOK, Final
  <2>2. mine'[r] = {}
    BY <2>1, TypeStep DEF TypeInv, Holds
  <2> QED  BY <2>2
<1>5. Moves(r) \/ Ends(r) \/ Begin(r)
  BY StepMoves
<1> QED  BY <1>1, <1>2, <1>3, <1>4, <1>5 DEF FindLink, Moves

LEMMA BeganStep ==
  ASSUME TypeInv, NEW r \in Planners, Step(r)
  PROVE  \A s \in Planners : began'[s] = began[s] \/ (began'[s] = clock /\ Begin(r) /\ s = r)
<1>1. began \in [Planners -> Nat]
  BY DEF TypeInv, TypeOK
<1>2. CASE Begin(r)
  BY <1>1, <1>2 DEF Begin
<1>3. CASE ~ Begin(r)
  <2>1. began' = began
    <3>1. Moves(r) \/ Ends(r)
      BY <1>3, StepMoves
    <3> QED  BY <1>3, <3>1
             DEF Moves, Ends, Pin, FindLink, FindCoverage, CommitRows, ReadVersions, ReadLinks,
                 DeleteLinks, Bump, ScanCase, CommitReruns, CreateAssignment, UpdateAssignment,
                 Reply, Close, session
  <2> QED  BY <2>1
<1> QED  BY <1>2, <1>3

LEMMA DatedStep ==
  ASSUME TypeInv, Dated, NEW r \in Planners, Step(r)
  PROVE  Dated'
<1>0. Grown /\ TypeInv' /\ req' = req
  BY TablesGrow, TypeStep, RequestStays
<1>1. clock \in Nat /\ clock' \in {clock, clock + 1} /\ clock <= clock'
  BY <1>0, RowTypes DEF Grown
<1>2. \A s \in Planners : began'[s] <= clock'
  BY <1>1, BeganStep, RowTypes DEF Dated
<1>3. ASSUME NEW s \in Planners PROVE Pinned(s)' /\ \A x \in mine'[s] : x.looked <= clock'
  <2>1. CASE s = r
    <3>1. \A x \in mine'[r] : x.looked <= clock /\ x.looked \in Nat
      <4>1. \A x \in mine'[r] : x.looked <= clock
        BY PinnedStep, LookedStep
      <4>2. \A x \in mine'[r] : x.looked \in Nat
        <5>1. /\ \A x \in Link : x.looked \in Nat
              /\ \A x \in Coverage : x.looked \in Nat
              /\ \A x \in Assignment : x.looked \in Nat
          BY DEF Link, Coverage, Assignment
        <5>2. mine'[r] \subseteq Link \cup Coverage \cup Assignment
          BY <1>0 DEF TypeInv, TypeOK
        <5> QED  BY <5>1, <5>2
      <4> QED  BY <4>1, <4>2
    <3>2. Pinned(r)'
      <4>1. CASE req[r].kind = "add"
        BY <4>1, PinnedStep
      <4>2. CASE req[r].kind # "add"
        BY <1>0, <4>2 DEF Pinned
      <4> QED  BY <4>1, <4>2
    <3> QED  BY <1>1, <2>1, <3>1, <3>2
  <2>2. CASE s # r
    <3>1. /\ pc'[s] = pc[s] /\ began'[s] = began[s] /\ todo'[s] = todo[s]
          /\ version'[s] = version[s] /\ mine'[s] = mine[s]
      BY <2>2, OthersStay DEF TypeInv
    <3>2. Pinned(s) /\ Resolved(s) /\ \A x \in mine[s] : x.looked <= clock /\ x.looked \in Nat
      BY RowTypes DEF Dated, TypeInv
    <3>3. Pinned(s)'
      <4> SUFFICES ASSUME req[s].kind = "add"
                   PROVE  /\ pc[s] = "find" => version[s] <= versions'[Head(todo[s])]
                          /\ \A x \in mine[s] : x.version <= versions'[x.case] /\ x.began = began[s]
        BY <1>0, <3>1 DEF Pinned
      <4>1. \A c \in Cases : versions[c] \in Nat /\ versions'[c] \in Nat /\ versions[c] <= versions'[c]
        BY <1>0, RowTypes DEF Grown, TypeInv, TypeOK
      <4>2. pc[s] = "find" => version[s] <= versions'[Head(todo[s])]
        <5>1. pc[s] = "find" => Head(todo[s]) \in Cases /\ version[s] <= versions[Head(todo[s])]
          BY <3>2 DEF Resolved, Pinned
        <5>2. version[s] \in Nat
          BY RowTypes
        <5> QED  BY <4>1, <5>1, <5>2
      <4>3. \A x \in mine[s] : x.version <= versions'[x.case] /\ x.began = began[s]
        <5>1. \A x \in mine[s] : x.case \in Cases /\ x.version \in Nat
          BY RowTypes
        <5>2. \A x \in mine[s] : x.version <= versions[x.case] /\ x.began = began[s]
          BY <3>2 DEF Pinned
        <5> QED  BY <4>1, <5>1, <5>2
      <4> QED  BY <4>2, <4>3
    <3> QED  BY <1>1, <3>1, <3>2, <3>3
  <2> QED  BY <2>1, <2>2
<1>4. ASSUME NEW x \in links' PROVE x.ended <= clock' /\ x.version <= versions'[x.case]
  <2>1. \A c \in Cases : versions[c] \in Nat /\ versions'[c] \in Nat /\ versions[c] <= versions'[c]
    BY <1>0, RowTypes DEF Grown, TypeInv, TypeOK
  <2>2. CASE x \in links
    <3>1. /\ x.ended <= clock /\ x.version <= versions[x.case] /\ x.ended \in Nat
          /\ x.case \in Cases /\ x.version \in Nat
      BY <2>2, RowTypes DEF Dated
    <3> QED  BY <1>1, <2>1, <3>1
  <2>3. CASE x \notin links
    <3>1. x.ended = clock + 1 /\ clock' = clock + 1
      BY <1>0, <2>3 DEF Grown
    <3>2. req[r].kind = "add" /\ x \in Stamped(r)
      <4>1. Moves(r) \/ Ends(r) \/ Begin(r)
        BY StepMoves
      <4> QED  BY <2>3, <1>4, <4>1
               DEF Moves, Ends, Begin, Pin, FindLink, FindCoverage, CommitRows, ReadVersions,
                   ReadLinks, DeleteLinks, Bump, ScanCase, CommitReruns, CreateAssignment,
                   UpdateAssignment, Reply, db
    <3>3. PICK y \in mine[r] : x.case = y.case /\ x.version = y.version
      BY <3>2, StampedIs
    <3>4. y.version <= versions[y.case] /\ y.case \in Cases /\ y.version \in Nat
      BY <3>2, RowTypes DEF Dated, Pinned
    <3> QED  BY <1>1, <2>1, <3>1, <3>3, <3>4
  <2> QED  BY <2>2, <2>3
<1>5. \A x \in coverage' : x.ended <= clock'
  BY <1>0, <1>1, RowTypes DEF Grown, Dated
<1>6. \A a \in queue' : a.ended <= clock'
  <2> SUFFICES ASSUME NEW a \in queue' PROVE a.ended <= clock'
    OBVIOUS
  <2>1. CASE \E b \in queue : Was(a, b)
    <3>1. PICK b \in queue : a.ended = b.ended
      BY <2>1 DEF Was
    <3>2. b.ended <= clock /\ b.ended \in Nat
      BY RowTypes DEF Dated
    <3> QED  BY <1>1, <3>1, <3>2
  <2>2. CASE a.ended = clock + 1 /\ clock' = clock + 1
    BY <1>1, <2>2
  <2> QED  BY <1>0, <2>1, <2>2 DEF Grown
<1> QED  BY <1>2, <1>3, <1>4, <1>5, <1>6 DEF Dated

LEMMA DatedNext ==
  ASSUME TypeInv, Dated, [Next]_vars
  PROVE  Dated'
<1>1. CASE UNCHANGED vars
  BY <1>1 DEF vars, Dated, Pinned
<1>2. ASSUME NEW r \in Planners, Step(r) PROVE Dated'
  BY <1>2, DatedStep
<1> QED  BY <1>1, <1>2 DEF Next, Step

-----------------------------------------------------------------------------
(***************************************************************************)
(* Removal                                                                 *)
(***************************************************************************)

\* A link of what r removes that was there when r began.
Doomed(r, x) ==
  x.plan = req[r].on /\ x.case = req[r].cases[1] /\ x.ended <= began[r]

\* None of them escapes from one statement to the next.
Removing(r) ==
  req[r].kind = "remove" =>
    /\ pc[r] = "linked" => \A x \in links : Doomed(r, x) => x.version <= version[r]
    /\ pc[r] = "delete" => \A x \in links : Doomed(r, x) => x \in doomed[r]
    /\ pc[r] \in {"reply", "done"} => ~ \E x \in links : Doomed(r, x)

RemovalInv == \A r \in Planners : Removing(r)

\* Links that come later are not of those that were there.
LEMMA OldLinks ==
  ASSUME TypeInv, Dated, NEW r \in Planners, Step(r), NEW s \in Planners,
         began'[s] = began[s], NEW x \in links', Doomed(s, x)'
  PROVE  x \in links /\ Doomed(s, x)
<1>1. req' = req /\ Grown
  BY RequestStays, TablesGrow
<1>2. Doomed(s, x)
  BY <1>1 DEF Doomed
<1>3. x.ended <= began[s] /\ began[s] <= clock /\ began[s] \in Nat /\ clock \in Nat
  BY <1>2, RowTypes DEF Doomed, Dated
<1>4. ~ x.ended = clock + 1
  BY <1>3
<1> QED  BY <1>1, <1>2, <1>4 DEF Grown

LEMMA RemovingStep ==
  ASSUME TypeInv, Dated, RemovalInv, NEW r \in Planners, Step(r), req[r].kind = "remove"
  PROVE  Removing(r)'
<1>0. /\ TypeOK /\ Removing(r) /\ Placed(r) /\ Resolved(r) /\ req' = req
      /\ pc \in [Planners -> {"idle"} \cup Working \cup Final]
      /\ todo[r] \in Seq(Cases \cup {"ghost"}) /\ req[r].cases \in Seq(Cases \cup {"ghost"})
      /\ Len(req[r].cases) = 1
      /\ version \in [Planners -> Nat] /\ doomed \in [Planners -> SUBSET Link]
  BY RequestStays, RequestFacts DEF TypeInv, TypeOK, RemovalInv
<1>1. pc[r] \in {"known", "linked", "delete"} => Head(todo[r]) = req[r].cases[1]
  <2>1. Head(req[r].cases) = req[r].cases[1]
    BY <1>0, SingleFacts
  <2> QED  BY <1>0, <2>1 DEF Resolved
<1>2. CASE Ends(r)
  BY <1>2 DEF Ends, Removing
<1>3. CASE Begin(r)
  <2>1. pc'[r] \in {"known", "rejected"}
    BY <1>0, <1>3 DEF Begin, Goto, Entry
  <2> QED  BY <2>1 DEF Removing
<1>4. ASSUME ~ Begin(r), NEW x \in links', Doomed(r, x)' PROVE x \in links /\ Doomed(r, x)
  <2>1. began'[r] = began[r]
    BY <1>4, BeganStep
  <2> QED  BY <1>4, <2>1, OldLinks
<1>5. CASE ReadVersions(r)
  <2> DEFINE c == req[r].cases[1]
  <2>1. /\ pc[r] = "known" /\ version'[r] = IF c \in Cases THEN versions[c] ELSE 0
        /\ pc'[r] = (IF c \in Cases THEN "linked" ELSE "reply") /\ links' = links
    BY <1>0, <1>1, <1>5 DEF ReadVersions, Goto, db
  <2>2. \A x \in links : x.case \in Cases /\ x.version <= versions[x.case]
    BY RowTypes DEF Dated
  <2>3. ~ Begin(r)
    BY <2>1 DEF Begin
  <2>4. CASE c \in Cases
    <3>1. \A x \in links' : Doomed(r, x)' => x.version <= version'[r]
      BY <1>4, <2>1, <2>2, <2>3, <2>4 DEF Doomed
    <3> QED  BY <2>1, <2>4, <3>1 DEF Removing
  <2>5. CASE c \notin Cases
    <3>1. \A x \in links' : ~ Doomed(r, x)'
      BY <1>4, <2>1, <2>2, <2>3, <2>5 DEF Doomed
    <3> QED  BY <2>1, <2>5, <3>1 DEF Removing
  <2> QED  BY <2>4, <2>5
<1>6. CASE ReadLinks(r)
  <2>1. /\ pc[r] = "linked" /\ pc'[r] = "delete" /\ links' = links
        /\ doomed'[r] = {x \in links : /\ x.plan = req[r].on /\ x.case = req[r].cases[1]
                                       /\ x.version <= version[r]}
    BY <1>0, <1>1, <1>6 DEF ReadLinks, Goto, db
  <2>2. ~ Begin(r)
    BY <2>1 DEF Begin
  <2>3. ASSUME NEW x \in links', Doomed(r, x)' PROVE x \in doomed'[r]
    <3>1. x \in links /\ Doomed(r, x)
      BY <1>4, <2>2, <2>3
    <3>2. x.version <= version[r]
      BY <1>0, <2>1, <3>1 DEF Removing
    <3> QED  BY <2>1, <3>1, <3>2 DEF Doomed
  <2> QED  BY <2>1, <2>3 DEF Removing
<1>7. CASE DeleteLinks(r)
  <2>1. pc[r] = "delete" /\ pc'[r] = "reply" /\ links' = links \ doomed[r]
    BY <1>0, <1>7 DEF DeleteLinks, Goto
  <2>2. ~ Begin(r)
    BY <2>1 DEF Begin
  <2>3. ASSUME NEW x \in links', Doomed(r, x)' PROVE FALSE
    <3>1. x \in links /\ Doomed(r, x)
      BY <1>4, <2>2, <2>3
    <3> QED  BY <1>0, <2>1, <3>1 DEF Removing
  <2> QED  BY <2>1, <2>3 DEF Removing
<1>8. CASE Reply(r)
  <2>1. pc[r] = "reply" /\ pc'[r] = "done"
    BY <1>0, <1>8 DEF Reply, Goto
  <2>2. ~ Begin(r)
    BY <2>1 DEF Begin
  <2>3. ASSUME NEW x \in links', Doomed(r, x)' PROVE FALSE
    <3>1. x \in links /\ Doomed(r, x)
      BY <1>4, <2>2, <2>3
    <3> QED  BY <1>0, <2>1, <3>1 DEF Removing
  <2> QED  BY <2>1, <2>3 DEF Removing
<1>9. CASE CreateAssignment(r) \/ UpdateAssignment(r) \/ Bump(r)
  BY <1>0, <1>9 DEF CreateAssignment, UpdateAssignment, Bump
<1>10. Moves(r) \/ Ends(r) \/ Begin(r)
  BY StepMoves
<1> QED  BY <1>2, <1>3, <1>5, <1>6, <1>7, <1>8, <1>9, <1>10 DEF Moves

LEMMA RemovalNext ==
  ASSUME TypeInv, Dated, RemovalInv, [Next]_vars
  PROVE  RemovalInv'
<1>1. CASE UNCHANGED vars
  BY <1>1 DEF vars, RemovalInv, Removing, Doomed
<1>2. ASSUME NEW r \in Planners, Step(r), NEW s \in Planners PROVE Removing(s)'
  <2>1. req' = req
    BY <1>2, RequestStays
  <2>2. CASE s = r
    <3>1. CASE req[r].kind = "remove"
      BY <1>2, <2>2, <3>1, RemovingStep
    <3>2. CASE req[r].kind # "remove"
      BY <2>1, <2>2, <3>2 DEF Removing
    <3> QED  BY <3>1, <3>2
  <2>3. CASE s # r
    <3>1. /\ pc'[s] = pc[s] /\ began'[s] = began[s] /\ version'[s] = version[s]
          /\ doomed'[s] = doomed[s]
      BY <1>2, <2>3, OthersStay DEF TypeInv
    <3>2. \A x \in links' : Doomed(s, x)' => x \in links /\ Doomed(s, x)
      BY <1>2, <3>1, OldLinks
    <3>3. Removing(s)
      BY DEF RemovalInv
    <3> QED  BY <2>1, <3>1, <3>2, <3>3 DEF Removing
  <2> QED  BY <2>2, <2>3
<1> QED  BY <1>1, <1>2 DEF Next, Step, RemovalInv

\* An answered removal left no link of the case to the plan that was there when it began:
\* it deletes the links to every version the case had, and newer ones came later.
THEOREM RemovalIsCompleteHolds == Spec => []RemovalIsComplete
<1>1. RemovalInv => RemovalIsComplete
  BY DEF RemovalInv, Removing, Doomed, RemovalIsComplete
<1>2. Init => TypeInv /\ Dated /\ RemovalInv
  <2>1. Init => RemovalInv
    BY DEF Init, RemovalInv, Removing
  <2> QED  BY <2>1, TypeInit, DatedInit
<1>3. TypeInv /\ Dated /\ RemovalInv /\ [Next]_vars => (TypeInv /\ Dated /\ RemovalInv)'
  BY TypeNext, DatedNext, RemovalNext
<1> QED  BY <1>1, <1>2, <1>3, PTL DEF Spec

-----------------------------------------------------------------------------
(***************************************************************************)
(* Reruns                                                                  *)
(***************************************************************************)

\* The case is queued to be run again in r's build, or it was after r began.
Queued(r, c) ==
  \E a \in queue : /\ a.type = "rerun" /\ a.build = req[r].on /\ a.case = c
                   /\ a.status = "open" \/ a.changed > began[r]

\* r inserts a rerun of the case.
Inserts(r, c) ==
  \E a \in mine[r] : a.type = "rerun" /\ a.build = req[r].on /\ a.case = c

\* The case is one r is to see to: it names it, or the plan had it when r began.
Wanted(r, c) ==
  \/ c \in Elements(req[r].cases)
  \/ /\ req[r].cases = << >>
     /\ \E x \in links : /\ x.plan = PlanOf[req[r].on] /\ x.case = c
                         /\ x.ended <= began[r]

\* A case that r is to see to is still on its list, or it is seen to.
Rerunning(r) ==
  req[r].kind = "rerun" =>
    /\ pc[r] = "scan" => \A c : Wanted(r, c) =>
         c \in Elements(todo[r]) \/ Inserts(r, c) \/ Queued(r, c)
    /\ pc[r] \in {"reply", "done"} => \A c : Wanted(r, c) => Queued(r, c)

RerunInv == \A r \in Planners : Rerunning(r)

\* Nothing is wanted of a request that was not when it began.
LEMMA WantedStays ==
  ASSUME TypeInv, Dated, NEW r \in Planners, Step(r), NEW s \in Planners,
         began'[s] = began[s], NEW c, Wanted(s, c)'
  PROVE  Wanted(s, c)
<1>1. req' = req /\ Grown
  BY RequestStays, TablesGrow
<1>2. ASSUME NEW x \in links', x.ended <= began[s] PROVE x \in links
  <2>1. began[s] <= clock /\ began[s] \in Nat /\ clock \in Nat
    BY RowTypes DEF Dated
  <2>2. ~ x.ended = clock + 1
    BY <1>2, <2>1
  <2> QED  BY <1>1, <1>2, <2>2 DEF Grown
<1> QED  BY <1>1, <1>2 DEF Wanted

\* An assignment that answers a request goes on doing so, whoever updates it.
LEMMA QueuedStays ==
  ASSUME TypeInv, Dated, NEW r \in Planners, Step(r), NEW s \in Planners,
         began'[s] = began[s], NEW c, Queued(s, c)
  PROVE  Queued(s, c)'
<1>1. req' = req /\ Grown /\ clock \in Nat /\ began[s] \in Nat /\ began[s] <= clock
  BY RequestStays, TablesGrow, RowTypes DEF Dated
<1>2. PICK b \in queue : /\ b.type = "rerun" /\ b.build = req[s].on /\ b.case = c
                         /\ b.status = "open" \/ b.changed > began[s]
  BY DEF Queued
<1>3. PICK a \in queue' : Was(a, b) /\ (a = b \/ a.changed = clock + 1)
  BY <1>1 DEF Grown
<1>4. a.type = "rerun" /\ a.build = req[s].on /\ a.case = c
  BY <1>2, <1>3 DEF Was
<1>5. a.status = "open" \/ a.changed > began[s]
  BY <1>1, <1>2, <1>3
<1> QED  BY <1>1, <1>4, <1>5 DEF Queued

LEMMA RerunningStep ==
  ASSUME TypeInv, Dated, RerunInv, NEW r \in Planners, Step(r), req[r].kind = "rerun"
  PROVE  Rerunning(r)'
<1>0. /\ TypeOK /\ Rerunning(r) /\ Placed(r) /\ Holds(r) /\ req' = req
      /\ pc \in [Planners -> {"idle"} \cup Working \cup Final]
      /\ todo \in [Planners -> Seq(Cases \cup {"ghost"})]
      /\ mine \in [Planners -> SUBSET (Link \cup Coverage \cup Assignment)]
      /\ began \in [Planners -> Nat] /\ clock \in Nat
      /\ req[r].cases \in Seq(Cases \cup {"ghost"})
  BY RequestStays, RequestFacts DEF TypeInv, TypeOK, RerunInv
<1>1. ASSUME ~ Begin(r) PROVE /\ began'[r] = began[r]
                              /\ \A c : Wanted(r, c)' => Wanted(r, c)
                              /\ \A c : Queued(r, c) => Queued(r, c)'
  <2>1. began'[r] = began[r]
    BY <1>1, BeganStep
  <2> QED  BY <2>1, WantedStays, QueuedStays
<1>2. CASE Ends(r)
  BY <1>2 DEF Ends, Rerunning
<1>3. CASE Begin(r) /\ pc'[r] # "rejected"
  <2>1. /\ pc'[r] = "scan" /\ links' = links /\ req' = req
        /\ \E list \in IF req[r].cases = << >>
                         THEN Listings({x.case : x \in {y \in links : y.plan = PlanOf[req[r].on]}})
                         ELSE {req[r].cases} : todo' = [todo EXCEPT ![r] = list]
    <3>1. ~ Unresolved(req[r])
      BY <1>0, <1>3 DEF Begin, Goto
    <3>2. pc' = [pc EXCEPT ![r] = "scan"] /\ links' = links
      BY <1>3, <3>1 DEF Begin, Goto, Entry, db
    <3>3. \E list \in IF req[r].cases = << >>
                       THEN Listings({x.case : x \in {y \in links : y.plan = PlanOf[req[r].on]}})
                       ELSE {req[r].cases} : todo' = [todo EXCEPT ![r] = list]
      BY <1>3, <3>1 DEF Begin
    <3> QED  BY <1>0, <3>2, <3>3
  <2>2. ASSUME NEW c, Wanted(r, c)' PROVE c \in Elements(todo'[r])
    <3>1. CASE req[r].cases = << >>
      <4> DEFINE planned == {x.case : x \in {y \in links : y.plan = PlanOf[req[r].on]}}
      <4>1. PICK list \in Listings(planned) : todo'[r] = list
        BY <1>0, <2>1, <3>1
      <4>2. planned \subseteq Cases
        BY RowTypes
      <4>3. Elements(list) = planned
        <5> HIDE DEF planned
        <5> QED  BY <4>1, <4>2, ListingFacts
      <4>4. c \in planned
        <5>1. Elements(req[r].cases) = {}
          BY <3>1, ListFacts, EmptySeq
        <5> QED  BY <2>1, <2>2, <5>1 DEF Wanted
      <4> QED  BY <4>1, <4>3, <4>4
    <3>2. CASE req[r].cases # << >>
      BY <1>0, <2>1, <2>2, <3>2 DEF Wanted
    <3> QED  BY <3>1, <3>2
  <2> QED  BY <2>1, <2>2 DEF Rerunning
<1>4. CASE ScanCase(r)
  <2> PICK d : d = Head(todo[r])
    OBVIOUS
  <2> DEFINE new == NewAssignment(r, "rerun", d)
  <2>1. /\ pc[r] = "scan" /\ pc'[r] = "scan" /\ todo[r] # << >> /\ todo'[r] = Tail(todo[r])
        /\ mine'[r] = IF OpenReruns(req[r].on, d) = {} THEN mine[r] \cup {new} ELSE mine[r]
        /\ queue' = queue /\ ~ Begin(r)
    BY <1>0, <1>4 DEF ScanCase, db, Begin
  <2>2. new.type = "rerun" /\ new.build = req[r].on /\ new.case = d
    BY DEF NewAssignment
  <2>3. Elements(todo[r]) = {d} \cup Elements(todo'[r])
    BY <1>0, <2>1, ListFacts
  <2> HIDE DEF new
  <2>4. Inserts(r, d)' \/ Queued(r, d)
    <3>1. CASE OpenReruns(req[r].on, d) = {}
      <4>1. new \in mine'[r]
        BY <2>1, <3>1
      <4> QED  BY <1>0, <2>2, <4>1 DEF Inserts
    <3>2. CASE OpenReruns(req[r].on, d) # {}
      BY <3>2 DEF OpenReruns, Queued
    <3> QED  BY <3>1, <3>2
  <2>5. \A c : Inserts(r, c) => Inserts(r, c)'
    BY <1>0, <2>1 DEF Inserts
  <2>6. ASSUME NEW c, Wanted(r, c)'
        PROVE  c \in Elements(todo'[r]) \/ Inserts(r, c)' \/ Queued(r, c)'
    <3>1. c \in Elements(todo[r]) \/ Inserts(r, c) \/ Queued(r, c)
      BY <1>0, <1>1, <2>1, <2>6 DEF Rerunning
    <3>2. c = d \/ c \in Elements(todo'[r]) \/ Inserts(r, c)' \/ Queued(r, c)'
      BY <1>1, <2>1, <2>3, <2>5, <3>1
    <3>3. c = d => Inserts(r, c)' \/ Queued(r, c)'
      BY <1>1, <2>1, <2>4
    <3> QED  BY <3>2, <3>3
  <2> QED  BY <2>1, <2>6 DEF Rerunning
<1>5. CASE CommitReruns(r)
  <2> DEFINE Stamp(a) == [a EXCEPT !.ended = clock + 1, !.changed = clock + 1]
  <2>1. /\ pc[r] = "scan" /\ pc'[r] = "reply" /\ todo[r] = << >> /\ ~ Begin(r)
        /\ queue' = queue \cup {Stamp(a) : a \in mine[r]}
    BY <1>0, <1>5 DEF CommitReruns, Goto, Begin
  <2>2. Elements(todo[r]) = {}
    BY <2>1, ListFacts, EmptySeq
  <2>3. began[r] <= clock /\ mine[r] \subseteq Assignment
    BY <1>0 DEF Dated, Holds
  <2>4. ASSUME NEW c, Inserts(r, c) PROVE Queued(r, c)'
    <3>1. PICK a \in mine[r] : a.type = "rerun" /\ a.build = req[r].on /\ a.case = c
      BY <2>4 DEF Inserts
    <3>2. /\ Stamp(a).type = a.type /\ Stamp(a).build = a.build /\ Stamp(a).case = a.case
          /\ Stamp(a).changed = clock + 1
      BY <2>3 DEF Assignment
    <3>3. Stamp(a) \in queue'
      BY <2>1
    <3>4. clock + 1 > began[r] /\ began'[r] = began[r]
      <4>1. began[r] \in Nat
        BY <1>0
      <4>2. clock \in Nat /\ began[r] <= clock
        BY <1>0, <2>3
      <4>3. began'[r] = began[r]
        BY <1>1, <2>1
      <4> QED  BY <4>1, <4>2, <4>3
    <3> HIDE DEF Stamp
    <3> QED  BY <1>0, <3>1, <3>2, <3>3, <3>4 DEF Queued
  <2>5. ASSUME NEW c, Wanted(r, c)' PROVE Queued(r, c)'
    <3>1. Inserts(r, c) \/ Queued(r, c)
      BY <1>0, <1>1, <2>1, <2>2, <2>5 DEF Rerunning
    <3> QED  BY <1>1, <2>1, <2>4, <3>1
  <2> QED  BY <2>1, <2>5 DEF Rerunning
<1>6. CASE Reply(r)
  <2>1. pc[r] = "reply" /\ pc'[r] = "done" /\ ~ Begin(r)
    BY <1>0, <1>6 DEF Reply, Goto, Begin
  <2>2. \A c : Wanted(r, c)' => Queued(r, c)'
    BY <1>0, <1>1, <2>1 DEF Rerunning
  <2> QED  BY <2>1, <2>2 DEF Rerunning
<1>7. CASE CreateAssignment(r) \/ UpdateAssignment(r) \/ Bump(r)
  BY <1>0, <1>7 DEF CreateAssignment, UpdateAssignment, Bump
<1>8. CASE Begin(r) /\ pc'[r] = "rejected"
  BY <1>8 DEF Rerunning
<1>9. Moves(r) \/ Ends(r) \/ Begin(r)
  BY StepMoves
<1> QED  BY <1>2, <1>3, <1>4, <1>5, <1>6, <1>7, <1>8, <1>9 DEF Moves

LEMMA RerunNext ==
  ASSUME TypeInv, Dated, RerunInv, [Next]_vars
  PROVE  RerunInv'
<1>1. CASE UNCHANGED vars
  <2>1. UNCHANGED <<links, queue, pc, req, began, todo, mine>>
    BY <1>1 DEF vars
  <2>2. ASSUME NEW s \in Planners PROVE Rerunning(s)'
    <3>1. \A c : Wanted(s, c)' => Wanted(s, c)
      BY <2>1 DEF Wanted
    <3>2. \A c : Inserts(s, c) => Inserts(s, c)'
      BY <2>1 DEF Inserts
    <3>3. \A c : Queued(s, c) => Queued(s, c)'
      BY <2>1 DEF Queued
    <3>4. Rerunning(s)
      BY DEF RerunInv
    <3> QED  BY <2>1, <3>1, <3>2, <3>3, <3>4 DEF Rerunning
  <2> QED  BY <2>2 DEF RerunInv
<1>2. ASSUME NEW r \in Planners, Step(r), NEW s \in Planners PROVE Rerunning(s)'
  <2>1. req' = req
    BY <1>2, RequestStays
  <2>2. CASE s = r
    <3>1. CASE req[r].kind = "rerun"
      BY <1>2, <2>2, <3>1, RerunningStep
    <3>2. CASE req[r].kind # "rerun"
      BY <2>1, <2>2, <3>2 DEF Rerunning
    <3> QED  BY <3>1, <3>2
  <2>3. CASE s # r
    <3>1. /\ pc'[s] = pc[s] /\ began'[s] = began[s] /\ todo'[s] = todo[s]
          /\ mine'[s] = mine[s]
      BY <1>2, <2>3, OthersStay DEF TypeInv
    <3>2. \A c : /\ Wanted(s, c)' => Wanted(s, c)
                 /\ Queued(s, c) => Queued(s, c)'
                 /\ Inserts(s, c) => Inserts(s, c)'
      BY <1>2, <2>1, <3>1, WantedStays, QueuedStays DEF Inserts
    <3>3. Rerunning(s)
      BY DEF RerunInv
    <3> QED  BY <2>1, <3>1, <3>2, <3>3 DEF Rerunning
  <2> QED  BY <2>2, <2>3
<1> QED  BY <1>1, <1>2 DEF Next, Step, RerunInv

\* An answered request for a rerun leaves each of its cases queued, or closed since it began:
\* request_rerun passes over a case only while an open rerun of it is there.
THEOREM RerunIsQueuedHolds == Spec => []RerunIsQueued
<1>1. RerunInv => RerunIsQueued
  <2> SUFFICES ASSUME RerunInv, NEW r \in Planners, req[r].kind = "rerun",
                      pc[r] \in {"reply", "done"},
                      NEW c \in Elements(req[r].cases) \cup
                        (IF req[r].cases # << >> THEN {}
                         ELSE {x.case : x \in {y \in links : /\ y.plan = PlanOf[req[r].on]
                                                             /\ y.ended <= began[r]}})
               PROVE  \E a \in queue : /\ a.type = "rerun" /\ a.build = req[r].on /\ a.case = c
                                       /\ a.status = "open" \/ a.changed > began[r]
    BY DEF RerunIsQueued
  <2>1. Wanted(r, c)
    BY DEF Wanted
  <2> QED  BY <2>1 DEF RerunInv, Rerunning, Queued
<1>2. Init => TypeInv /\ Dated /\ RerunInv
  <2>1. Init => RerunInv
    BY DEF Init, RerunInv, Rerunning
  <2> QED  BY <2>1, TypeInit, DatedInit
<1>3. TypeInv /\ Dated /\ RerunInv /\ [Next]_vars => (TypeInv /\ Dated /\ RerunInv)'
  BY TypeNext, DatedNext, RerunNext
<1> QED  BY <1>1, <1>2, <1>3, PTL DEF Spec

-----------------------------------------------------------------------------
(***************************************************************************)
(* One row where one is meant                                              *)
(***************************************************************************)

\* A link y of a request that began at t, beside a link x there was at some time: what
\* LinkedOnce asks of x and y.
Beside(x, y, t) ==
  /\ x.case = y.case /\ x.platform = y.platform =>
       \/ x.version = y.version /\ y.looked < x.ended
       \/ x.version # y.version /\ (y.version > x.version \/ t < x.ended)
  /\ x.order = y.order => t < x.ended

Adding(r) ==
  req[r].kind = "add" /\ pc[r] \in {"pin", "find"} =>
    /\ \A y \in mine[r] : y.plan = req[r].on
    /\ \A y, z \in mine[r] : y.order = z.order => y = z
    /\ \A x \in links : x.plan = req[r].on =>
         /\ x.ended <= began[r] => x.order < order[r]
         /\ \A y \in mine[r] : Beside(x, y, began[r])
         /\ pc[r] = "find" /\ x.case = Head(todo[r]) /\ x.version > version[r]
              => began[r] < x.ended

\* The rows a request holds, beside those that were committed since it looked for them.
Finding(r) ==
  req[r].kind \in {"require", "cover"} =>
    \A y \in mine[r], x \in coverage :
      x.req = y.req /\ x.case = y.case /\ x.version = y.version => y.looked < x.ended

Scanning(r) ==
  req[r].kind = "rerun" =>
    \A b \in mine[r], a \in queue :
      a.type = "rerun" /\ a.build = b.build /\ a.case = b.case /\ a.status = "open"
        => b.looked < a.ended \/ a.reopened

OnceInv == SelectedOnce /\ \A r \in Planners : Adding(r) /\ Finding(r) /\ Scanning(r)

LEMMA OnceInit == Init => OnceInv
<1> SUFFICES ASSUME Init PROVE OnceInv
  OBVIOUS
<1>1. /\ \A x, y \in links : x = y
      /\ \A x, y \in coverage : x = y
      /\ \A x, y \in queue : x = y
  BY DEF Init
<1>2. SelectedOnce
  BY <1>1 DEF SelectedOnce, LinkedOnce, CoveredOnce, QueuedOnce
<1>3. \A r \in Planners : Adding(r) /\ Finding(r) /\ Scanning(r)
  BY DEF Init, Adding, Finding, Scanning
<1> QED  BY <1>2, <1>3 DEF OnceInv

\* The tables change where StepMoves says.
LEMMA TablesChange ==
  ASSUME TypeInv, NEW r \in Planners, Step(r)
  PROVE  /\ (CommitRows(r) /\ req[r].kind = "add") \/ links' \subseteq links
         /\ (CommitRows(r) /\ req[r].kind \in {"require", "cover"}) \/ coverage' = coverage
         /\ CommitReruns(r) \/ CreateAssignment(r) \/ UpdateAssignment(r) \/ queue' = queue
<1>1. Moves(r) \/ Ends(r) \/ Begin(r)
  BY StepMoves
<1> QED  BY <1>1
         DEF Moves, Ends, Begin, Pin, FindLink, FindCoverage, CommitRows, ReadVersions,
             ReadLinks, DeleteLinks, Bump, ScanCase, CommitReruns, CreateAssignment,
             UpdateAssignment, Reply, db

\* The links of a commit, beside each other and those that were there.
LEMMA LinkedStep ==
  ASSUME TypeInv, Dated, OnceInv, NEW r \in Planners, Step(r)
  PROVE  LinkedOnce'
<1>0. LinkedOnce /\ Adding(r)
  BY DEF OnceInv, SelectedOnce
<1>1. CASE links' \subseteq links
  BY <1>0, <1>1 DEF LinkedOnce
<1>2. CASE CommitRows(r) /\ req[r].kind = "add"
  <2>1. pc[r] = "pin" /\ links' = links \cup Stamped(r)
    BY <1>2 DEF CommitRows
  <2>2. /\ \A y \in mine[r] : y.plan = req[r].on
        /\ \A y, z \in mine[r] : y.order = z.order => y = z
        /\ \A x \in links : x.plan = req[r].on => \A y \in mine[r] : Beside(x, y, began[r])
    BY <1>2, <2>1, <1>0 DEF Adding
  <2>3. clock \in Nat /\ began[r] \in Nat /\ began[r] <= clock
    BY RowTypes DEF Dated
  <2>4. \A x \in links : x.ended \in Nat /\ x.ended <= clock
    BY RowTypes DEF Dated
  <2>5. \A y \in mine[r] : /\ y \in Link /\ y.looked <= clock /\ y.looked \in Nat
                           /\ y.began = began[r]
    BY <1>2, RowTypes DEF Dated, Pinned, TypeInv, Holds
  <2>6. \A y \in Link : LET z == [y EXCEPT !.ended = clock + 1]
                        IN  /\ z.ended = clock + 1 /\ z.plan = y.plan /\ z.case = y.case
                            /\ z.version = y.version /\ z.platform = y.platform
                            /\ z.order = y.order /\ z.began = y.began /\ z.looked = y.looked
    BY DEF Link
  <2>7. ASSUME NEW x \in links', NEW y \in links', x # y, x.plan = y.plan, x.ended <= y.ended
        PROVE  /\ x.case = y.case /\ x.platform = y.platform
                    => \/ x.version = y.version /\ y.looked < x.ended
                       \/ x.version # y.version /\ (y.version > x.version \/ y.began < x.ended)
               /\ x.order = y.order => x.ended < y.ended /\ y.began < x.ended
    <3>1. CASE x \in links /\ y \in links
      BY <1>0, <2>7, <3>1 DEF LinkedOnce
    <3>2. CASE x \notin links /\ y \in links
      <4>1. x.ended = clock + 1
        <5>1. x \in Stamped(r)
          BY <2>1, <3>2
        <5> QED  BY <5>1, StampedIs
      <4>2. y.ended \in Nat /\ y.ended <= clock
        BY <2>4, <3>2
      <4> QED  BY <2>3, <2>7, <4>1, <4>2
    <3>3. CASE y \notin links
      <4>1. y \in Stamped(r)
        BY <2>1, <3>3
      <4>2. PICK v \in mine[r] : y = [v EXCEPT !.ended = clock + 1]
        BY <4>1 DEF Stamped
      <4>3. /\ y.ended = clock + 1 /\ y.plan = v.plan /\ y.case = v.case
            /\ y.version = v.version /\ y.platform = v.platform
            /\ y.order = v.order /\ y.began = began[r] /\ y.looked = v.looked
        BY <2>5, <2>6, <4>2
      <4>4. CASE x \in links
        <5>1. x.plan = req[r].on
          BY <2>2, <2>7, <4>2, <4>3
        <5>2. Beside(x, v, began[r])
          BY <2>2, <4>4, <5>1
        <5>3. x.ended < y.ended
          BY <2>3, <2>4, <4>3, <4>4
        <5> QED  BY <4>3, <5>2, <5>3 DEF Beside
      <4>5. CASE x \notin links
        <5>1. x \in Stamped(r)
          BY <2>1, <4>5
        <5>2. PICK u \in mine[r] : x = [u EXCEPT !.ended = clock + 1]
          BY <5>1 DEF Stamped
        <5>3. x.ended = clock + 1 /\ x.order = u.order
          BY <2>5, <2>6, <5>2
        <5>4. u # v
          BY <2>7, <4>2, <5>2
        <5>5. x.order # y.order
          BY <2>2, <4>3, <5>3, <5>4
        <5>6. y.looked < x.ended /\ y.began < x.ended
          <6>1. v.looked \in Nat /\ v.looked <= clock
            BY <2>5
          <6> QED  BY <2>3, <4>3, <5>3, <6>1
        <5> QED  BY <5>5, <5>6
      <4> QED  BY <4>4, <4>5
    <3> QED  BY <3>1, <3>2, <3>3
  <2> QED  BY <2>7 DEF LinkedOnce
<1> QED  BY <1>1, <1>2, TablesChange

LEMMA CoveredStep ==
  ASSUME TypeInv, Dated, OnceInv, NEW r \in Planners, Step(r)
  PROVE  CoveredOnce'
<1>0. CoveredOnce /\ Finding(r)
  BY DEF OnceInv, SelectedOnce
<1>1. CASE coverage' = coverage
  BY <1>0, <1>1 DEF CoveredOnce
<1>2. CASE CommitRows(r) /\ req[r].kind \in {"require", "cover"}
  <2>1. coverage' = coverage \cup Stamped(r) /\ clock \in Nat
    BY <1>2, RowTypes DEF CommitRows
  <2>2. ASSUME NEW x \in coverage', NEW y \in coverage', x # y, x.req = y.req,
               x.case = y.case, x.version = y.version, x.ended <= y.ended
        PROVE  y.looked < x.ended
    <3>1. CASE x \in coverage /\ y \in coverage
      BY <1>0, <2>2, <3>1 DEF CoveredOnce
    <3>2. CASE x \notin coverage /\ y \in coverage
      <4>1. x.ended = clock + 1
        <5>1. x \in Stamped(r)
          BY <2>1, <3>2
        <5> QED  BY <5>1, StampedIs
      <4>2. y.ended \in Nat /\ y.ended <= clock
        BY <3>2, RowTypes DEF Dated
      <4> QED  BY <2>1, <2>2, <4>1, <4>2
    <3>3. CASE y \notin coverage
      <4>1. y \in Stamped(r)
        BY <2>1, <3>3
      <4>2. PICK v \in mine[r] : /\ y.looked = v.looked /\ y.case = v.case
                                 /\ y.req = v.req /\ y.version = v.version
        BY <1>2, <4>1, StampedIs
      <4>3. CASE x \in coverage
        BY <1>0, <1>2, <2>2, <4>2, <4>3 DEF Finding
      <4>4. CASE x \notin coverage
        <5>1. x \in Stamped(r)
          BY <2>1, <4>4
        <5>2. x.ended = clock + 1
          BY <5>1, StampedIs
        <5>3. v.looked \in Nat /\ v.looked <= clock
          BY RowTypes DEF Dated
        <5> QED  BY <2>1, <4>2, <5>2, <5>3
      <4> QED  BY <4>3, <4>4
    <3> QED  BY <3>1, <3>2, <3>3
  <2> QED  BY <2>2 DEF CoveredOnce
<1> QED  BY <1>1, <1>2, TablesChange

\* Two reruns of a case in a build, of which one has just been updated.
LEMMA WasQueuedOnce ==
  ASSUME TypeInv, QueuedOnce, NEW a, NEW b, NEW c \in queue, NEW d \in queue,
         Was(a, c), Was(b, d), c # d,
         a.type = "rerun", b.type = "rerun", a.build = b.build, a.case = b.case,
         a.status = "open", b.status = "open", a.ended <= b.ended
  PROVE  b.looked < a.ended \/ a.reopened \/ b.reopened
<1>1. CASE c.status = "open" /\ d.status = "open"
  <2>1. d.looked < c.ended \/ c.reopened \/ d.reopened
    BY <1>1 DEF QueuedOnce, Was
  <2> QED  BY <2>1 DEF Was
<1>2. CASE ~ (c.status = "open" /\ d.status = "open")
  BY <1>2 DEF Was
<1> QED  BY <1>1, <1>2

LEMMA QueuedStep ==
  ASSUME TypeInv, Dated, OnceInv, NEW r \in Planners, Step(r)
  PROVE  QueuedOnce'
<1>0. QueuedOnce /\ Scanning(r) /\ clock \in Nat
  BY RowTypes DEF OnceInv, SelectedOnce
<1>1. CASE queue' = queue
  BY <1>0, <1>1 DEF QueuedOnce
<1>2. CASE CommitReruns(r)
  <2> DEFINE Stamp(a) == [a EXCEPT !.ended = clock + 1, !.changed = clock + 1]
  <2>1. queue' = queue \cup {Stamp(a) : a \in mine[r]} /\ req[r].kind = "rerun"
    <3>1. pc[r] = "scan"
      BY <1>2 DEF CommitReruns
    <3>2. req[r].kind = "rerun"
      BY <3>1, RequestFacts DEF TypeInv, Placed, PlacesOf, Kinds, Final
    <3> QED  BY <1>2, <3>2 DEF CommitReruns
  <2>2. \A a \in mine[r] : a \in Assignment /\ a.looked \in Nat /\ a.looked <= clock
    BY <2>1, RowTypes DEF Dated, TypeInv, Holds
  <2>3. ASSUME NEW x \in queue', x \notin queue
        PROVE  \E v \in mine[r] : /\ x.ended = clock + 1 /\ x.looked = v.looked
                                  /\ x.build = v.build /\ x.case = v.case
    <3>1. PICK v \in mine[r] : x = Stamp(v)
      BY <2>1, <2>3
    <3> QED  BY <2>2, <3>1 DEF Assignment
  <2> HIDE DEF Stamp
  <2>4. ASSUME NEW a \in queue', NEW b \in queue', a # b, a.type = "rerun", b.type = "rerun",
               a.build = b.build, a.case = b.case, a.status = "open", b.status = "open",
               a.ended <= b.ended
        PROVE  b.looked < a.ended \/ a.reopened \/ b.reopened
    <3>1. CASE a \in queue /\ b \in queue
      BY <1>0, <2>4, <3>1 DEF QueuedOnce
    <3>2. CASE a \notin queue /\ b \in queue
      <4>1. a.ended = clock + 1
        BY <2>3, <3>2
      <4>2. b.ended \in Nat /\ b.ended <= clock
        BY <3>2, RowTypes DEF Dated
      <4> QED  BY <1>0, <2>4, <4>1, <4>2
    <3>3. CASE b \notin queue
      <4>1. PICK v \in mine[r] : b.looked = v.looked /\ b.build = v.build /\ b.case = v.case
        BY <2>3, <3>3
      <4>2. CASE a \in queue
        BY <1>0, <2>1, <2>4, <4>1, <4>2 DEF Scanning
      <4>3. CASE a \notin queue
        <5>1. a.ended = clock + 1
          BY <2>3, <4>3
        <5>2. v.looked \in Nat /\ v.looked <= clock
          BY <2>2
        <5> QED  BY <1>0, <4>1, <5>1, <5>2
      <4> QED  BY <4>2, <4>3
    <3> QED  BY <3>1, <3>2, <3>3
  <2> QED  BY <2>4 DEF QueuedOnce
<1>3. CASE CreateAssignment(r)
  <2> DEFINE new == [NewAssignment(r, None, req[r].cases[1])
                       EXCEPT !.ended = clock + 1, !.changed = clock + 1]
  <2>1. queue' = queue \cup {new}
    BY <1>3 DEF CreateAssignment
  <2>2. new.type # "rerun"
    BY DomainAssumption DEF NewAssignment
  <2> HIDE DEF new
  <2> QED  BY <1>0, <2>1, <2>2 DEF QueuedOnce
<1>4. CASE UpdateAssignment(r)
  <2> DEFINE status == IF req[r].kind = "close" THEN "done" ELSE "open"
             Set(a) == [a EXCEPT !.status = status, !.changed = clock + 1,
                                 !.reopened = @ \/ (status = "open" /\ a.status = "done")]
  <2>1. PICK c \in queue : queue' = (queue \ {c}) \cup {Set(c)}
    BY <1>4 DEF UpdateAssignment
  <2>2. c \in Assignment
    BY DEF TypeInv, TypeOK
  <2>3. Was(Set(c), c)
    <3>1. /\ Set(c).type = c.type /\ Set(c).build = c.build /\ Set(c).case = c.case
          /\ Set(c).looked = c.looked /\ Set(c).ended = c.ended /\ Set(c).status = status
      BY <2>2 DEF Assignment
    <3>2. Set(c).reopened <=> (c.reopened \/ (status = "open" /\ c.status = "done"))
      BY <2>2, Zenon DEF Assignment
    <3>3. c.status \in {"open", "done"}
      BY <2>2 DEF Assignment
    <3> HIDE DEF Set
    <3> QED  BY <3>1, <3>2, <3>3 DEF Was
  <2> HIDE DEF Set
  <2>4. \A x \in queue : Was(x, x)
    BY DEF Was
  <2>5. ASSUME NEW a \in queue', NEW b \in queue', a # b
        PROVE  \E x, y \in queue : Was(a, x) /\ Was(b, y) /\ x # y
    <3>1. CASE a = Set(c)
      <4>1. b \in queue /\ b # c
        BY <2>1, <2>5, <3>1
      <4> QED  BY <2>3, <2>4, <3>1, <4>1
    <3>2. CASE a # Set(c)
      <4>1. a \in queue /\ a # c
        BY <2>1, <3>2
      <4>2. CASE b = Set(c)
        BY <2>3, <2>4, <4>1, <4>2
      <4>3. CASE b # Set(c)
        BY <2>1, <2>4, <2>5, <4>1, <4>3
      <4> QED  BY <4>2, <4>3
    <3> QED  BY <3>1, <3>2
  <2>6. ASSUME NEW a \in queue', NEW b \in queue', a # b, a.type = "rerun", b.type = "rerun",
               a.build = b.build, a.case = b.case, a.status = "open", b.status = "open",
               a.ended <= b.ended
        PROVE  b.looked < a.ended \/ a.reopened \/ b.reopened
    <3>1. PICK x, y \in queue : Was(a, x) /\ Was(b, y) /\ x # y
      BY <2>5, <2>6
    <3> QED  BY <1>0, <2>6, <3>1, WasQueuedOnce
  <2> QED  BY <2>6 DEF QueuedOnce
<1> QED  BY <1>1, <1>2, <1>3, <1>4, TablesChange

\* A link that comes after a request began is no obstacle to it.
LEMMA LateLinks ==
  ASSUME TypeInv, Dated, NEW r \in Planners, Step(r), NEW s \in Planners,
         req[s].kind = "add", NEW x \in links', x \notin links
  PROVE  /\ ~ x.ended <= began[s] /\ began[s] < x.ended
         /\ \A y \in mine[s] : Beside(x, y, began[s])
<1>1. x.ended = clock + 1
  BY TablesGrow DEF Grown
<1>2. began[s] \in Nat /\ clock \in Nat /\ began[s] <= clock
  BY RowTypes DEF Dated
<1>3. ~ x.ended <= began[s] /\ began[s] < x.ended
  BY <1>1, <1>2
<1>4. \A y \in mine[s] : y.looked < x.ended
  <2>1. \A y \in mine[s] : y.looked \in Nat /\ y.looked <= clock
    BY RowTypes DEF Dated
  <2> QED  BY <1>1, <1>2, <2>1
<1>5. \A y \in mine[s] : Beside(x, y, began[s])
  BY <1>3, <1>4 DEF Beside
<1> QED  BY <1>3, <1>5

LEMMA AddingStep ==
  ASSUME TypeInv, Dated, OnceInv, NEW r \in Planners, Step(r), req[r].kind = "add"
  PROVE  Adding(r)'
<1>0. /\ TypeOK /\ OrdersBounded /\ Adding(r) /\ Holds(r) /\ Resolved(r) /\ req' = req
      /\ pc \in [Planners -> {"idle"} \cup Working \cup Final]
      /\ mine \in [Planners -> SUBSET (Link \cup Coverage \cup Assignment)]
      /\ began \in [Planners -> Nat] /\ order \in [Planners -> Nat]
      /\ version \in [Planners -> Nat]
  BY RequestStays DEF TypeInv, TypeOK, OnceInv
<1>1. CASE Ends(r) \/ CommitRows(r) \/ Reply(r)
  <2>1. pc'[r] \notin {"pin", "find"}
    BY <1>0, <1>1 DEF Ends, CommitRows, Reply, Goto
  <2> QED  BY <2>1 DEF Adding
<1>2. CASE Begin(r)
  <2>1. links' = links /\ mine'[r] = {} /\ pc'[r] \in {"pin", "rejected"}
    BY <1>0, <1>2 DEF Begin, Goto, Entry, Holds, db
  <2>2. pc'[r] = "pin" => order'[r] = NextOrder(req[r].on)
    BY <1>0, <1>2 DEF Begin, Goto
  <2>3. \A x \in links : x.plan = req[r].on => x.order < NextOrder(req[r].on)
    BY <1>0, NextOrderFacts
  <2> QED  BY <1>0, <2>1, <2>2, <2>3 DEF Adding
<1>3. CASE Pin(r)
  <2>1. /\ pc[r] = "pin" /\ pc'[r] = "find" /\ version'[r] = versions[Head(todo[r])]
        /\ UNCHANGED <<links, versions, todo, mine, began, order>>
    BY <1>0, <1>3 DEF Pin, Goto, db
  <2>2. \A x \in links : ~ (x.case = Head(todo[r]) /\ x.version > version'[r])
    <3>1. \A x \in links : /\ x.version <= versions[x.case] /\ x.version \in Nat
                           /\ versions[x.case] \in Nat
      BY RowTypes DEF Dated
    <3> QED  BY <2>1, <3>1
  <2> QED  BY <1>0, <2>1, <2>2 DEF Adding
<1>4. CASE FindLink(r)
  <2> PICK c : c = Head(todo[r])
    OBVIOUS
  <2> DEFINE new == NewLink(r, c)
             found == LinksTo(r, c)
  <2>1. /\ pc[r] = "find" /\ pc'[r] = "pin" /\ UNCHANGED <<links, began>>
        /\ mine'[r] = IF found = {} THEN mine[r] \cup {new} ELSE mine[r]
        /\ order'[r] = IF found = {} THEN order[r] + 1 ELSE order[r]
    BY <1>0, <1>4 DEF FindLink, Goto, db
  <2>2. /\ new.plan = req[r].on /\ new.case = c /\ new.version = version[r]
        /\ new.platform = req[r].platform /\ new.order = order[r]
    BY DEF NewLink
  <2>3. \A y \in mine[r] : y.order \in Nat /\ y.order < order[r]
    BY <1>0, RowTypes DEF Holds
  <2>4. order[r] \in Nat /\ began[r] \in Nat /\ version[r] \in Nat
    BY <1>0
  <2>5. ASSUME NEW x \in links, x.plan = req[r].on
        PROVE  /\ x.ended <= began[r] => x.order < order[r]
               /\ \A y \in mine[r] : Beside(x, y, began[r])
               /\ x.case = c /\ x.version > version[r] => began[r] < x.ended
    BY <1>0, <2>1, <2>5 DEF Adding
  <2>6. CASE found # {}
    <3>1. mine'[r] = mine[r] /\ order'[r] = order[r]
      BY <2>1, <2>6
    <3> QED  BY <1>0, <2>1, <3>1 DEF Adding
  <2>7. CASE found = {}
    <3>1. mine'[r] = mine[r] \cup {new} /\ order'[r] = order[r] + 1
      BY <2>1, <2>7
    <3>2. ASSUME NEW x \in links, x.plan = req[r].on PROVE Beside(x, new, began[r])
      <4>1. x.version \in Nat /\ x.order \in Nat /\ x.ended \in Nat
        BY RowTypes
      <4>2. ~ (x.case = c /\ x.version = version[r] /\ x.platform = req[r].platform)
        BY <2>7, <3>2 DEF LinksTo
      <4>3. x.case = c /\ x.version # version[r] => version[r] > x.version \/ began[r] < x.ended
        BY <2>4, <2>5, <3>2, <4>1
      <4>4. x.order = order[r] => began[r] < x.ended
        BY <2>4, <2>5, <3>2, <4>1
      <4> HIDE DEF new
      <4> QED  BY <2>2, <4>2, <4>3, <4>4 DEF Beside
    <3> HIDE DEF new, found
    <3>3. \A y \in mine'[r] : y.plan = req[r].on
      BY <1>0, <2>1, <2>2, <3>1 DEF Adding
    <3>4. \A y, z \in mine'[r] : y.order = z.order => y = z
      <4>1. \A y, z \in mine[r] : y.order = z.order => y = z
        BY <1>0, <2>1 DEF Adding
      <4>2. \A y \in mine[r] : y.order # order[r]
        BY <2>3, <2>4
      <4> QED  BY <2>2, <3>1, <4>1, <4>2
    <3>5. ASSUME NEW x \in links, x.plan = req[r].on
          PROVE  /\ x.ended <= began[r] => x.order < order'[r]
                 /\ \A y \in mine'[r] : Beside(x, y, began[r])
      <4>1. x.order \in Nat
        BY RowTypes
      <4>2. x.ended <= began[r] => x.order < order[r] + 1
        BY <2>4, <2>5, <3>5, <4>1
      <4> QED  BY <2>5, <3>1, <3>2, <3>5, <4>2
    <3> QED  BY <1>0, <2>1, <3>3, <3>4, <3>5 DEF Adding
  <2> QED  BY <2>6, <2>7
<1>5. CASE CreateAssignment(r) \/ UpdateAssignment(r) \/ Bump(r)
  BY <1>0, <1>5 DEF CreateAssignment, UpdateAssignment, Bump
<1>6. Moves(r) \/ Ends(r) \/ Begin(r)
  BY StepMoves
<1> QED  BY <1>1, <1>2, <1>3, <1>4, <1>5, <1>6 DEF Moves

\* A request that inserts a row has just found none like it.
LEMMA FindingStep ==
  ASSUME TypeInv, Dated, OnceInv, NEW r \in Planners, Step(r),
         req[r].kind \in {"require", "cover"}
  PROVE  Finding(r)'
<1>0. /\ Finding(r) /\ req' = req /\ TypeInv'
      /\ mine \in [Planners -> SUBSET (Link \cup Coverage \cup Assignment)]
  BY RequestStays, TypeStep DEF TypeInv, TypeOK, OnceInv
<1>1. CASE mine'[r] = {}
  BY <1>1 DEF Finding
<1>2. CASE mine' = mine /\ coverage' = coverage
  BY <1>0, <1>2 DEF Finding
<1>3. CASE FindCoverage(r)
  <2> PICK c : c = Head(todo[r])
    OBVIOUS
  <2> DEFINE new == NewCoverage(r, c)
             found == CoverageOf(r, c)
  <2>1. /\ coverage' = coverage
        /\ mine'[r] = IF found = {} THEN mine[r] \cup {new} ELSE mine[r]
    BY <1>0, <1>3 DEF FindCoverage, db
  <2>2. new.req = Covering(r) /\ new.case = c /\ new.version = version[r]
    BY DEF NewCoverage
  <2>3. found = {} => \A x \in coverage :
          ~ (x.req = Covering(r) /\ x.case = c /\ x.version = version[r])
    BY DEF CoverageOf
  <2> HIDE DEF new, found
  <2> QED  BY <1>0, <2>1, <2>2, <2>3 DEF Finding
<1>4. CASE Ends(r) \/ CommitRows(r) \/ Reply(r) \/ CreateAssignment(r) \/ UpdateAssignment(r)
             \/ Bump(r)
  <2>1. pc'[r] \in {"idle", "reply"} \cup Final
    BY <1>4 DEF Ends, CommitRows, Reply, CreateAssignment, UpdateAssignment, Bump, Goto, TypeInv,
                TypeOK, Final
  <2> QED  BY <1>0, <1>1, <2>1 DEF TypeInv, Holds
<1>5. CASE Begin(r) \/ Pin(r)
  BY <1>2, <1>5 DEF Begin, Pin, db
<1>6. Moves(r) \/ Ends(r) \/ Begin(r)
  BY StepMoves
<1> QED  BY <1>3, <1>4, <1>5, <1>6 DEF Moves

LEMMA ScanningStep ==
  ASSUME TypeInv, Dated, OnceInv, NEW r \in Planners, Step(r), req[r].kind = "rerun"
  PROVE  Scanning(r)'
<1>0. /\ Scanning(r) /\ req' = req /\ TypeInv'
      /\ mine \in [Planners -> SUBSET (Link \cup Coverage \cup Assignment)]
  BY RequestStays, TypeStep DEF TypeInv, TypeOK, OnceInv
<1>1. CASE mine'[r] = {}
  BY <1>1 DEF Scanning
<1>2. CASE ScanCase(r)
  <2> PICK c : c = Head(todo[r])
    OBVIOUS
  <2> DEFINE new == NewAssignment(r, "rerun", c)
             found == OpenReruns(req[r].on, c)
  <2>1. /\ queue' = queue
        /\ mine'[r] = IF found = {} THEN mine[r] \cup {new} ELSE mine[r]
    BY <1>0, <1>2 DEF ScanCase, db
  <2>2. new.build = req[r].on /\ new.case = c
    BY DEF NewAssignment
  <2>3. found = {} => \A a \in queue :
          ~ (a.type = "rerun" /\ a.build = req[r].on /\ a.case = c /\ a.status = "open")
    BY DEF OpenReruns
  <2> HIDE DEF new, found
  <2> QED  BY <1>0, <2>1, <2>2, <2>3 DEF Scanning
<1>3. CASE Ends(r) \/ CommitReruns(r) \/ Reply(r) \/ CreateAssignment(r) \/ UpdateAssignment(r)
             \/ Bump(r)
  <2>1. pc'[r] \in {"idle", "reply"} \cup Final
    BY <1>3 DEF Ends, CommitReruns, Reply, CreateAssignment, UpdateAssignment, Bump, Goto,
                TypeInv, TypeOK, Final
  <2> QED  BY <1>0, <1>1, <2>1 DEF TypeInv, Holds
<1>4. CASE Begin(r)
  BY <1>0, <1>4 DEF Begin, db, Scanning
<1>5. Moves(r) \/ Ends(r) \/ Begin(r)
  BY StepMoves
<1> QED  BY <1>2, <1>3, <1>4, <1>5 DEF Moves

LEMMA OnceStep ==
  ASSUME TypeInv, Dated, OnceInv, NEW r \in Planners, Step(r)
  PROVE  OnceInv'
<1>0. req' = req /\ Grown
  BY RequestStays, TablesGrow
<1>1. SelectedOnce'
  BY LinkedStep, CoveredStep, QueuedStep DEF SelectedOnce
<1>2. (Adding(r) /\ Finding(r) /\ Scanning(r))'
  <2>1. Adding(r)'
    BY <1>0, AddingStep DEF Adding
  <2>2. Finding(r)'
    BY <1>0, FindingStep DEF Finding
  <2>3. Scanning(r)'
    BY <1>0, ScanningStep DEF Scanning
  <2> QED  BY <2>1, <2>2, <2>3
<1>3. ASSUME NEW s \in Planners, s # r PROVE (Adding(s) /\ Finding(s) /\ Scanning(s))'
  <2>1. /\ pc'[s] = pc[s] /\ began'[s] = began[s] /\ todo'[s] = todo[s]
        /\ version'[s] = version[s] /\ order'[s] = order[s] /\ mine'[s] = mine[s]
    BY <1>3, OthersStay DEF TypeInv
  <2>2. Adding(s) /\ Finding(s) /\ Scanning(s)
    BY DEF OnceInv
  <2>3. clock \in Nat /\ \A y \in mine[s] : y.looked \in Nat /\ y.looked <= clock
    BY RowTypes DEF Dated
  <2>4. \A y \in mine[s] : y.looked < clock + 1
    BY <2>3
  <2>5. Adding(s)'
    <3> SUFFICES ASSUME req[s].kind = "add", pc[s] \in {"pin", "find"}
                 PROVE  Adding(s)'
      BY <1>0, <2>1 DEF Adding
    <3>1. /\ \A y \in mine[s] : y.plan = req[s].on
          /\ \A y, z \in mine[s] : y.order = z.order => y = z
      BY <2>2 DEF Adding
    <3>2. ASSUME NEW x \in links', x.plan = req[s].on
          PROVE  /\ x.ended <= began[s] => x.order < order[s]
                 /\ \A y \in mine[s] : Beside(x, y, began[s])
                 /\ pc[s] = "find" /\ x.case = Head(todo[s]) /\ x.version > version[s]
                      => began[s] < x.ended
      <4>1. CASE x \in links
        BY <2>2, <3>2, <4>1 DEF Adding
      <4>2. CASE x \notin links
        BY <4>2, LateLinks
      <4> QED  BY <4>1, <4>2
    <3> QED  BY <1>0, <2>1, <3>1, <3>2 DEF Adding
  <2>6. Finding(s)'
    BY <1>0, <2>1, <2>2, <2>4 DEF Finding, Grown
  <2>7. Scanning(s)'
    <3> SUFFICES ASSUME req[s].kind = "rerun", NEW b \in mine[s], NEW a \in queue',
                        a.type = "rerun", a.build = b.build, a.case = b.case, a.status = "open"
                 PROVE  b.looked < a.ended \/ a.reopened
      BY <1>0, <2>1 DEF Scanning
    <3>1. CASE \E c \in queue : Was(a, c)
      <4>1. PICK c \in queue : Was(a, c)
        BY <3>1
      <4>2. CASE c.status = "open"
        <5>1. b.looked < c.ended \/ c.reopened
          BY <2>2, <4>1, <4>2 DEF Scanning, Was
        <5> QED  BY <4>1, <5>1 DEF Was
      <4>3. CASE c.status # "open"
        BY <4>1, <4>3 DEF Was
      <4> QED  BY <4>2, <4>3
    <3>2. CASE a.ended = clock + 1
      BY <2>4, <3>2
    <3> QED  BY <1>0, <3>1, <3>2 DEF Grown
  <2> QED  BY <2>5, <2>6, <2>7
<1> QED  BY <1>1, <1>2, <1>3 DEF OnceInv

LEMMA OnceNext ==
  ASSUME TypeInv, Dated, OnceInv, [Next]_vars
  PROVE  OnceInv'
<1>1. CASE UNCHANGED vars
  <2>1. UNCHANGED <<links, coverage, queue, pc, req, began, todo, version, order, mine>>
    BY <1>1 DEF vars
  <2>2. SelectedOnce'
    BY <2>1 DEF OnceInv, SelectedOnce, LinkedOnce, CoveredOnce, QueuedOnce
  <2>3. ASSUME NEW r \in Planners PROVE (Adding(r) /\ Finding(r) /\ Scanning(r))'
    <3>1. Adding(r) /\ Finding(r) /\ Scanning(r)
      BY DEF OnceInv
    <3>2. Adding(r)'
      BY <2>1, <3>1 DEF Adding
    <3>3. Finding(r)'
      BY <2>1, <3>1 DEF Finding
    <3>4. Scanning(r)'
      BY <2>1, <3>1 DEF Scanning
    <3> QED  BY <3>2, <3>3, <3>4
  <2> QED  BY <2>2, <2>3 DEF OnceInv
<1>2. ASSUME NEW r \in Planners, Step(r) PROVE OnceInv'
  BY <1>2, OnceStep
<1> QED  BY <1>1, <1>2 DEF Next, Step

\* A list filled by look-up-then-insert holds a row twice only where two requests overlapped,
\* a case got a new version in between, or a closed rerun was opened again.
THEOREM SelectedOnceHolds == Spec => []SelectedOnce
<1>1. OnceInv => SelectedOnce
  BY DEF OnceInv
<1>2. Init => TypeInv /\ Dated /\ OnceInv
  BY TypeInit, DatedInit, OnceInit
<1>3. TypeInv /\ Dated /\ OnceInv /\ [Next]_vars => (TypeInv /\ Dated /\ OnceInv)'
  BY TypeNext, DatedNext, OnceNext
<1> QED  BY <1>1, <1>2, <1>3, PTL DEF Spec

-----------------------------------------------------------------------------
(***************************************************************************)
(* Progress: no step undoes progress, the request's own or another's.      *)
(***************************************************************************)

\* How far a place is from the end of the client's attempt; the cases of a list are gone
\* through in one stage.
Stage(p) ==
  CASE p = "known" -> 6 [] p = "linked" -> 5 [] p = "delete" -> 4
    [] p \in {"pin", "find", "scan", "write"} -> 3 [] p = "reply" -> 2
    [] p \in Final -> 1 [] p = "idle" -> 0

\* r uses up an attempt, gets to a later stage of one, is through with a case of its list, or
\* has pinned the version of the next.
Advances(r) ==
  \/ attempts[r] < attempts'[r]
  \/ /\ attempts'[r] = attempts[r]
     /\ \/ Stage(pc'[r]) < Stage(pc[r])
        \/ <<pc[r], pc'[r]>> \in {<<"find", "pin">>, <<"scan", "scan">>}
             /\ Len(todo'[r]) < Len(todo[r])
        \/ pc[r] = "pin" /\ pc'[r] = "find" /\ todo'[r] = todo[r]

\* Nothing of that changes for s.
StaysPut(s) == attempts'[s] = attempts[s] /\ pc'[s] = pc[s] /\ todo'[s] = todo[s]

\* Every step takes one request further, and none further back.
EveryStepAdvances ==
  [][\E r \in Planners : Advances(r) /\ \A s \in Planners \ {r} : StaysPut(s)]_vars

\* Each step uses up something there is only so much of: the client's attempts, the places of
\* the handler, the cases of the list.  Races, crashes and refusals only ever end an attempt.
THEOREM EveryStepAdvancesHolds == Spec => EveryStepAdvances
<1> DEFINE A == \E r \in Planners : Advances(r) /\ \A s \in Planners \ {r} : StaysPut(s)
<1>1. ASSUME TypeInv, NEW r \in Planners, Step(r)
      PROVE  Advances(r)
  <2>0. /\ pc \in [Planners -> {"idle"} \cup Working \cup Final]
        /\ attempts \in [Planners -> 0..MaxAttempts]
        /\ todo \in [Planners -> Seq(Cases \cup {"ghost"})]
        /\ req[r].kind \in Kinds
        /\ (pc[r] = "find" => todo[r] # << >>)
    BY <1>1, RequestFacts DEF TypeInv, TypeOK, Resolved
  <2>1. todo[r] # << >> => Len(Tail(todo[r])) < Len(todo[r])
    <3>1. todo[r] # << >> => Len(todo[r]) \in Nat /\ Len(Tail(todo[r])) = Len(todo[r]) - 1
      BY <2>0, HeadTailProperties, LenProperties
    <3> QED  BY <3>1
  <2> USE <2>0 DEF Rollback, Close, Goto, Final, Advances, Stage, db, session, client
  <2>2. CASE Begin(r)
    BY <2>2 DEF Begin
  <2>3. CASE Pin(r)
    BY <2>3 DEF Pin
  <2>4. CASE Refuse(r) \/ Ambiguous(r) \/ FailKey(r) \/ NoAssignment(r)
    BY <2>4 DEF Refuse, Ambiguous, FailKey, NoAssignment
  <2>5. CASE FindLink(r)
    BY <2>1, <2>5 DEF FindLink
  <2>6. CASE FindCoverage(r)
    BY <2>1, <2>6 DEF FindCoverage
  <2>7. CASE CommitRows(r) \/ Bump(r) \/ CommitReruns(r) \/ CreateAssignment(r)
    <3>1. attempts' = attempts /\ pc'[r] = "reply" /\ pc[r] \in {"pin", "scan", "write"}
      BY <2>7 DEF CommitRows, Bump, CommitReruns, CreateAssignment
    <3> QED  BY <3>1
  <2>8. CASE UpdateAssignment(r)
    BY <2>8 DEF UpdateAssignment
  <2>9. CASE ReadVersions(r) \/ ReadLinks(r) \/ DeleteLinks(r)
    BY <2>9 DEF ReadVersions, ReadLinks, DeleteLinks
  <2>10. CASE ScanCase(r)
    BY <2>1, <2>10 DEF ScanCase
  <2>11. CASE Crash(r)
    BY <2>11 DEF Crash, Working
  <2>12. CASE Reply(r) \/ Retry(r)
    BY <2>12 DEF Reply, Retry
  <2> QED  BY <1>1, <2>2, <2>3, <2>4, <2>5, <2>6, <2>7, <2>8, <2>9, <2>10, <2>11, <2>12
           DEF Step, Handle, Select, Remove, Enqueue
<1>2. ASSUME TypeInv, NEW r \in Planners, Step(r), NEW s \in Planners \ {r}
      PROVE  StaysPut(s)
  BY <1>2, OthersStay DEF TypeInv, StaysPut
<1>3. TypeInv /\ [Next]_vars => [A]_vars
  BY <1>1, <1>2 DEF Next, Step
<1> QED  BY <1>3, TypeInit, TypeNext, PTL DEF EveryStepAdvances, Spec

=============================================================================
