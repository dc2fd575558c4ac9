------------------------- MODULE DependenciesProofs -------------------------
(***************************************************************************)
(* Proofs about Dependencies: for any cases, clients and number of         *)
(* requests, a cycle or a duplicate in the table needs overlapping         *)
(* requests.                                                               *)
(*                                                                         *)
(* The argument: when a request inserts its row, the set of cases it has   *)
(* visited holds the prerequisite, not the case, and is closed under every *)
(* relation committed before it began; those relations never change, since *)
(* a later commit ends later.                                              *)
(***************************************************************************)
EXTENDS Dependencies, FiniteSetTheorems, TLAPS

\* Commits and open requests are in the past.
Past ==
  /\ \A x \in relations : x.began < x.ended /\ x.ended <= clock
  /\ \A r \in Clients : pc[r] \in InFlight => began[r] < clock

\* A request that got past the argument checks asks for a sound pair.
Accepted ==
  \A r \in Clients :
    pc[r] \in InFlight \cup {"cycle"} =>
      /\ ask[r] \in Pairs /\ Source(r) \in Cases /\ Dest(r) \in Cases
      /\ Project[Source(r)] = Project[Dest(r)]

\* The search has not met the case, and whatever an old relation leads to from a visited
\* case is visited or waits on the stack, which holds only what the prerequisite leads to.
Searching(r) ==
  pc[r] \in InFlight =>
    /\ Dest(r) \in visited[r] \cup stack[r]
    /\ Source(r) \notin visited[r]
    /\ \A c \in visited[r] : Prerequisites(Before(began[r]), c) \subseteq visited[r] \cup stack[r]
    /\ stack[r] \subseteq Reach(relations, Dest(r))

\* A request about to insert has nothing left to visit, and its pair was not in the table
\* when it began.
Inserting(r) ==
  pc[r] = "insert" =>
    /\ stack[r] = {}
    /\ \A y \in Before(began[r]) : ~(y.source = Source(r) /\ y.dest = Dest(r))

\* A client between requests has no search going on.
Resting(r) == pc[r] \notin InFlight => visited[r] = {}

Inv == /\ TypeOK /\ Past /\ Accepted
       /\ \A r \in Clients : Resting(r) /\ Searching(r) /\ Inserting(r)
       /\ CyclesNeedARace /\ DuplicatesNeedARace /\ RefusalsAreReal

-----------------------------------------------------------------------------
(***************************************************************************)
(* Reachability                                                            *)
(***************************************************************************)

\* A closed set that holds c holds everything reachable from c.
LEMMA ReachLeast ==
  ASSUME NEW rs, NEW c, NEW S \in SUBSET Cases, c \in S, Closed(rs, S)
  PROVE  Reach(rs, c) \subseteq S
  BY DEF Reach

\* What is reachable from c holds c and is closed.
LEMMA ReachClosed ==
  ASSUME NEW rs \in SUBSET Relation, NEW c \in Cases
  PROVE  c \in Reach(rs, c) /\ Closed(rs, Reach(rs, c))
  BY DEF Reach, Closed, Prerequisites, Relation

\* More relations reach further.
LEMMA ReachGrows ==
  ASSUME NEW rs, NEW rt, rs \subseteq rt, NEW c
  PROVE  Reach(rs, c) \subseteq Reach(rt, c)
  BY DEF Reach, Closed, Prerequisites

\* A relation that closes no cycle by itself leaves a graph without cycles without
\* cycles.
LEMMA EdgeKeepsNoCycle ==
  ASSUME NEW rs \in SUBSET Relation, NEW e \in Relation,
         NoCycle(rs), e.source \notin Reach(rs, e.dest)
  PROVE  NoCycle(rs \cup {e})
<1> DEFINE new == rs \cup {e}
           B == Reach(rs, e.dest)
<1>1. e.dest \in B /\ Closed(rs, B) /\ B \subseteq Cases
  BY ReachClosed DEF Relation, Reach
<1>2. Closed(new, B)
  BY <1>1 DEF Closed, Prerequisites
<1>3. Reach(new, e.dest) \subseteq B
  BY <1>1, <1>2, ReachLeast
<1>4. ASSUME NEW y \in rs, y.source \in Reach(new, y.dest)
      PROVE  FALSE
  <2> DEFINE A == Reach(rs, y.dest)
  <2>1. y.dest \in A /\ Closed(rs, A) /\ A \subseteq Cases /\ y.dest \in Cases
    BY ReachClosed DEF Relation, Reach
  <2>2. y.source \notin A
    BY DEF NoCycle
  <2>3. CASE e.source \notin A
    <3>1. Closed(new, A)
      BY <2>1, <2>3 DEF Closed, Prerequisites
    <3>2. Reach(new, y.dest) \subseteq A
      BY <2>1, <3>1, ReachLeast
    <3> QED  BY <1>4, <2>2, <3>2
  <2>4. CASE e.source \in A
    <3>1. Closed(new, A \cup B)
      BY <1>1, <2>1 DEF Closed, Prerequisites
    <3>2. Reach(new, y.dest) \subseteq A \cup B
      BY <1>1, <2>1, <3>1, ReachLeast
    <3>3. y.source \in B
      BY <1>4, <2>2, <3>2
    <3>4. y.dest \in B
      BY <1>1, <3>3 DEF Closed, Prerequisites
    <3>5. A \subseteq B
      BY <1>1, <3>4, ReachLeast
    <3> QED  BY <2>4, <3>5
  <2> QED  BY <2>3, <2>4
<1> QED  BY <1>3, <1>4 DEF NoCycle

-----------------------------------------------------------------------------
(***************************************************************************)
(* The invariant                                                           *)
(***************************************************************************)

\* A row committed now does not count as committed before a request already open.
LEMMA BeforeKept ==
  ASSUME NEW t \in Nat, t < clock, clock \in Nat,
         relations' = relations \/ \E r \in Clients : relations' = relations \cup {Edge(r)}
  PROVE  Before(t)' = Before(t)
  BY DEF Before, Edge

\* The invariant holds before any request.
LEMMA InvInit == Init => Inv
  BY DomainAssumption
     DEF Init, Inv, TypeOK, Past, Accepted, Resting, Searching, Inserting, InFlight, Answered, Relation,
         CyclesNeedARace, DuplicatesNeedARace, RefusalsAreReal

Step(r) == Send(r) \/ Handle(r) \/ Crash(r)

\* What one step of r can touch: its own bookkeeping, and the table, to which it adds its
\* row if it adds any.
LEMMA StepFrame ==
  ASSUME Inv, NEW r \in Clients, Step(r)
  PROVE  /\ relations' = relations \/ (pc[r] = "insert" /\ relations' = relations \cup {Edge(r)})
         /\ clock' \in Nat /\ clock <= clock'
         /\ \A s \in Clients \ {r} : /\ pc'[s] = pc[s] /\ ask'[s] = ask[s] /\ began'[s] = began[s]
                                     /\ stack'[s] = stack[s] /\ visited'[s] = visited[s]
<1> USE DEF Inv, TypeOK
<1>1. CASE Send(r)
  BY <1>1 DEF Send
<1>2. CASE FindCycle(r) \/ Commit(r) \/ Crash(r)
  BY <1>2 DEF FindCycle, Commit, Crash, Answer
<1>3. CASE Visit(r)
  BY <1>3 DEF Visit
<1>4. CASE Lookup(r)
  BY <1>4 DEF Lookup, Answer
<1> QED  BY <1>1, <1>2, <1>3, <1>4 DEF Step, Handle

\* Every step keeps the types.
LEMMA TypeStep ==
  ASSUME Inv, NEW r \in Clients, Step(r)
  PROVE  TypeOK'
<1> USE DEF Inv, TypeOK, InFlight, Answered
<1>1. CASE Send(r)
  <2>1. PICK p \in Pairs :
          /\ ask' = [ask EXCEPT ![r] = p]
          /\ IF Refused(p[1], p[2])
               THEN pc' = [pc EXCEPT ![r] = "refused"] /\ UNCHANGED stack
               ELSE pc' = [pc EXCEPT ![r] = "search"] /\ stack' = [stack EXCEPT ![r] = {p[2]}]
    BY <1>1 DEF Send
  <2>2. ask' \in [Clients -> Pairs \cup {<<>>}] /\ began' \in [Clients -> Nat] /\ clock' \in Nat
    BY <1>1, <2>1 DEF Send
  <2>3. sent' \in [Clients -> 0..MaxRequests]
    BY <1>1, DomainAssumption DEF Send
  <2>4. ~Refused(p[1], p[2]) => p[2] \in Cases
    BY DEF Refused
  <2>5. stack' \in [Clients -> SUBSET Cases]
    BY <2>1, <2>4
  <2>6. pc' \in [Clients -> {"idle"} \cup InFlight \cup Answered]
    BY <2>1
  <2>7. relations' = relations /\ visited' \in [Clients -> SUBSET Cases]
    BY <1>1 DEF Send
  <2> QED  BY <2>2, <2>3, <2>5, <2>6, <2>7
<1>2. CASE FindCycle(r) \/ Crash(r)
  BY <1>2 DEF FindCycle, Crash, Answer
<1>3. CASE Visit(r)
  BY <1>3 DEF Visit, Prerequisites, Relation
<1>4. CASE Lookup(r)
  BY <1>4 DEF Lookup, Answer
<1>5. CASE Commit(r)
  <2>1. Edge(r) \in Relation
    BY <1>5 DEF Commit, Edge, Relation, Accepted
  <2> QED  BY <1>5, <2>1 DEF Commit, Answer
<1> QED  BY <1>1, <1>2, <1>3, <1>4, <1>5 DEF Step, Handle

\* Every step keeps commits in the past and open requests' pairs sound.
LEMMA PastStep ==
  ASSUME Inv, NEW r \in Clients, Step(r)
  PROVE  Past' /\ Accepted'
<1> USE DEF Inv, TypeOK, Past, Accepted, InFlight, Relation, Source, Dest
<1>1. CASE Send(r)
  <2>1. PICK p \in Pairs :
          /\ ask' = [ask EXCEPT ![r] = p]
          /\ IF Refused(p[1], p[2])
               THEN pc' = [pc EXCEPT ![r] = "refused"] /\ UNCHANGED stack
               ELSE pc' = [pc EXCEPT ![r] = "search"] /\ stack' = [stack EXCEPT ![r] = {p[2]}]
    BY <1>1 DEF Send
  <2>2. ~Refused(p[1], p[2]) =>
          p[1] \in Cases /\ p[2] \in Cases /\ Project[p[1]] = Project[p[2]]
    BY DEF Refused
  <2>3. Accepted'
    BY <2>1, <2>2
  <2>4. Past'
    BY <1>1, <2>1 DEF Send
  <2> QED  BY <2>3, <2>4
<1>2. CASE FindCycle(r) \/ Crash(r)
  <2>1. /\ UNCHANGED <<relations, clock, ask, began>> /\ pc[r] \in InFlight
        /\ \E a \in {"cycle", "failed"} : pc' = [pc EXCEPT ![r] = a]
    BY <1>2 DEF FindCycle, Crash, Answer
  <2> QED  BY <2>1
<1>3. CASE Visit(r)
  BY <1>3 DEF Visit
<1>4. CASE Lookup(r)
  <2>1. /\ UNCHANGED <<relations, clock, ask, began>> /\ pc[r] = "search"
        /\ \E a \in {"insert", "done", "failed"} : pc' = [pc EXCEPT ![r] = a]
    BY <1>4 DEF Lookup, Answer
  <2> QED  BY <2>1
<1>5. CASE Commit(r)
  BY <1>5 DEF Commit, Answer, Edge
<1> QED  BY <1>1, <1>2, <1>3, <1>4, <1>5 DEF Step, Handle

\* A request in flight does not mind the steps of the others: a new row does not count as
\* older than it, and the stack stays reachable.
LEMMA OthersKept ==
  ASSUME Inv, NEW r \in Clients, Step(r), NEW s \in Clients \ {r}
  PROVE  Resting(s)' /\ Searching(s)' /\ Inserting(s)'
<1> USE DEF Inv, TypeOK, Source, Dest
<1>1. CASE pc[s] \notin InFlight
  BY <1>1, StepFrame DEF Resting, Searching, Inserting, InFlight
<1>2. CASE pc[s] \in InFlight
  <2>1. Before(began[s])' = Before(began[s])
    <3>1. relations' = relations \/ \E q \in Clients : relations' = relations \cup {Edge(q)}
      BY StepFrame
    <3>2. began[s] \in Nat /\ began[s] < clock /\ began'[s] = began[s]
      BY <1>2, StepFrame DEF Past
    <3>3. PICK t \in Nat : t = began[s]
      BY <3>2
    <3>4. Before(t)' = Before(t)
      BY <3>1, <3>2, <3>3, BeforeKept
    <3> QED  BY <3>2, <3>3, <3>4 DEF Before
  <2>2. Reach(relations, Dest(s)) \subseteq Reach(relations', Dest(s))
    BY StepFrame, ReachGrows
  <2> QED  BY <1>2, <2>1, <2>2, StepFrame DEF Resting, Searching, Inserting
<1> QED  BY <1>1, <1>2

\* Each step of r's own search keeps what the search has established.
LEMMA OwnKept ==
  ASSUME Inv, NEW r \in Clients, Step(r)
  PROVE  Resting(r)' /\ Searching(r)' /\ Inserting(r)'
<1> USE DEF Inv, TypeOK, InFlight, Answered, Source, Dest
<1>1. CASE Send(r)
  <2>1. CASE pc'[r] = "refused"
    BY <1>1, <2>1 DEF Send, Resting, Searching, Inserting
  <2>2. CASE pc'[r] = "search"
    <3>1. PICK p \in Pairs :
            ask' = [ask EXCEPT ![r] = p] /\ stack' = [stack EXCEPT ![r] = {p[2]}]
      BY <1>1, <2>2 DEF Send
    <3>2. stack'[r] = {ask'[r][2]} /\ visited'[r] = {} /\ ask'[r][2] \in Cases
      BY <1>1, <3>1, TypeStep DEF Send, Resting
    <3>3. relations' \in SUBSET Relation
      BY TypeStep
    <3>4. ask'[r][2] \in Reach(relations', ask'[r][2])
      BY <3>2, <3>3, ReachClosed
    <3> QED  BY <2>2, <3>2, <3>4 DEF Resting, Searching, Inserting
  <2> QED  BY <1>1, <2>1, <2>2 DEF Send
<1>2. CASE FindCycle(r) \/ Commit(r) \/ Crash(r)
  BY <1>2 DEF FindCycle, Commit, Crash, Answer, Resting, Searching, Inserting
<1>3. CASE Visit(r)
  <2> DEFINE deps(c) == IF c \in visited[r] THEN {} ELSE Prerequisites(relations, c)
  <2>1. PICK c \in stack[r] \ {Source(r)} :
          /\ stack' = [stack EXCEPT ![r] = (stack[r] \ {c}) \cup deps(c)]
          /\ visited' = [visited EXCEPT ![r] = visited[r] \cup {c}]
    BY <1>3 DEF Visit
  <2>2. UNCHANGED <<relations, pc, ask, began>> /\ pc[r] = "search"
    BY <1>3 DEF Visit
  <2>3. stack'[r] = (stack[r] \ {c}) \cup deps(c) /\ visited'[r] = visited[r] \cup {c}
    BY <2>1
  <2>4. Before(began[r])' = Before(began[r]) /\ Before(began[r]) \subseteq relations
    BY <2>2 DEF Before
  <2>5. Prerequisites(Before(began[r]), c) \subseteq visited[r] \cup deps(c) \cup (stack[r] \ {c}) \cup {c}
    BY <2>2, <2>4 DEF Searching, Prerequisites
  <2>6. Prerequisites(relations, c) \subseteq Reach(relations, Dest(r))
    BY <2>2, ReachClosed DEF Searching, Accepted, Closed
  <2> HIDE DEF deps
  <2>7. deps(c) \subseteq Prerequisites(relations, c)
    BY DEF deps
  <2>8. \A d \in visited'[r] :
          Prerequisites(Before(began[r]), d) \subseteq visited'[r] \cup stack'[r]
    BY <2>2, <2>3, <2>5 DEF Searching
  <2> QED  BY <2>2, <2>3, <2>4, <2>6, <2>7, <2>8 DEF Resting, Searching, Inserting
<1>4. CASE Lookup(r)
  <2>1. CASE pc'[r] # "insert"
    <3>1. pc'[r] \in {"done", "failed"} /\ visited'[r] = {}
      BY <1>4, <2>1 DEF Lookup, Answer
    <3> QED  BY <3>1 DEF Resting, Searching, Inserting
  <2>2. CASE pc'[r] = "insert"
    <3>1. /\ pc[r] = "search" /\ stack[r] = {} /\ Existing(r) = {}
          /\ UNCHANGED <<relations, ask, began, stack, visited>>
      BY <1>4, <2>2 DEF Lookup, Answer
    <3>2. \A y \in Before(began[r]) : ~(y.source = Source(r) /\ y.dest = Dest(r))
      BY <3>1 DEF Existing, Before
    <3>3. Before(began[r])' = Before(began[r])
      BY <3>1 DEF Before
    <3> QED  BY <2>2, <3>1, <3>2, <3>3 DEF Resting, Searching, Inserting
  <2> QED  BY <2>1, <2>2
<1> QED  BY <1>1, <1>2, <1>3, <1>4 DEF Step, Handle

\* A row r inserts closes no older cycle, and an older row for its pair would have been
\* found: what CyclesNeedARace and DuplicatesNeedARace say of the table.
LEMMA RowsKept ==
  ASSUME Inv, NEW r \in Clients, Step(r)
  PROVE  CyclesNeedARace' /\ DuplicatesNeedARace'
<1> USE DEF Inv, TypeOK
<1>1. relations' = relations \/ (pc[r] = "insert" /\ relations' = relations \cup {Edge(r)})
  BY StepFrame
<1>2. CASE relations' = relations
  BY <1>2 DEF CyclesNeedARace, DuplicatesNeedARace, Before
<1>3. CASE pc[r] = "insert" /\ relations' = relations \cup {Edge(r)}
  <2>1. \A t \in Nat : t < clock => Before(t)' = Before(t)
    BY <1>3, BeforeKept
  <2>2. \A x \in relations : x.began \in Nat /\ x.began < clock /\ x.ended \in Nat
    BY DEF Past, Relation
  <2>3. began[r] \in Nat /\ began[r] < clock
    BY <1>3 DEF Past, InFlight
  <2>4. Edge(r).source \notin Reach(Before(began[r]), Edge(r).dest)
    <3>1. Closed(Before(began[r]), visited[r]) /\ Dest(r) \in visited[r]
      BY <1>3 DEF Resting, Searching, Inserting, InFlight, Closed
    <3>2. Reach(Before(began[r]), Dest(r)) \subseteq visited[r]
      BY <3>1, ReachLeast
    <3> QED  BY <1>3, <3>2 DEF Searching, InFlight, Edge
  <2>5. CyclesNeedARace'
    BY <1>3, <2>1, <2>2, <2>3, <2>4 DEF CyclesNeedARace, Edge
  <2>6. \A y \in relations : y.source = Source(r) /\ y.dest = Dest(r) =>
          y.ended > began[r] /\ y.began < clock
    BY <1>3, <2>2, <2>3 DEF Inserting, Before
  <2>7. DuplicatesNeedARace'
    BY <1>3, <2>2, <2>3, <2>6 DEF DuplicatesNeedARace, Edge
  <2> QED  BY <2>5, <2>7
<1> QED  BY <1>1, <1>2, <1>3

\* Every step keeps refusals justified: the table only grows.
LEMMA RefusalsKept ==
  ASSUME Inv, NEW r \in Clients, Step(r)
  PROVE  RefusalsAreReal'
<1> USE DEF Inv, TypeOK
<1>1. ASSUME NEW s \in Clients, pc'[s] = "cycle"
      PROVE  (Source(s) \in Reach(relations, Dest(s)))'
  <2>1. pc[s] = "cycle" \/ (s = r /\ FindCycle(r))
    <3>1. CASE s # r
      BY <1>1, <3>1, StepFrame
    <3>2. CASE s = r
      BY <1>1, <3>2 DEF Step, Handle, Send, Visit, Lookup, Commit, Crash, Answer
    <3> QED  BY <3>1, <3>2
  <2>2. Source(s) \in Reach(relations, Dest(s)) /\ ask'[s] = ask[s]
    <3>1. CASE s = r /\ FindCycle(r)
      BY <3>1 DEF FindCycle, Answer, Searching, InFlight
    <3>2. CASE pc[s] = "cycle" /\ ask'[s] = ask[s]
      BY <3>2 DEF RefusalsAreReal
    <3>3. CASE pc[s] = "cycle" /\ s = r
      BY <1>1, <3>3 DEF Step, Handle, Send, FindCycle, Visit, Lookup, Commit, Crash, Answer, InFlight
    <3> QED  BY <2>1, <3>1, <3>2, <3>3, StepFrame
  <2>3. Reach(relations, Dest(s)) \subseteq Reach(relations', Dest(s))
    BY StepFrame, ReachGrows
  <2> QED  BY <2>2, <2>3 DEF Source, Dest
<1>2. \A x \in relations' : Project[x.source] = Project[x.dest]
  <2>1. CASE relations' = relations
    BY <2>1 DEF RefusalsAreReal
  <2>2. CASE pc[r] = "insert" /\ relations' = relations \cup {Edge(r)}
    <3>1. Project[Edge(r).source] = Project[Edge(r).dest]
      BY <2>2 DEF Accepted, InFlight, Edge
    <3> QED  BY <2>2, <3>1 DEF RefusalsAreReal
  <2> QED  BY <2>1, <2>2, StepFrame
<1> QED  BY <1>1, <1>2 DEF RefusalsAreReal

\* The invariant holds in every reachable state.
LEMMA Invariant == Spec => []Inv
<1>1. ASSUME Inv, NEW r \in Clients, Step(r)
      PROVE  Inv'
  <2>1. \A s \in Clients : Resting(s)' /\ Searching(s)' /\ Inserting(s)'
    BY <1>1, OwnKept, OthersKept
  <2> QED  BY <1>1, <2>1, TypeStep, PastStep, RowsKept, RefusalsKept DEF Inv
<1>2. ASSUME Inv, UNCHANGED vars
      PROVE  Inv'
  <2> USE <1>2 DEF vars, Inv
  <2>1. TypeOK' /\ Past' /\ Accepted'
    BY DEF TypeOK, Past, Accepted, Source, Dest
  <2>2. \A s \in Clients : Resting(s)' /\ Searching(s)' /\ Inserting(s)'
    BY DEF Resting, Searching, Inserting, Source, Dest, Before
  <2>3. CyclesNeedARace' /\ DuplicatesNeedARace' /\ RefusalsAreReal'
    BY DEF CyclesNeedARace, DuplicatesNeedARace, RefusalsAreReal, Source, Dest, Before
  <2> QED  BY <2>1, <2>2, <2>3
<1>3. Inv /\ [Next]_vars => Inv'
  BY <1>1, <1>2 DEF Next, Step
<1> QED  BY <1>3, InvInit, PTL DEF Spec

-----------------------------------------------------------------------------
(***************************************************************************)
(* Theorems                                                                *)
(***************************************************************************)

\* The values the handler computes stay in their domains.
THEOREM TypeCorrect == Spec => []TypeOK
<1>1. Inv => TypeOK
  BY DEF Inv
<1> QED  BY <1>1, Invariant, PTL

\* No relation closes a cycle with relations that were there when its request began.
THEOREM CyclesNeedARaceHolds == Spec => []CyclesNeedARace
<1>1. Inv => CyclesNeedARace
  BY DEF Inv
<1> QED  BY <1>1, Invariant, PTL

\* Requests that do not overlap never add a pair twice.
THEOREM DuplicatesNeedARaceHolds == Spec => []DuplicatesNeedARace
<1>1. Inv => DuplicatesNeedARace
  BY DEF Inv
<1> QED  BY <1>1, Invariant, PTL

\* A cycle is reported only where there is a path back, and no relation leaves its
\* project.
THEOREM RefusalsAreRealHolds == Spec => []RefusalsAreReal
<1>1. Inv => RefusalsAreReal
  BY DEF Inv
<1> QED  BY <1>1, Invariant, PTL

\* If the requests that add relations never overlap, the graph is a DAG, as the code's
\* docstrings take it to be.
THEOREM SerialRequestsKeepADag == Spec => []SerialIsAcyclic
<1> DEFINE Serial == \A x, y \in relations : x # y => x.ended <= y.began \/ y.ended <= x.began
<1>1. Init => SerialIsAcyclic
  BY DEF Init, SerialIsAcyclic, Acyclic, NoCycle
<1>2. ASSUME Inv, SerialIsAcyclic, NEW r \in Clients, Step(r), Serial'
      PROVE  Acyclic'
  <2>1. CASE relations' = relations
    BY <1>2, <2>1 DEF SerialIsAcyclic, Acyclic
  <2>2. CASE /\ pc[r] = "insert" /\ Edge(r) \notin relations
             /\ relations' = relations \cup {Edge(r)}
    <3>1. NoCycle(relations)
      BY <1>2, <2>2 DEF SerialIsAcyclic, Acyclic
    <3>2. ASSUME NEW x \in relations
          PROVE  x.ended <= began[r]
      <4>1. x.ended <= Edge(r).began \/ Edge(r).ended <= x.began
        BY <1>2, <2>2
      <4>2. x.began \in Nat /\ x.ended \in Nat /\ clock \in Nat /\ x.began < x.ended /\ x.ended <= clock
        BY <1>2 DEF Inv, Past, TypeOK, Relation
      <4> QED  BY <4>1, <4>2 DEF Edge
    <3>3. Before(began[r]) = relations
      BY <3>2 DEF Before
    <3>4. Edge(r) \in Relation /\ relations \in SUBSET Relation
      BY <1>2, <2>2 DEF Inv, TypeOK, Accepted, InFlight, Relation, Edge
    <3>5. Edge(r).source \notin Reach(relations, Edge(r).dest)
      <4>1. Closed(relations, visited[r]) /\ Dest(r) \in visited[r] /\ visited[r] \subseteq Cases
        BY <1>2, <2>2, <3>3 DEF Inv, TypeOK, Searching, Inserting, InFlight, Closed
      <4>2. Reach(relations, Dest(r)) \subseteq visited[r]
        BY <4>1, ReachLeast
      <4> QED  BY <1>2, <2>2, <4>2 DEF Inv, Searching, InFlight, Edge
    <3> QED  BY <2>2, <3>1, <3>4, <3>5, EdgeKeepsNoCycle DEF Acyclic
  <2> QED  BY <1>2, <2>1, <2>2, StepFrame
<1>3. Inv /\ SerialIsAcyclic /\ [Next]_vars => SerialIsAcyclic'
  <2>1. SerialIsAcyclic /\ UNCHANGED vars => SerialIsAcyclic'
    BY DEF SerialIsAcyclic, Acyclic, vars
  <2> QED  BY <1>2, <2>1 DEF Next, Step, SerialIsAcyclic
<1> QED  BY <1>1, <1>3, Invariant, PTL DEF Spec

-----------------------------------------------------------------------------
(***************************************************************************)
(* Progress: the safe half of EveryRequestAnswers.  The search comes to an *)
(* end even in a graph that has a cycle.                                   *)
(***************************************************************************)

\* How far a place is from the answer.
Distance(p) ==
  CASE p = "search" -> 2 [] p = "insert" -> 1 [] p \in {"idle"} \cup Answered -> 0

\* r sends a request, gets closer to its answer, pops a case for the first time, or pops one
\* it has seen and pushes nothing.
Advances(r) ==
  \/ sent'[r] > sent[r]
  \/ /\ sent'[r] = sent[r]
     /\ \/ Distance(pc'[r]) < Distance(pc[r])
        \/ /\ pc'[r] = pc[r]
           /\ \/ visited[r] \subseteq visited'[r] /\ visited'[r] # visited[r]
              \/ /\ visited'[r] = visited[r]
                 /\ stack'[r] \subseteq stack[r] /\ stack'[r] # stack[r]

\* Nothing of that changes for s.
StaysPut(s) ==
  sent'[s] = sent[s] /\ pc'[s] = pc[s] /\ visited'[s] = visited[s] /\ stack'[s] = stack[s]

\* Every step takes one request further, and none further back.
EveryStepAdvances ==
  [][\E r \in Clients : Advances(r) /\ \A s \in Clients \ {r} : StaysPut(s)]_vars

\* Each step uses up something there is only so much of: the client's requests, the places
\* left before the answer, the cases not yet visited, the cases on the stack.  So the
\* search ends even if the relations it reads lead in a circle or change while it runs.
THEOREM EveryStepAdvancesHolds == Spec => EveryStepAdvances
<1> DEFINE A == \E r \in Clients : Advances(r) /\ \A s \in Clients \ {r} : StaysPut(s)
<1>1. ASSUME Inv, NEW r \in Clients, Step(r)
      PROVE  Advances(r)
  <2> USE <1>1 DEF Inv, TypeOK, InFlight, Answered, Advances, Distance
  <2>1. CASE Send(r)
    BY <2>1 DEF Send
  <2>2. CASE FindCycle(r) \/ Commit(r) \/ Crash(r)
    BY <2>2 DEF FindCycle, Commit, Crash, Answer
  <2>3. CASE Visit(r)
    BY <2>3 DEF Visit
  <2>4. CASE Lookup(r)
    BY <2>4 DEF Lookup, Answer
  <2> QED  BY <2>1, <2>2, <2>3, <2>4 DEF Step, Handle
<1>2. ASSUME Inv, NEW r \in Clients, Step(r), NEW s \in Clients \ {r}
      PROVE  StaysPut(s)
  <2>1. sent'[s] = sent[s]
    BY <1>2 DEF Inv, TypeOK, Step, Handle, Send, FindCycle, Visit, Lookup, Commit, Crash, Answer
  <2> QED  BY <1>2, <2>1, StepFrame DEF StaysPut
<1>3. Inv /\ [Next]_vars => [A]_vars
  BY <1>1, <1>2 DEF Next, Step
<1> QED  BY <1>3, Invariant, PTL DEF Spec, EveryStepAdvances

=============================================================================
