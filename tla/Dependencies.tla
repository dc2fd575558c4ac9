---------------------------- MODULE Dependencies ----------------------------
(***************************************************************************)
(* Prerequisites between test cases: add_dependency and _creates_cycle of  *)
(* app/services/testcases.py, run by concurrent requests.  The cycle check *)
(* is a search that reads the relations one case at a time, each read a    *)
(* statement of its own at READ COMMITTED; the table has no unique key and *)
(* no trigger, so nothing repeats the check at the commit.  Relations are  *)
(* never removed.                                                          *)
(***************************************************************************)
EXTENDS Naturals, FiniteSets

CONSTANTS
  Cases,        \* the test cases that exist
  Project,      \* Project[c]: the project of case c
  Pairs,        \* <<case, prerequisite>> pairs clients ask for, of cases or not
  Clients,      \* the callers, each with one request in flight at a time
  MaxRequests   \* bound: how many requests each sends

ASSUME DomainAssumption ==
  /\ DOMAIN Project = Cases
  /\ \A p \in Pairs : p = <<p[1], p[2]>>
  /\ MaxRequests \in Nat

VARIABLES
  relations,   \* committed depends_on rows
  clock,       \* counts the requests sent so far
  pc, ask,     \* each client's place in the handler, and the pair it asks for
  began,       \* the clock when its request began
  stack,       \* cases the cycle search has still to pop
  visited,     \* cases it has popped: `seen`
  sent         \* requests the client has sent

vars == <<relations, clock, pc, ask, began, stack, visited, sent>>

InFlight == {"search", "insert"}
Answered == {"done", "cycle", "refused", "failed"}

Source(r) == ask[r][1]
Dest(r) == ask[r][2]

-----------------------------------------------------------------------------
(***************************************************************************)
(* Operators                                                               *)
(***************************************************************************)

\* get_dependencies: what c depends on, in a set of rows.
Prerequisites(rs, c) == {x.dest : x \in {y \in rs : y.source = c}}

Closed(rs, S) == \A c \in S : Prerequisites(rs, c) \subseteq S

\* What c depends on through the rows rs, itself included: the least closed set.
Reach(rs, c) == {d \in Cases : \A S \in SUBSET Cases : c \in S /\ Closed(rs, S) => d \in S}

\* Mutant: neither the cases nor their projects are looked up.
Refused_SelfOnly(s, d) == s = d

\* A self-dependency, an unknown case, a case of another project.
Refused(s, d) == \/ s = d
                 \/ {s, d} \ Cases # {}
                 \/ Project[s] # Project[d]

\* The query for the pair's own row.
Existing(r) == {x \in relations : x.source = Source(r) /\ x.dest = Dest(r)}

Edge(r) == [source |-> Source(r), dest |-> Dest(r), began |-> began[r], ended |-> clock]

Answer(r, a) ==
  /\ pc' = [pc EXCEPT ![r] = a]
  /\ stack' = [stack EXCEPT ![r] = {}]
  /\ visited' = [visited EXCEPT ![r] = {}]
  /\ UNCHANGED <<clock, ask, began, sent>>

-----------------------------------------------------------------------------
(***************************************************************************)
(* Actions                                                                 *)
(***************************************************************************)

\* A client asks for a pair: the same one again, if it likes, after an error or a lost
\* answer.  The arguments are checked before the search starts at the prerequisite.
Send(r) ==
  /\ pc[r] \notin InFlight /\ sent[r] < MaxRequests
  /\ \E p \in Pairs :
       /\ ask' = [ask EXCEPT ![r] = p]
       /\ IF Refused(p[1], p[2])
            THEN pc' = [pc EXCEPT ![r] = "refused"] /\ UNCHANGED stack
            ELSE pc' = [pc EXCEPT ![r] = "search"] /\ stack' = [stack EXCEPT ![r] = {p[2]}]
  /\ began' = [began EXCEPT ![r] = clock]
  /\ clock' = clock + 1
  /\ sent' = [sent EXCEPT ![r] = @ + 1]
  /\ UNCHANGED <<relations, visited>>

\* Mutant: a case popped a second time is taken for a cycle.
FindCycle_OnRevisit(r) ==
  /\ pc[r] = "search" /\ stack[r] \cap (visited[r] \cup {Source(r)}) # {}
  /\ Answer(r, "cycle")
  /\ UNCHANGED relations

\* The search has come back to the case: ValidationFailed.
FindCycle(r) ==
  /\ pc[r] = "search" /\ Source(r) \in stack[r]
  /\ Answer(r, "cycle")
  /\ UNCHANGED relations

\* Mutants: only the first prerequisite is followed; cases are visited again.
Visit_OneLevel(r) ==
  /\ pc[r] = "search"
  /\ \E c \in stack[r] \ {Source(r)} :
       /\ stack' = [stack EXCEPT ![r] = @ \ {c}]
       /\ visited' = [visited EXCEPT ![r] = @ \cup {c}]
  /\ UNCHANGED <<relations, clock, pc, ask, began, sent>>

Visit_Revisits(r) ==
  /\ pc[r] = "search"
  /\ \E c \in stack[r] \ {Source(r)} :
       /\ stack' = [stack EXCEPT ![r] = (@ \ {c}) \cup Prerequisites(relations, c)]
       /\ visited' = [visited EXCEPT ![r] = @ \cup {c}]
  /\ UNCHANGED <<relations, clock, pc, ask, began, sent>>

\* Another case is popped: skipped if seen, otherwise its prerequisites are read and
\* pushed.  The code pops the last one pushed; any order is allowed here.
Visit(r) ==
  /\ pc[r] = "search"
  /\ \E c \in stack[r] \ {Source(r)} :
       /\ stack' = [stack EXCEPT ![r] = (@ \ {c}) \cup
                      (IF c \in visited[r] THEN {} ELSE Prerequisites(relations, c))]
       /\ visited' = [visited EXCEPT ![r] = @ \cup {c}]
  /\ UNCHANGED <<relations, clock, pc, ask, began, sent>>

\* Mutant: no look for the pair's own row.
Lookup_Skipped(r) ==
  /\ pc[r] = "search" /\ stack[r] = {}
  /\ pc' = [pc EXCEPT ![r] = "insert"]
  /\ UNCHANGED <<relations, clock, ask, began, stack, visited, sent>>

\* No cycle found: one existing row is the answer, two are more than
\* scalar_one_or_none accepts (an unhandled error), and none leads to the insert.
Lookup(r) ==
  /\ pc[r] = "search" /\ stack[r] = {}
  /\ \/ /\ Existing(r) = {}
        /\ pc' = [pc EXCEPT ![r] = "insert"]
        /\ UNCHANGED <<clock, ask, began, stack, visited, sent>>
     \/ Cardinality(Existing(r)) = 1 /\ Answer(r, "done")
     \/ Cardinality(Existing(r)) > 1 /\ Answer(r, "failed")
  /\ UNCHANGED relations

Commit(r) ==
  /\ pc[r] = "insert"
  /\ relations' = relations \cup {Edge(r)}
  /\ Answer(r, "done")

\* The worker or its connection dies before the commit; dying after it loses only the
\* answer, which Send repeats.
Crash(r) ==
  /\ pc[r] \in InFlight
  /\ Answer(r, "failed")
  /\ UNCHANGED relations

Init ==
  /\ relations = {}
  /\ clock = 0
  /\ pc = [r \in Clients |-> "idle"]
  /\ ask = [r \in Clients |-> <<>>]
  /\ began = [r \in Clients |-> 0]
  /\ stack = [r \in Clients |-> {}]
  /\ visited = [r \in Clients |-> {}]
  /\ sent = [r \in Clients |-> 0]

Handle(r) == FindCycle(r) \/ Visit(r) \/ Lookup(r) \/ Commit(r)

Next == \E r \in Clients : Send(r) \/ Handle(r) \/ Crash(r)

Spec == Init /\ [][Next]_vars

\* The server keeps running a request it has accepted.
FairSpec == Spec /\ \A r \in Clients : WF_vars(Handle(r))

-----------------------------------------------------------------------------
(***************************************************************************)
(* Properties                                                              *)
(***************************************************************************)

Relation == [source: Cases, dest: Cases, began: Nat, ended: Nat]

TypeOK ==
  /\ relations \subseteq Relation
  /\ clock \in Nat
  /\ pc \in [Clients -> {"idle"} \cup InFlight \cup Answered]
  /\ ask \in [Clients -> Pairs \cup {<<>>}]
  /\ began \in [Clients -> Nat]
  /\ stack \in [Clients -> SUBSET Cases]
  /\ visited \in [Clients -> SUBSET Cases]
  /\ sent \in [Clients -> 0..MaxRequests]

\* What was committed before a request that began at t.
Before(t) == {y \in relations : y.ended <= t}

\* A relation closes no cycle with what was committed before its request began: every
\* cycle in the table has a relation whose request overlapped another's of that cycle
\* (_creates_cycle follows every path that was there when it started).
CyclesNeedARace == \A x \in relations : x.source \notin Reach(Before(x.began), x.dest)

\* Two rows for one pair come from requests that overlapped: asking again, one request
\* after the other, adds nothing (add_dependency's "Idempotent").
DuplicatesNeedARace ==
  \A x, y \in relations :
    x.source = y.source /\ x.dest = y.dest /\ x # y =>
      x.began < y.ended /\ y.began < x.ended

\* A request is refused as a cycle only if the table does lead from the prerequisite
\* back to the case, and relations join cases of one project.
RefusalsAreReal ==
  /\ \A r \in Clients : pc[r] = "cycle" => Source(r) \in Reach(relations, Dest(r))
  /\ \A x \in relations : Project[x.source] = Project[x.dest]

\* Every request is answered, even when the search walks a graph that has a cycle.
EveryRequestAnswers == \A r \in Clients : pc[r] \in InFlight ~> pc[r] \in Answered

NoCycle(rs) == \A x \in rs : x.source \notin Reach(rs, x.dest)

\* The claim of _transitive_dependents' docstring, "graph is a DAG", and of
\* add_dependency's, "rejects ... cycles": no case depends on itself.
Acyclic == NoCycle(relations)

\* The same, under the condition the code needs: no two of the requests that added a
\* relation overlapped.
SerialIsAcyclic ==
  (\A x, y \in relations : x # y => x.ended <= y.began \/ y.ended <= x.began) => Acyclic

=============================================================================
