--------------------------- MODULE CampaignProofs ---------------------------
(***************************************************************************)
(* Proofs about Campaign: type correctness, and that what an agent runs    *)
(* stands on results that allow it, for any cases, agents, plans,          *)
(* dependencies, edits and bounds.                                         *)
(*                                                                         *)
(* The results of a case are a sequence whose positions shift when a       *)
(* transaction is rolled back, so nothing is said of positions: a step     *)
(* keeps every committed row somewhere, and brings only rows that are      *)
(* there already or that an agent is entitled to add (Evolves).            *)
(***************************************************************************)
EXTENDS Campaign, SequenceTheorems, WellFoundedInduction, TLAPS

\* Where an agent has entries to deal with, and where its manifest has no case left to read.
Placed(a) ==
  /\ pc[a] \in {"work", "record", "cascade", "block"} => entries[a] # {}
  /\ pc[a] = "status" => todo[a] = {}

TypeInv == TypeOK /\ \A a \in Agents : Placed(a)

-----------------------------------------------------------------------------
(***************************************************************************)
(* Sequences and order                                                     *)
(***************************************************************************)

\* RemoveAt drops one position and keeps all others, in order.
LEMMA RemoveAtFacts ==
  ASSUME NEW S, NEW s \in Seq(S), NEW i \in DOMAIN s
  PROVE  /\ RemoveAt(s, i) \in Seq(S)
         /\ \A j \in DOMAIN RemoveAt(s, i) : \E k \in DOMAIN s : RemoveAt(s, i)[j] = s[k]
         /\ \A k \in DOMAIN s \ {i} : \E j \in DOMAIN RemoveAt(s, i) : RemoveAt(s, i)[j] = s[k]
<1> DEFINE n == Len(s)
           u == SubSeq(s, 1, i - 1)
           v == SubSeq(s, i + 1, n)
           w == u \o v
<1>1. /\ n \in Nat /\ DOMAIN s = 1..n /\ i \in 1..n
      /\ \A k \in 1..n : s[k] \in S
  BY LenProperties, ElementOfSeq
<1>2. /\ u \in Seq(S) /\ Len(u) = i - 1
      /\ \A k \in 1..(i - 1) : u[k] = s[k]
  <2>1. \A k \in 1..(i - 1) : s[k] \in S
    BY <1>1
  <2>2. i - 1 \in Int /\ 1 \in Int
    BY <1>1
  <2>3. /\ u \in Seq(S)
        /\ Len(u) = IF 1 <= i - 1 THEN (i - 1) - 1 + 1 ELSE 0
        /\ \A k \in 1..((i - 1) - 1 + 1) : u[k] = s[1 + k - 1]
    BY <2>1, <2>2, SubSeqProperties
  <2>4. \A k \in 1..(i - 1) : k \in 1..((i - 1) - 1 + 1) /\ 1 + k - 1 = k
    BY <1>1
  <2>5. Len(u) = i - 1
    BY <1>1, <2>3
  <2> QED  BY <2>3, <2>4, <2>5
<1>3. /\ v \in Seq(S) /\ Len(v) = n - i
      /\ \A k \in 1..(n - i) : v[k] = s[k + i]
  <2>1. \A k \in (i + 1)..n : s[k] \in S
    BY <1>1
  <2>2. i + 1 \in Int /\ n \in Int
    BY <1>1
  <2>3. /\ v \in Seq(S)
        /\ Len(v) = IF i + 1 <= n THEN n - (i + 1) + 1 ELSE 0
        /\ \A k \in 1..(n - (i + 1) + 1) : v[k] = s[(i + 1) + k - 1]
    BY <2>1, <2>2, SubSeqProperties
  <2>4. \A k \in 1..(n - i) : k \in 1..(n - (i + 1) + 1) /\ (i + 1) + k - 1 = k + i
    BY <1>1
  <2>5. Len(v) = n - i
    BY <1>1, <2>3
  <2> QED  BY <2>3, <2>4, <2>5
<1> HIDE DEF u, v
<1>4. /\ w \in Seq(S) /\ Len(w) = n - 1
      /\ \A k \in 1..(n - 1) : w[k] = IF k <= i - 1 THEN u[k] ELSE v[k - (i - 1)]
  <2>1. /\ w \in Seq(S) /\ Len(w) = Len(u) + Len(v)
        /\ \A k \in 1..(Len(u) + Len(v)) : w[k] = IF k <= Len(u) THEN u[k] ELSE v[k - Len(u)]
    BY <1>2, <1>3, ConcatProperties
  <2>2. Len(u) + Len(v) = n - 1
    BY <1>1, <1>2, <1>3
  <2> QED  BY <1>2, <2>1, <2>2
<1> HIDE DEF w
<1>5. DOMAIN w = 1..(n - 1)
  BY <1>4, LenProperties
<1>6. ASSUME NEW j \in 1..(n - 1) PROVE \E k \in 1..n : w[j] = s[k]
  <2>1. CASE j <= i - 1
    <3>1. j \in 1..(i - 1) /\ j \in 1..n
      BY <1>1, <2>1
    <3>2. w[j] = u[j] /\ u[j] = s[j]
      BY <1>2, <1>4, <2>1, <3>1
    <3> QED  BY <3>1, <3>2
  <2>2. CASE ~ (j <= i - 1)
    <3>1. j - (i - 1) \in 1..(n - i) /\ (j - (i - 1)) + i = j + 1 /\ j + 1 \in 1..n
      BY <1>1, <2>2
    <3>2. w[j] = s[j + 1]
      BY <1>3, <1>4, <2>2, <3>1
    <3> QED  BY <3>1, <3>2
  <2> QED  BY <2>1, <2>2
<1>7. ASSUME NEW k \in 1..n, k # i PROVE \E j \in 1..(n - 1) : w[j] = s[k]
  <2>1. CASE k < i
    <3>1. k \in 1..(n - 1) /\ k <= i - 1 /\ k \in 1..(i - 1)
      BY <1>1, <2>1
    <3>2. w[k] = s[k]
      BY <1>2, <1>4, <3>1
    <3> QED  BY <3>1, <3>2
  <2>2. CASE ~ (k < i)
    <3>1. /\ k - 1 \in 1..(n - 1) /\ ~ (k - 1 <= i - 1)
          /\ (k - 1) - (i - 1) \in 1..(n - i) /\ ((k - 1) - (i - 1)) + i = k
      BY <1>1, <1>7, <2>2
    <3>2. w[k - 1] = s[k]
      BY <1>3, <1>4, <3>1
    <3> QED  BY <3>1, <3>2
  <2> QED  BY <2>1, <2>2
<1>8. RemoveAt(s, i) = w
  BY DEF RemoveAt, u, v, w
<1> QED  BY <1>1, <1>4, <1>5, <1>6, <1>7, <1>8

\* Every set of naturals that is not empty has a least element.
LEMMA LeastNatural ==
  ASSUME NEW T \in SUBSET Nat, T # {}
  PROVE  \E m \in T : \A k \in T : m <= k
<1>1. PICK m \in T : \A k \in T : ~ (<<k, m>> \in OpToRel(<, Nat))
  BY WFMin, NatLessThanWellFounded
<1>2. \A i, j \in Nat : i < j => <<i, j>> \in OpToRel(<, Nat)
  BY Zenon DEF OpToRel
<1>3. \A k \in T : ~ (k < m)
  BY <1>1, <1>2, Zenon
<1> QED  BY <1>3

\* An agent that has entries deals with one of them.
LEMMA FirstIsEntry ==
  ASSUME TypeOK, NEW a \in Agents, entries[a] # {}
  PROVE  First(a) \in entries[a] /\ First(a) \in Entry /\ First(a).case \in Cases
<1>1. entries[a] \subseteq Entry
  BY DEF TypeOK
<1> DEFINE T == {e.order : e \in entries[a]}
<1>2. T \subseteq Nat /\ T # {}
  BY <1>1 DEF Entry
<1>3. PICK m \in T : \A k \in T : m <= k
  BY <1>2, LeastNatural
<1>4. \E e \in entries[a] : \A f \in entries[a] : e.order <= f.order
  BY <1>3
<1>5. First(a) \in entries[a]
  BY <1>4, Zenon DEF First
<1> QED  BY <1>1, <1>5 DEF Entry

\* A set of positions that is not empty has a greatest.
LEMMA GreatestPosition ==
  ASSUME NEW n \in Nat, NEW T \in SUBSET (1..n), T # {}
  PROVE  \E m \in T : \A k \in T : k <= m
<1> DEFINE U == {n - k : k \in T}
<1>1. U \subseteq Nat /\ U # {}
  <2>1. \A k \in T : n - k \in Nat
    OBVIOUS
  <2> QED  BY <2>1
<1>2. PICK m \in U : \A k \in U : m <= k
  BY <1>1, LeastNatural
<1>3. PICK j \in T : m = n - j
  BY <1>2
<1>4. \A k \in T : n - j <= n - k
  BY <1>2, <1>3
<1>5. \A k \in T : k <= j
  BY <1>4
<1> QED  BY <1>5

\* A case whose newest result in scope is a pass has passed.
LEMMA PassShowsPassed ==
  ASSUME TypeOK, NEW c \in Cases, Status(c) = "pass"
  PROVE  HasPassed(c)
<1>1. Len(results[c]) \in Nat /\ Ranked(c) \subseteq 1..Len(results[c])
  <2>1. results[c] \in Seq(Row)
    BY DEF TypeOK
  <2>2. Ranked(c) \subseteq DOMAIN results[c]
    BY DEF Ranked, Committed
  <2> QED  BY <2>1, <2>2, LenProperties
<1>2. Ranked(c) # {}
  BY DEF Status
<1>3. \E m \in Ranked(c) : \A k \in Ranked(c) : k <= m
  BY <1>1, <1>2, GreatestPosition
<1> DEFINE i == CHOOSE m \in Ranked(c) : \A k \in Ranked(c) : k <= m
<1>4. i \in Ranked(c)
  BY <1>3, Zenon
<1>5. results[c][i].status = "pass"
  BY <1>2, Zenon DEF Status
<1> HIDE DEF i
<1> QED  BY <1>4, <1>5 DEF HasPassed

-----------------------------------------------------------------------------
(***************************************************************************)
(* How the results of the cases evolve                                     *)
(***************************************************************************)

\* The same row, but perhaps for its transaction's end.
Agree(x, y) ==
  x.build = y.build /\ x.status = y.status /\ x.origin = y.origin /\ x.under = y.under

\* What a row of case c that a step brings may be: a pass in the build is of a run, and a
\* run is of a runnable entry.
Entitled(c, x) ==
  /\ x.build = Build /\ x.status = "pass" => x.origin = "run"
  /\ x.origin = "run" =>
       \E a \in Agents : \E e \in entries[a] :
         pc[a] = "work" /\ e.runnable /\ e.case = c /\ x.under = known[a]

Evolves(R) ==
  /\ R \in [Cases -> Seq(Row)]
  /\ \A c \in Cases : \A i \in Committed(c) : \E j \in DOMAIN R[c] : R[c][j] = results[c][i]
  /\ \A c \in Cases : \A j \in DOMAIN R[c] :
       Entitled(c, R[c][j]) \/ \E i \in DOMAIN results[c] : Agree(R[c][j], results[c][i])

LEMMA StaysEvolves ==
  ASSUME TypeOK
  PROVE  Evolves(results)
BY DEF Evolves, Agree, Committed, TypeOK

\* A row appended to the results of some cases.
LEMMA AppendEvolves ==
  ASSUME TypeOK, NEW S, NEW x \in Row, \A c \in S \cap Cases : Entitled(c, x)
  PROVE  Evolves([c \in Cases |-> IF c \in S THEN Append(results[c], x) ELSE results[c]])
<1> DEFINE R == [c \in Cases |-> IF c \in S THEN Append(results[c], x) ELSE results[c]]
<1>1. ASSUME NEW c \in Cases
      PROVE  /\ results[c] \in Seq(Row) /\ R[c] \in Seq(Row)
             /\ \A i \in DOMAIN results[c] : i \in DOMAIN R[c] /\ R[c][i] = results[c][i]
             /\ \A j \in DOMAIN R[c] : \/ c \in S /\ R[c][j] = x
                                       \/ j \in DOMAIN results[c] /\ R[c][j] = results[c][j]
  <2>1. results[c] \in Seq(Row)
    BY DEF TypeOK
  <2>2. CASE c \in S
    <3>1. R[c] = Append(results[c], x)
      BY <2>2
    <3>2. /\ R[c] \in Seq(Row) /\ Len(R[c]) = Len(results[c]) + 1
          /\ \A i \in 1..Len(results[c]) : R[c][i] = results[c][i]
          /\ R[c][Len(results[c]) + 1] = x
      BY <2>1, <3>1, AppendProperties
    <3>3. /\ Len(results[c]) \in Nat
          /\ DOMAIN results[c] = 1..Len(results[c])
          /\ DOMAIN R[c] = 1..(Len(results[c]) + 1)
      BY <2>1, <3>2, LenProperties
    <3> HIDE DEF R
    <3>4. \A j \in 1..(Len(results[c]) + 1) :
            j \in 1..Len(results[c]) \/ j = Len(results[c]) + 1
      BY <3>3
    <3> QED  BY <2>1, <2>2, <3>2, <3>3, <3>4
  <2>3. CASE c \notin S
    BY <2>1, <2>3
  <2> QED  BY <2>2, <2>3
<1> HIDE DEF R
<1>2. R \in [Cases -> Seq(Row)]
  <2>1. R = [c \in Cases |-> R[c]]
    BY DEF R
  <2> QED  BY <1>1, <2>1
<1>3. ASSUME NEW c \in Cases, NEW i \in Committed(c)
      PROVE  \E j \in DOMAIN R[c] : R[c][j] = results[c][i]
  BY <1>1 DEF Committed
<1>4. ASSUME NEW c \in Cases, NEW j \in DOMAIN R[c]
      PROVE  Entitled(c, R[c][j]) \/ \E i \in DOMAIN results[c] : Agree(R[c][j], results[c][i])
  <2>1. CASE c \in S /\ R[c][j] = x
    BY <2>1
  <2>2. CASE j \in DOMAIN results[c] /\ R[c][j] = results[c][j]
    BY <2>2 DEF Agree
  <2> QED  BY <1>1, <2>1, <2>2
<1>5. Evolves(R)
  BY <1>2, <1>3, <1>4, Zenon DEF Evolves
<1> QED  BY <1>5 DEF R

\* A transaction that begins takes its place.
LEMMA StartedEvolves ==
  ASSUME TypeOK, NEW a \in Agents, NEW S, NEW s \in Statuses,
         NEW origin \in {"run", "block"}, NEW under \in SUBSET Pairs,
         \A c \in S \cap Cases :
           Entitled(c, [build |-> Build, status |-> s, open |-> a, origin |-> origin,
                        under |-> under])
  PROVE  Evolves(Started(a, S, s, origin, under))
<1> DEFINE x == [build |-> Build, status |-> s, open |-> a, origin |-> origin,
                 under |-> under]
<1>1. x \in Row
  BY DEF Row
<1> HIDE DEF x
<1>2. \A c \in S \cap Cases : Entitled(c, x)
  BY DEF x
<1>3. Evolves([c \in Cases |-> IF c \in S THEN Append(results[c], x) ELSE results[c]])
  BY <1>1, <1>2, AppendEvolves
<1> QED  BY <1>3 DEF Started, x

\* One that commits only closes its rows.
LEMMA SavedEvolves ==
  ASSUME TypeOK, NEW a \in Agents
  PROVE  Evolves(Saved(a))
<1> DEFINE R == Saved(a)
<1>1. ASSUME NEW c \in Cases
      PROVE  /\ results[c] \in Seq(Row) /\ R[c] \in Seq(Row)
             /\ DOMAIN R[c] = DOMAIN results[c]
             /\ \A i \in DOMAIN results[c] : Agree(R[c][i], results[c][i])
             /\ \A i \in Committed(c) : R[c][i] = results[c][i]
  <2>1. results[c] \in Seq(Row)
    BY DEF TypeOK
  <2>2. /\ Len(results[c]) \in Nat /\ DOMAIN results[c] = 1..Len(results[c])
        /\ \A i \in DOMAIN results[c] : results[c][i] \in Row
    BY <2>1, LenProperties, ElementOfSeq
  <2>3. R[c] = [i \in DOMAIN results[c] |->
                  IF i \in Opened(a, c) THEN [results[c][i] EXCEPT !.open = None]
                                        ELSE results[c][i]]
    BY DEF Saved
  <2>4. ASSUME NEW i \in DOMAIN results[c]
        PROVE  /\ R[c][i] \in Row /\ Agree(R[c][i], results[c][i])
               /\ i \in Committed(c) => R[c][i] = results[c][i]
    <3>1. results[c][i] \in Row
      BY <2>2
    <3>2. CASE i \in Opened(a, c)
      <4>1. R[c][i] = [results[c][i] EXCEPT !.open = None]
        BY <2>3, <3>2
      <4>2. results[c][i].open = a /\ a # None
        BY <3>2, DomainAssumption DEF Opened
      <4> QED  BY <3>1, <4>1, <4>2 DEF Row, Agree, Committed
    <3>3. CASE i \notin Opened(a, c)
      BY <2>3, <3>1, <3>3 DEF Agree
    <3> QED  BY <3>2, <3>3
  <2>5. R[c] \in [1..Len(results[c]) -> Row]
    BY <2>2, <2>3, <2>4
  <2>6. R[c] \in Seq(Row)
    BY <2>2, <2>5, SeqDef
  <2>7. DOMAIN R[c] = DOMAIN results[c] /\ Committed(c) \subseteq DOMAIN results[c]
    BY <2>3 DEF Committed
  <2> HIDE DEF R
  <2> QED  BY <2>1, <2>4, <2>6, <2>7
<1>2. R = [c \in Cases |-> R[c]]
  BY DEF Saved
<1> HIDE DEF R
<1>3. R \in [Cases -> Seq(Row)]
  BY <1>1, <1>2
<1>4. \A c \in Cases : \A i \in Committed(c) : \E j \in DOMAIN R[c] : R[c][j] = results[c][i]
  BY <1>1 DEF Committed
<1>5. Evolves(R)
  BY <1>1, <1>3, <1>4 DEF Evolves
<1> QED  BY <1>5 DEF R

\* One that is rolled back takes only its own row away.
LEMMA DroppedEvolves ==
  ASSUME TypeOK, NEW a \in Agents
  PROVE  Evolves(Dropped(a))
<1> DEFINE R == Dropped(a)
<1>1. ASSUME NEW c \in Cases
      PROVE  /\ R[c] \in Seq(Row)
             /\ \A j \in DOMAIN R[c] : \E i \in DOMAIN results[c] : R[c][j] = results[c][i]
             /\ \A i \in Committed(c) : \E j \in DOMAIN R[c] : R[c][j] = results[c][i]
  <2>1. results[c] \in Seq(Row)
    BY DEF TypeOK
  <2>2. CASE Opened(a, c) = {}
    <3>1. R[c] = results[c]
      BY <2>2 DEF Dropped
    <3> QED  BY <2>1, <3>1 DEF Committed
  <2>3. CASE Opened(a, c) # {}
    <3> DEFINE o == CHOOSE i \in Opened(a, c) : TRUE
    <3>1. R[c] = RemoveAt(results[c], o)
      BY <2>3 DEF Dropped
    <3>2. o \in Opened(a, c)
      BY <2>3
    <3> HIDE DEF o, R
    <3>3. o \in DOMAIN results[c] /\ o \notin Committed(c)
      BY <3>2, DomainAssumption DEF Opened, Committed
    <3>4. Committed(c) \subseteq DOMAIN results[c] \ {o}
      BY <3>3 DEF Committed
    <3> QED  BY <2>1, <3>1, <3>3, <3>4, RemoveAtFacts
  <2> QED  BY <2>2, <2>3
<1>2. R = [c \in Cases |-> R[c]]
  BY DEF Dropped
<1> HIDE DEF R
<1>3. R \in [Cases -> Seq(Row)]
  BY <1>1, <1>2
<1>4. Evolves(R)
  BY <1>1, <1>3 DEF Evolves, Agree
<1> QED  BY <1>4 DEF R

\* However a step changes the results, it only evolves them; dependencies are only added.
LEMMA ResultsEvolve ==
  ASSUME TypeInv, [Next]_vars
  PROVE  Evolves(results') /\ deps \subseteq deps' /\ scope' = scope
<1> USE DEF TypeInv
<1>1. ASSUME NEW a \in Agents, Ask(a) PROVE results' = results /\ deps' = deps /\ scope' = scope
  BY <1>1 DEF Ask, ReadLinks, ReadDeps, ReadStatus
<1>2. ASSUME NEW a \in Agents, RunCase(a)
      PROVE  Evolves(results') /\ deps' = deps /\ scope' = scope
  <2>1. entries[a] # {} /\ pc[a] = "work"
    BY <1>2 DEF RunCase, Placed
  <2>2. PICK s \in {"pass", "fail"} : Report(a, s, "run", known[a])
    BY <1>2 DEF RunCase
  <2>3. results' = Started(a, {First(a).case}, s, "run", known[a])
    BY <2>2 DEF Report
  <2>4. First(a) \in entries[a] /\ First(a).runnable
    BY <1>2, <2>1, FirstIsEntry DEF RunCase
  <2>5. \A c \in {First(a).case} \cap Cases :
          Entitled(c, [build |-> Build, status |-> s, open |-> a, origin |-> "run",
                       under |-> known[a]])
    BY <2>1, <2>4 DEF Entitled
  <2>6. known[a] \in SUBSET Pairs /\ s \in Statuses
    BY <2>2 DEF TypeOK, Statuses
  <2>7. Evolves(Started(a, {First(a).case}, s, "run", known[a]))
    BY <2>5, <2>6, StartedEvolves
  <2> QED  BY <1>2, <2>3, <2>7 DEF RunCase
<1>3. ASSUME NEW a \in Agents, NEW S, NEW s \in {"fail", "blocked"},
             results' = Started(a, S, s, "block", {})
      PROVE  Evolves(results')
  <2>1. \A c \in S \cap Cases :
          Entitled(c, [build |-> Build, status |-> s, open |-> a, origin |-> "block",
                       under |-> {}])
    BY DEF Entitled
  <2>2. {} \in SUBSET Pairs /\ s \in Statuses
    BY DEF Statuses
  <2> QED  BY <1>3, <2>1, <2>2, StartedEvolves
<1>4. ASSUME NEW a \in Agents, ReportBlocked(a)
      PROVE  Evolves(results') /\ deps' = deps /\ scope' = scope
  <2>1. results' = Started(a, {First(a).case}, "blocked", "block", {})
    BY <1>4 DEF ReportBlocked, Report
  <2> QED  BY <1>3, <1>4, <2>1 DEF ReportBlocked
<1>5. ASSUME NEW a \in Agents, Record(a)
      PROVE  Evolves(results') /\ deps' = deps /\ scope' = scope
  BY <1>5, SavedEvolves DEF Record
<1>6. ASSUME NEW a \in Agents, CascadeBegin(a)
      PROVE  Evolves(results') /\ deps' = deps /\ scope' = scope
  <2>1. results' = Started(a, Targets(First(a).case), "blocked", "block", {})
    BY <1>6 DEF CascadeBegin
  <2> QED  BY <1>3, <1>6, <2>1 DEF CascadeBegin
<1>7. ASSUME NEW a \in Agents, CascadeEnd(a)
      PROVE  Evolves(results') /\ deps' = deps /\ scope' = scope
  <2>1. results' = Saved(a) \/ results' = Dropped(a)
    BY <1>7 DEF CascadeEnd
  <2> QED  BY <1>7, <2>1, SavedEvolves, DroppedEvolves DEF CascadeEnd
<1>8. ASSUME NEW a \in Agents, Crash(a)
      PROVE  Evolves(results') /\ deps' = deps /\ scope' = scope
  BY <1>8, DroppedEvolves DEF Crash
<1>9. ASSUME NEW e \in Edits, AddDependency(e) \/ AddCase(e) \/ RemoveCase(e)
      PROVE  results' = results /\ deps \subseteq deps' /\ scope' = scope
  BY <1>9 DEF AddDependency, AddCase, RemoveCase, Edit
<1>10. ASSUME NEW e \in Edits, RunElsewhere(e)
       PROVE  Evolves(results') /\ deps' = deps /\ scope' = scope
  <2> DEFINE x == [build |-> Other, status |-> e.kind, open |-> None, origin |-> "other",
                   under |-> {}]
  <2>1. e.kind \in {"pass", "fail"} /\ e.case \in Cases
        /\ results' = [results EXCEPT ![e.case] = Append(@, x)]
    BY <1>10 DEF RunElsewhere
  <2>2. x \in Row
    BY <2>1 DEF Row, Statuses
  <2>3. \A c \in {e.case} \cap Cases : Entitled(c, x)
    BY DomainAssumption DEF Entitled
  <2> HIDE DEF x
  <2>4. Evolves([c \in Cases |-> IF c \in {e.case} THEN Append(results[c], x) ELSE results[c]])
    BY <2>2, <2>3, AppendEvolves
  <2>5. results' = [c \in Cases |-> IF c \in {e.case} THEN Append(results[c], x) ELSE results[c]]
    BY <2>1 DEF TypeOK
  <2> QED  BY <1>10, <2>4, <2>5 DEF RunElsewhere, Edit
<1>11. ASSUME UNCHANGED vars PROVE results' = results /\ deps' = deps /\ scope' = scope
  BY <1>11 DEF vars
<1> QED  BY <1>1, <1>2, <1>4, <1>5, <1>6, <1>7, <1>8, <1>9, <1>10, <1>11, StaysEvolves
            DEF Next, Agent, Work, Save

-----------------------------------------------------------------------------
(***************************************************************************)
(* Type correctness                                                        *)
(***************************************************************************)

\* What going on with a list of entries leaves, for the agent and for the others.
LEMMA GoOnFacts ==
  ASSUME TypeOK, NEW a \in Agents, NEW es \in SUBSET Entry, GoOn(a, es)
  PROVE  /\ entries' \in [Agents -> SUBSET Entry]
         /\ known' \in [Agents -> SUBSET Pairs]
         /\ pc' \in [Agents -> Places]
         /\ entries'[a] = es
         /\ pc'[a] = IF es = {} THEN "idle" ELSE "work"
         /\ known'[a] = IF es = {} THEN {} ELSE known[a]
         /\ \A b \in Agents \ {a} : /\ entries'[b] = entries[b] /\ known'[b] = known[b]
                                    /\ pc'[b] = pc[b]
BY DEF TypeOK, GoOn, Goto, Places

\* What a place to go to leaves.
LEMMA GotoFacts ==
  ASSUME TypeOK, NEW a \in Agents, NEW p \in Places, Goto(a, p)
  PROVE  /\ pc' \in [Agents -> Places]
         /\ pc'[a] = p
         /\ \A b \in Agents \ {a} : pc'[b] = pc[b]
BY DEF TypeOK, Goto

LEMMA TypeInit == Init => TypeInv
<1> SUFFICES ASSUME Init PROVE TypeInv
  OBVIOUS
<1> DEFINE x == [build |-> Other, status |-> "pass", open |-> None, origin |-> "other",
                 under |-> {}]
<1>1. results \in [Cases -> Seq(Row)]
  <2>1. x \in Row
    BY DEF Row, Statuses
  <2> HIDE DEF x
  <2>2. <<x>> \in Seq(Row)
    BY <2>1
  <2>3. results = [c \in Cases |-> <<x>>]
    BY DEF Init, x
  <2> QED  BY <2>2, <2>3
<1>2. plan \in Seq(Cases) /\ deps \subseteq Pairs
  BY DomainAssumption DEF Init, Pairs
<1>3. /\ links \in [Agents -> Seq(Cases)]
      /\ entries \in [Agents -> SUBSET Entry]
  BY DEF Init
<1>4. /\ scope \in {Build, None} /\ pc \in [Agents -> Places]
      /\ known \in [Agents -> SUBSET Pairs] /\ todo \in [Agents -> SUBSET Cases]
      /\ prereqs \in [Agents -> SUBSET Pairs]
      /\ status \in [Agents -> Statuses \cup {None}]
      /\ failures \in 0..MaxFailures /\ troubles \in 0..MaxTroubles
  BY DomainAssumption DEF Init, Places
<1>5. \A a \in Agents : Placed(a)
  BY DEF Init, Placed
<1> QED  BY <1>1, <1>2, <1>3, <1>4, <1>5 DEF TypeInv, TypeOK

LEMMA TypeStep == TypeInv /\ [Next]_vars => TypeInv'
<1> SUFFICES ASSUME TypeInv, [Next]_vars PROVE TypeInv'
  OBVIOUS
<1> USE DEF TypeInv
<1>0. results' \in [Cases -> Seq(Row)]
  BY ResultsEvolve DEF Evolves
<1>1. ASSUME NEW a \in Agents, ReadLinks(a) PROVE TypeInv'
  <2>1. Goto(a, "deps") /\ "deps" \in Places
    BY <1>1 DEF ReadLinks, Places
  <2>2. /\ pc' \in [Agents -> Places] /\ pc'[a] = "deps"
        /\ \A b \in Agents \ {a} : pc'[b] = pc[b]
    BY <2>1, GotoFacts
  <2>3. ToSet(plan) \subseteq Cases
    <3>1. \A i \in DOMAIN plan : plan[i] \in Cases
      BY ElementOfSeq, LenProperties DEF TypeOK
    <3> QED  BY <3>1 DEF ToSet
  <2>4. /\ known' \in [Agents -> SUBSET Pairs]
        /\ links' \in [Agents -> Seq(Cases)]
        /\ todo' \in [Agents -> SUBSET Cases]
    BY <1>1, <2>3 DEF ReadLinks, TypeOK
  <2>5. TypeOK'
    BY <1>0, <1>1, <2>2, <2>4 DEF ReadLinks, TypeOK, counters
  <2>6. \A b \in Agents : Placed(b)'
    BY <1>1, <2>2 DEF ReadLinks, Placed, TypeOK
  <2> QED  BY <2>5, <2>6
<1>2. ASSUME NEW a \in Agents, ReadDeps(a) PROVE TypeInv'
  <2>1. PICK c \in todo[a] :
          /\ todo' = [todo EXCEPT ![a] = @ \ {c}]
          /\ prereqs' = [prereqs EXCEPT ![a] = @ \cup ({c} \X Prerequisites(c))]
          /\ Goto(a, IF todo[a] = {c} THEN "status" ELSE "deps")
    BY <1>2 DEF ReadDeps
  <2>2. /\ pc' \in [Agents -> Places]
        /\ pc'[a] = IF todo[a] = {c} THEN "status" ELSE "deps"
        /\ \A b \in Agents \ {a} : pc'[b] = pc[b]
    BY <2>1, GotoFacts DEF Places
  <2>3. c \in Cases /\ {c} \X Prerequisites(c) \subseteq Pairs
    BY DEF TypeOK, Prerequisites, Pairs
  <2>4. todo' \in [Agents -> SUBSET Cases] /\ prereqs' \in [Agents -> SUBSET Pairs]
    BY <2>1, <2>3 DEF TypeOK
  <2>5. TypeOK'
    BY <1>0, <1>2, <2>2, <2>4 DEF ReadDeps, TypeOK, counters
  <2>6. \A b \in Agents : Placed(b)'
    BY <1>2, <2>1, <2>2 DEF ReadDeps, Placed, TypeOK
  <2> QED  BY <2>5, <2>6
<1>3. ASSUME NEW a \in Agents, ReadStatus(a) PROVE TypeInv'
  <2> DEFINE answer == {EntryOf(a, i) : i \in DOMAIN links[a]}
  <2>1. answer \subseteq Entry
    <3>1. \A i \in DOMAIN links[a] : i \in Nat /\ links[a][i] \in Cases
      BY ElementOfSeq, LenProperties DEF TypeOK
    <3>2. \A i \in DOMAIN links[a] : EntryOf(a, i) \in Entry
      BY <3>1 DEF EntryOf, Entry
    <3> QED  BY <3>2
  <2>2. PICK es \in SUBSET answer : GoOn(a, es)
    BY <1>3 DEF ReadStatus
  <2> HIDE DEF answer
  <2>3. /\ entries' \in [Agents -> SUBSET Entry]
        /\ known' \in [Agents -> SUBSET Pairs]
        /\ pc' \in [Agents -> Places]
        /\ entries'[a] = es
        /\ pc'[a] = IF es = {} THEN "idle" ELSE "work"
        /\ \A b \in Agents \ {a} : entries'[b] = entries[b] /\ pc'[b] = pc[b]
    BY <2>1, <2>2, GoOnFacts
  <2>4. links' \in [Agents -> Seq(Cases)] /\ prereqs' \in [Agents -> SUBSET Pairs]
    BY <1>3 DEF ReadStatus, TypeOK
  <2>5. TypeOK'
    BY <1>0, <1>3, <2>3, <2>4 DEF ReadStatus, TypeOK, counters
  <2>6. \A b \in Agents : Placed(b)'
    BY <1>3, <2>3 DEF ReadStatus, Placed
  <2> QED  BY <2>5, <2>6
<1>4. ASSUME NEW a \in Agents, NEW s \in Statuses, NEW o, NEW u, Report(a, s, o, u),
             pc[a] = "work", failures' \in 0..MaxFailures,
             UNCHANGED <<plan, deps, scope, manifest, entries, troubles>>
      PROVE  TypeInv'
  <2>1. /\ pc' \in [Agents -> Places] /\ pc'[a] = "record"
        /\ \A b \in Agents \ {a} : pc'[b] = pc[b]
    BY <1>4, GotoFacts DEF Report, Places
  <2>2. status' \in [Agents -> Statuses \cup {None}]
    BY <1>4 DEF Report, TypeOK
  <2>3. TypeOK'
    BY <1>0, <1>4, <2>1, <2>2 DEF TypeOK, manifest
  <2>4. \A b \in Agents : Placed(b)'
    BY <1>4, <2>1 DEF Placed, manifest
  <2> QED  BY <2>3, <2>4
<1>5. ASSUME NEW a \in Agents, RunCase(a) PROVE TypeInv'
  <2>1. failures' \in 0..MaxFailures
    BY <1>5, DomainAssumption DEF RunCase, TypeOK
  <2>2. \E s \in Statuses : Report(a, s, "run", known[a])
    BY <1>5 DEF RunCase, Statuses
  <2> QED  BY <1>4, <1>5, <2>1, <2>2 DEF RunCase
<1>6. ASSUME NEW a \in Agents, ReportBlocked(a) PROVE TypeInv'
  <2>1. failures' \in 0..MaxFailures /\ troubles' = troubles
    BY <1>6 DEF ReportBlocked, counters, TypeOK
  <2>2. "blocked" \in Statuses
    BY DEF Statuses
  <2> QED  BY <1>4, <1>6, <2>1, <2>2 DEF ReportBlocked
<1>7. ASSUME NEW a \in Agents, GoOn(a, entries[a] \ {First(a)}),
             status' = [status EXCEPT ![a] = None],
             UNCHANGED <<plan, deps, scope, links, todo, prereqs, counters>>
      PROVE  TypeInv'
  <2>1. entries[a] \ {First(a)} \in SUBSET Entry
    BY DEF TypeOK
  <2>2. /\ entries' \in [Agents -> SUBSET Entry]
        /\ known' \in [Agents -> SUBSET Pairs]
        /\ pc' \in [Agents -> Places]
        /\ entries'[a] = entries[a] \ {First(a)}
        /\ pc'[a] = IF entries[a] \ {First(a)} = {} THEN "idle" ELSE "work"
        /\ \A b \in Agents \ {a} : entries'[b] = entries[b] /\ pc'[b] = pc[b]
    BY <1>7, <2>1, GoOnFacts
  <2>3. TypeOK'
    BY <1>0, <1>7, <2>2 DEF TypeOK, counters
  <2>4. \A b \in Agents : Placed(b)'
    BY <1>7, <2>2 DEF Placed
  <2> QED  BY <2>3, <2>4
<1>8. ASSUME NEW a \in Agents, Record(a) PROVE TypeInv'
  <2>1. CASE status[a] = "pass"
    BY <1>7, <1>8, <2>1 DEF Record
  <2>2. CASE status[a] # "pass"
    <3>1. Goto(a, "cascade") /\ UNCHANGED <<known, entries, status>> /\ "cascade" \in Places
      BY <1>8, <2>2 DEF Record, Places
    <3>2. /\ pc' \in [Agents -> Places] /\ pc'[a] = "cascade"
          /\ \A b \in Agents \ {a} : pc'[b] = pc[b]
      BY <3>1, GotoFacts
    <3>3. TypeOK'
      BY <1>0, <1>8, <3>1, <3>2 DEF Record, TypeOK, counters
    <3>4. \A b \in Agents : Placed(b)'
      BY <1>8, <3>1, <3>2 DEF Record, Placed
    <3> QED  BY <3>3, <3>4
  <2> QED  BY <2>1, <2>2
<1>9. ASSUME NEW a \in Agents, CascadeBegin(a) PROVE TypeInv'
  <2>1. /\ pc' \in [Agents -> Places] /\ pc'[a] = "block"
        /\ \A b \in Agents \ {a} : pc'[b] = pc[b]
    BY <1>9, GotoFacts DEF CascadeBegin, Places
  <2>2. TypeOK'
    BY <1>0, <1>9, <2>1 DEF CascadeBegin, TypeOK, manifest, counters
  <2>3. \A b \in Agents : Placed(b)'
    BY <1>9, <2>1 DEF CascadeBegin, Placed, manifest
  <2> QED  BY <2>2, <2>3
<1>10. ASSUME NEW a \in Agents, CascadeEnd(a) PROVE TypeInv'
  BY <1>7, <1>10 DEF CascadeEnd
<1>11. ASSUME NEW a \in Agents, Crash(a) PROVE TypeInv'
  <2>1. /\ entries' \in [Agents -> SUBSET Entry]
        /\ known' \in [Agents -> SUBSET Pairs]
        /\ pc' \in [Agents -> Places]
        /\ pc'[a] = "idle"
        /\ \A b \in Agents \ {a} : entries'[b] = entries[b] /\ pc'[b] = pc[b]
    BY <1>11, GoOnFacts DEF Crash
  <2>2. /\ links' \in [Agents -> Seq(Cases)] /\ prereqs' \in [Agents -> SUBSET Pairs]
        /\ todo' \in [Agents -> SUBSET Cases] /\ status' \in [Agents -> Statuses \cup {None}]
        /\ troubles' \in 0..MaxTroubles
    BY <1>11, DomainAssumption DEF Crash, TypeOK
  <2>3. TypeOK'
    BY <1>0, <1>11, <2>1, <2>2 DEF Crash, TypeOK
  <2>4. \A b \in Agents : Placed(b)'
    BY <1>11, <2>1 DEF Crash, Placed, TypeOK
  <2> QED  BY <2>3, <2>4
<1>12. ASSUME NEW e \in Edits, AddDependency(e) \/ AddCase(e) \/ RemoveCase(e) \/ RunElsewhere(e)
       PROVE  TypeInv'
  <2>1. Edit /\ e.on \in Cases
    BY <1>12, DomainAssumption DEF AddDependency, AddCase, RemoveCase, RunElsewhere
  <2>2. deps' \subseteq Pairs
    BY <1>12, <2>1 DEF AddDependency, AddCase, RemoveCase, RunElsewhere, TypeOK, Pairs
  <2>3. plan' \in Seq(Cases)
    <3>1. CASE AddCase(e)
      <4>1. e.case \in Cases /\ plan' = Append(plan, e.case)
        BY <3>1 DEF AddCase
      <4> QED  BY <4>1, AppendProperties DEF TypeOK
    <3>2. CASE RemoveCase(e)
      <4>1. PICK i \in DOMAIN plan : plan' = RemoveAt(plan, i)
        BY <3>2 DEF RemoveCase
      <4> QED  BY <4>1, RemoveAtFacts DEF TypeOK
    <3>3. CASE AddDependency(e) \/ RunElsewhere(e)
      BY <3>3 DEF AddDependency, RunElsewhere, TypeOK
    <3> QED  BY <1>12, <3>1, <3>2, <3>3
  <2>4. troubles' \in 0..MaxTroubles
    BY <2>1, DomainAssumption DEF Edit, TypeOK
  <2>5. TypeOK'
    BY <1>0, <2>1, <2>2, <2>3, <2>4 DEF Edit, TypeOK, manifest
  <2>6. \A b \in Agents : Placed(b)'
    BY <2>1 DEF Edit, Placed, manifest
  <2> QED  BY <2>5, <2>6
<1>13. ASSUME UNCHANGED vars PROVE TypeInv'
  BY <1>0, <1>13 DEF vars, TypeOK, Placed
<1> QED  BY <1>1, <1>2, <1>3, <1>5, <1>6, <1>8, <1>9, <1>10, <1>11, <1>12, <1>13
            DEF Next, Agent, Ask, Work, Save

\* The types of the campaign's state, in every reachable state.
THEOREM TypeCorrect == Spec => []TypeOK
<1>1. Spec => []TypeInv
  BY TypeInit, TypeStep, PTL DEF Spec
<1>2. TypeInv => TypeOK
  BY DEF TypeInv
<1> QED  BY <1>1, <1>2, PTL

-----------------------------------------------------------------------------
(***************************************************************************)
(* Runs are grounded                                                       *)
(***************************************************************************)

\* What a manifest has read of the dependencies its agent knew, and what its entries promise.
Grounded(a) ==
  /\ known[a] \subseteq deps
  /\ pc[a] \in {"deps", "status"} =>
       \A c \in ToSet(links[a]) \ todo[a] : \A p \in Cases :
         <<c, p>> \in known[a] => <<c, p>> \in prereqs[a]
  /\ pc[a] \in {"work", "record", "cascade", "block"} =>
       \A e \in entries[a] : e.runnable =>
         \A p \in Cases : <<e.case, p>> \in known[a] => HasPassed(p)

\* Nothing but a run passes in the build.
PassesAreRuns ==
  \A c \in Cases : \A i \in DOMAIN results[c] :
    results[c][i].build = Build /\ results[c][i].status = "pass" => results[c][i].origin = "run"

RunInv ==
  /\ TypeInv
  /\ \A a \in Agents : Grounded(a)
  /\ GateHolds /\ PassesAreRuns

\* A case that has passed has passed for good: transactions that end otherwise take away only
\* rows that were never committed.
LEMMA PassedStays ==
  ASSUME TypeInv, [Next]_vars, NEW p \in Cases, HasPassed(p)
  PROVE  HasPassed(p)'
<1>1. Evolves(results') /\ scope' = scope
  BY ResultsEvolve
<1>2. PICK i \in Ranked(p) : results[p][i].status = "pass"
  BY DEF HasPassed
<1>3. i \in Committed(p) /\ InScope(results[p][i]) /\ results[p][i].open = None
  BY <1>2 DEF Ranked, Committed
<1>4. PICK j \in DOMAIN results'[p] : results'[p][j] = results[p][i]
  BY <1>1, <1>3 DEF Evolves
<1>5. j \in Ranked(p)'
  BY <1>1, <1>3, <1>4 DEF Ranked, Committed, InScope
<1> QED  BY <1>2, <1>4, <1>5 DEF HasPassed

\* An agent that did nothing stays grounded.
LEMMA IdleGrounded ==
  ASSUME TypeInv, [Next]_vars, NEW a \in Agents, Grounded(a),
         known'[a] = known[a], links'[a] = links[a], todo'[a] = todo[a],
         prereqs'[a] = prereqs[a], entries'[a] = entries[a], pc'[a] = pc[a]
  PROVE  Grounded(a)'
<1>1. deps \subseteq deps'
  BY ResultsEvolve
<1>2. \A p \in Cases : HasPassed(p) => HasPassed(p)'
  BY PassedStays
<1> QED  BY <1>1, <1>2 DEF Grounded

\* What an agent does leaves the manifests and entries of the others alone.
LEMMA OthersStay ==
  ASSUME TypeInv, NEW a \in Agents, Agent(a) \/ Crash(a), NEW b \in Agents \ {a}
  PROVE  /\ known'[b] = known[b] /\ links'[b] = links[b] /\ todo'[b] = todo[b]
         /\ prereqs'[b] = prereqs[b] /\ entries'[b] = entries[b] /\ pc'[b] = pc[b]
<1> USE DEF TypeInv, TypeOK, Goto, GoOn
<1>1. CASE Ask(a)
  BY <1>1 DEF Ask, ReadLinks, ReadDeps, ReadStatus
<1>2. CASE Work(a)
  BY <1>2 DEF Work, RunCase, ReportBlocked, Report, manifest
<1>3. CASE Save(a)
  BY <1>3 DEF Save, Record, CascadeBegin, CascadeEnd, manifest
<1>4. CASE Crash(a)
  BY <1>4 DEF Crash
<1> QED  BY <1>1, <1>2, <1>3, <1>4 DEF Agent

\* An agent that goes on with some of its entries.
LEMMA GoOnGrounded ==
  ASSUME TypeInv, [Next]_vars, NEW a \in Agents, Grounded(a),
         NEW es \in SUBSET Entry, GoOn(a, es),
         \A e \in es : e.runnable =>
           \A p \in Cases : <<e.case, p>> \in known[a] => HasPassed(p)
  PROVE  Grounded(a)'
<1>1. /\ entries'[a] = es
      /\ pc'[a] = IF es = {} THEN "idle" ELSE "work"
      /\ known'[a] = IF es = {} THEN {} ELSE known[a]
  BY GoOnFacts DEF TypeInv
<1>2. deps \subseteq deps'
  BY ResultsEvolve
<1>3. \A p \in Cases : HasPassed(p) => HasPassed(p)'
  BY PassedStays
<1>4. known'[a] \subseteq known[a] /\ pc'[a] \notin {"deps", "status"}
  BY <1>1
<1>5. \A e \in entries'[a] : e.runnable =>
        \A p \in Cases : <<e.case, p>> \in known'[a] => HasPassed(p)'
  BY <1>1, <1>3, <1>4
<1> QED  BY <1>2, <1>4, <1>5 DEF Grounded

\* A manifest whose reads are done promises only what has passed.
LEMMA AnswerGrounded ==
  ASSUME TypeInv, NEW a \in Agents, Grounded(a), pc[a] = "status",
         NEW i \in DOMAIN links[a], EntryOf(a, i).runnable,
         NEW p \in Cases, <<EntryOf(a, i).case, p>> \in known[a]
  PROVE  HasPassed(p)
<1> DEFINE c == links[a][i]
<1>1. c \in ToSet(links[a]) /\ todo[a] = {}
  BY DEF ToSet, TypeInv, Placed
<1>2. EntryOf(a, i).case = c /\ BlockedBy(a, c) = {}
  BY DEF EntryOf
<1> HIDE DEF c
<1>3. <<c, p>> \in prereqs[a]
  BY <1>1, <1>2 DEF Grounded
<1>4. Status(p) = "pass"
  BY <1>2, <1>3 DEF BlockedBy
<1> QED  BY <1>4, PassShowsPassed DEF TypeInv

\* Every step leaves every agent grounded.
LEMMA GroundedStep ==
  ASSUME RunInv, [Next]_vars, NEW b \in Agents
  PROVE  Grounded(b)'
<1> USE DEF RunInv
<1>1. ASSUME NEW a \in Agents, Agent(a) \/ Crash(a), b # a PROVE Grounded(b)'
  BY <1>1, OthersStay, IdleGrounded
<1>2. CASE ReadLinks(b)
  <2>1. Goto(b, "deps") /\ "deps" \in Places
    BY <1>2 DEF ReadLinks, Places
  <2>2. pc'[b] = "deps"
    BY <2>1, GotoFacts DEF TypeInv
  <2>3. /\ known'[b] = deps /\ deps' = deps
        /\ links'[b] = plan /\ todo'[b] = ToSet(plan)
    BY <1>2 DEF ReadLinks, TypeInv, TypeOK
  <2>4. \A c : ~ (c \in ToSet(links'[b]) \ todo'[b])
    BY <2>3
  <2> QED  BY <2>2, <2>3, <2>4 DEF Grounded
<1>3. CASE ReadDeps(b)
  <2>1. PICK c \in todo[b] :
          /\ todo' = [todo EXCEPT ![b] = @ \ {c}]
          /\ prereqs' = [prereqs EXCEPT ![b] = @ \cup ({c} \X Prerequisites(c))]
          /\ Goto(b, IF todo[b] = {c} THEN "status" ELSE "deps")
    BY <1>3 DEF ReadDeps
  <2>2. pc'[b] \in {"status", "deps"} /\ pc[b] = "deps"
    BY <1>3, <2>1, GotoFacts DEF TypeInv, Places, ReadDeps
  <2>3. /\ todo'[b] = todo[b] \ {c}
        /\ prereqs'[b] = prereqs[b] \cup ({c} \X Prerequisites(c))
        /\ known' = known /\ links' = links /\ deps' = deps
    BY <1>3, <2>1 DEF ReadDeps, TypeInv, TypeOK
  <2>4. ASSUME NEW d \in ToSet(links[b]) \ todo'[b], NEW p \in Cases, <<d, p>> \in known[b]
        PROVE  <<d, p>> \in prereqs'[b]
    <3>1. CASE d = c
      <4>1. p \in Prerequisites(c)
        BY <2>4, <3>1 DEF Grounded, Prerequisites
      <4> QED  BY <2>3, <3>1, <4>1
    <3>2. CASE d # c
      BY <2>2, <2>3, <2>4, <3>2 DEF Grounded
    <3> QED  BY <3>1, <3>2
  <2>5. known'[b] \subseteq deps'
    BY <2>3 DEF Grounded
  <2> QED  BY <2>2, <2>3, <2>4, <2>5 DEF Grounded
<1>4. CASE ReadStatus(b)
  <2> DEFINE answer == {EntryOf(b, i) : i \in DOMAIN links[b]}
  <2>1. answer \subseteq Entry
    <3>1. \A i \in DOMAIN links[b] : i \in Nat /\ links[b][i] \in Cases
      BY ElementOfSeq, LenProperties DEF TypeInv, TypeOK
    <3>2. \A i \in DOMAIN links[b] : EntryOf(b, i) \in Entry
      BY <3>1 DEF EntryOf, Entry
    <3> QED  BY <3>2
  <2>2. PICK es \in SUBSET answer : GoOn(b, es)
    BY <1>4 DEF ReadStatus
  <2>3. pc[b] = "status"
    BY <1>4 DEF ReadStatus
  <2>4. \A e \in es : e.runnable => \A p \in Cases : <<e.case, p>> \in known[b] => HasPassed(p)
    <3>1. ASSUME NEW e \in es, e.runnable, NEW p \in Cases, <<e.case, p>> \in known[b]
          PROVE  HasPassed(p)
      <4>1. PICK i \in DOMAIN links[b] : e = EntryOf(b, i)
        OBVIOUS
      <4> QED  BY <2>3, <3>1, <4>1, AnswerGrounded
    <3> QED  BY <3>1
  <2> HIDE DEF answer
  <2> QED  BY <2>1, <2>2, <2>4, GoOnGrounded
<1>5. CASE Work(b)
  <2>1. /\ known' = known /\ links' = links /\ todo' = todo /\ prereqs' = prereqs
        /\ entries' = entries /\ deps' = deps
    BY <1>5 DEF Work, RunCase, ReportBlocked, manifest
  <2>2. pc[b] = "work" /\ pc'[b] = "record"
    BY <1>5 DEF Work, RunCase, ReportBlocked, Report, Goto, TypeInv, TypeOK
  <2>3. \A p \in Cases : HasPassed(p) => HasPassed(p)'
    BY PassedStays
  <2> QED  BY <2>1, <2>2, <2>3 DEF Grounded
<1>6. ASSUME GoOn(b, entries[b] \ {First(b)}), pc[b] \in {"record", "block"}
      PROVE  Grounded(b)'
  <2>1. entries[b] \ {First(b)} \in SUBSET Entry
    BY DEF TypeInv, TypeOK
  <2>2. \A e \in entries[b] \ {First(b)} : e.runnable =>
          \A p \in Cases : <<e.case, p>> \in known[b] => HasPassed(p)
    BY <1>6 DEF Grounded
  <2> QED  BY <1>6, <2>1, <2>2, GoOnGrounded
<1>7. ASSUME known' = known, links' = links, todo' = todo, prereqs' = prereqs,
             entries' = entries, deps' = deps, pc[b] \in {"record", "cascade"},
             pc'[b] \in {"cascade", "block"}
      PROVE  Grounded(b)'
  <2>1. \A p \in Cases : HasPassed(p) => HasPassed(p)'
    BY PassedStays
  <2> QED  BY <1>7, <2>1 DEF Grounded
<1>8. CASE Record(b)
  <2>1. CASE status[b] = "pass"
    BY <1>6, <1>8, <2>1 DEF Record
  <2>2. CASE status[b] # "pass"
    <3>1. pc'[b] = "cascade"
      BY <1>8, <2>2 DEF Record, Goto, TypeInv, TypeOK
    <3> QED  BY <1>7, <1>8, <2>2, <3>1 DEF Record
  <2> QED  BY <2>1, <2>2
<1>9. CASE CascadeBegin(b)
  <2>1. pc'[b] = "block"
    BY <1>9 DEF CascadeBegin, Goto, TypeInv, TypeOK
  <2> QED  BY <1>7, <1>9, <2>1 DEF CascadeBegin, manifest
<1>10. CASE CascadeEnd(b)
  BY <1>6, <1>10 DEF CascadeEnd
<1>11. CASE Crash(b)
  <2>1. GoOn(b, {}) /\ {} \in SUBSET Entry
    BY <1>11 DEF Crash
  <2> QED  BY <2>1, GoOnGrounded
<1>12. ASSUME NEW e \in Edits, AddDependency(e) \/ AddCase(e) \/ RemoveCase(e) \/ RunElsewhere(e)
       PROVE  Grounded(b)'
  <2>1. Edit
    BY <1>12 DEF AddDependency, AddCase, RemoveCase, RunElsewhere
  <2> QED  BY <2>1, IdleGrounded DEF Edit, manifest
<1>13. CASE UNCHANGED vars
  BY <1>13, IdleGrounded DEF vars
<1>14. ASSUME NEW a \in Agents, Agent(a) \/ Crash(a) PROVE Grounded(b)'
  <2>1. CASE b # a
    BY <1>1, <1>14, <2>1
  <2>2. CASE b = a
    BY <1>2, <1>3, <1>4, <1>5, <1>8, <1>9, <1>10, <1>11, <1>14, <2>2 DEF Agent, Ask, Save
  <2> QED  BY <2>1, <2>2
<1> QED  BY <1>12, <1>13, <1>14 DEF Next

\* No step lets a run in that is not grounded, or a pass that is not a run.
LEMMA RowsStep ==
  ASSUME RunInv, [Next]_vars
  PROVE  GateHolds' /\ PassesAreRuns'
<1> USE DEF RunInv
<1>1. Evolves(results')
  BY ResultsEvolve
<1>2. \A p \in Cases : HasPassed(p) => HasPassed(p)'
  BY PassedStays
<1>3. ASSUME NEW c \in Cases, NEW j \in DOMAIN results'[c], results'[c][j].origin = "run",
             NEW p \in Cases, <<c, p>> \in results'[c][j].under
      PROVE  HasPassed(p)'
  <2>1. CASE Entitled(c, results'[c][j])
    <3>1. PICK a \in Agents : \E e \in entries[a] :
            pc[a] = "work" /\ e.runnable /\ e.case = c /\ results'[c][j].under = known[a]
      BY <1>3, <2>1 DEF Entitled
    <3>2. HasPassed(p)
      BY <1>3, <3>1 DEF Grounded
    <3> QED  BY <1>2, <3>2
  <2>2. CASE \E i \in DOMAIN results[c] : Agree(results'[c][j], results[c][i])
    <3>1. PICK i \in DOMAIN results[c] : Agree(results'[c][j], results[c][i])
      BY <2>2
    <3>2. HasPassed(p)
      BY <1>3, <3>1 DEF Agree, GateHolds, Runs
    <3> QED  BY <1>2, <3>2
  <2> QED  BY <1>1, <2>1, <2>2 DEF Evolves
<1>4. ASSUME NEW c \in Cases, NEW j \in DOMAIN results'[c],
             results'[c][j].build = Build, results'[c][j].status = "pass"
      PROVE  results'[c][j].origin = "run"
  <2>1. CASE Entitled(c, results'[c][j])
    BY <1>4, <2>1 DEF Entitled
  <2>2. CASE \E i \in DOMAIN results[c] : Agree(results'[c][j], results[c][i])
    BY <1>4, <2>2 DEF Agree, PassesAreRuns
  <2> QED  BY <1>1, <2>1, <2>2 DEF Evolves
<1>5. GateHolds'
  BY <1>3 DEF GateHolds, Runs
<1>6. PassesAreRuns'
  BY <1>4 DEF PassesAreRuns
<1> QED  BY <1>5, <1>6

LEMMA RunInit == Init => RunInv
<1> SUFFICES ASSUME Init PROVE RunInv
  OBVIOUS
<1>1. TypeInv
  BY TypeInit
<1>2. \A a \in Agents : Grounded(a)
  BY DEF Init, Grounded
<1>3. \A c \in Cases : \A i \in DOMAIN results[c] :
        results[c][i].build = Other /\ results[c][i].origin = "other"
  BY DEF Init
<1>4. GateHolds
  BY <1>3 DEF GateHolds, Runs
<1>5. PassesAreRuns
  BY <1>3, DomainAssumption DEF PassesAreRuns
<1> QED  BY <1>1, <1>2, <1>4, <1>5 DEF RunInv

LEMMA RunStep == RunInv /\ [Next]_vars => RunInv'
<1> SUFFICES ASSUME RunInv, [Next]_vars PROVE RunInv'
  OBVIOUS
<1>1. TypeInv'
  BY TypeStep DEF RunInv
<1>2. \A a \in Agents : Grounded(a)'
  BY GroundedStep
<1>3. GateHolds' /\ PassesAreRuns'
  BY RowsStep
<1> QED  BY <1>1, <1>2, <1>3 DEF RunInv

\* The gates add up.  What has passed in the build is closed under the dependencies that were
\* there before any run: a pass is a run, its gate held, and every such dependency was behind it.
LEMMA GatesAddUp ==
  ASSUME RunInv
  PROVE  ChainHolds
<1> USE DEF RunInv
<1>1. SUFFICES ASSUME scope = Build, NEW c \in Cases, Runs(c) # {}, NEW p \in Upstream(c)
               PROVE  HasPassed(p)
  BY DEF ChainHolds
<1> DEFINE S == {d \in Cases : HasPassed(d)}
<1>2. ASSUME NEW d \in Cases, Runs(d) # {}, NEW q \in Cases, <<d, q>> \in Settled
      PROVE  HasPassed(q)
  <2>1. PICK i \in Runs(d) : TRUE
    BY <1>2
  <2>2. <<d, q>> \in results[d][i].under
    BY <1>2, <2>1 DEF Settled
  <2> QED  BY <2>1, <2>2 DEF GateHolds
<1>3. ASSUME NEW d \in S PROVE Runs(d) # {}
  <2>1. PICK i \in Ranked(d) : results[d][i].status = "pass"
    BY <1>3 DEF HasPassed
  <2>2. /\ i \in DOMAIN results[d] /\ results[d][i].build = Build
    BY <1>1, <2>1, DomainAssumption DEF Ranked, Committed, InScope
  <2>3. results[d][i].origin = "run"
    BY <2>1, <2>2 DEF PassesAreRuns
  <2> QED  BY <2>2, <2>3 DEF Runs
<1>4. \A e \in Settled : e[1] \in S \cup {c} => e[2] \in S
  <2>1. ASSUME NEW e \in Settled, e[1] \in S \cup {c} PROVE e[2] \in S
    <3>1. e[1] \in Cases /\ e[2] \in Cases /\ e = <<e[1], e[2]>>
      BY DEF Settled, Pairs
    <3>2. Runs(e[1]) # {}
      BY <1>1, <1>3, <2>1
    <3>3. HasPassed(e[2])
      BY <1>2, <3>1, <3>2
    <3> QED  BY <3>1, <3>3
  <2> QED  BY <2>1
<1>5. S \in SUBSET Cases
  OBVIOUS
<1>6. p \in S
  <2> HIDE DEF S
  <2> QED  BY <1>4, <1>5 DEF Upstream
<1> QED  BY <1>6

\* What an agent runs stands on results that allow it: every prerequisite it knew of had
\* passed and, when manifests are asked for by build, everything upstream passed there, however
\* the reads of get_run_manifest mix with edits, results, cascades and agents that die.
THEOREM RunsAreGroundedHolds == Spec => []RunsAreGrounded
<1>1. Spec => []RunInv
  BY RunInit, RunStep, PTL DEF Spec
<1>2. RunInv => RunsAreGrounded
  BY GatesAddUp DEF RunsAreGrounded, RunInv
<1> QED  BY <1>1, <1>2, PTL

-----------------------------------------------------------------------------
(***************************************************************************)
(* Progress: agents do not wait for each other, no step undoes progress,   *)
(* and a manifest never hides work that can be done.  This is the safe     *)
(* half of CampaignSettles; the rest is that agents keep working.          *)
(***************************************************************************)

\* The guards of a's steps: a plan with cases, a case whose prerequisites are still to be read,
\* an entry that is runnable or not.
Ready(a) ==
  \/ pc[a] = "idle" /\ plan # << >>
  \/ pc[a] = "deps" /\ todo[a] # {}
  \/ pc[a] \in {"work", "record", "cascade", "block"} /\ First(a) \in entries[a]
  \/ pc[a] = "status"

\* An agent can always go on; without a plan there is nothing to ask for.
NeverStuck == \A a \in Agents : (pc[a] = "idle" => plan # << >>) => Ready(a)

\* How far a place is from the end of the manifest, or of the report at hand.
Stage(p) ==
  CASE p = "deps" -> 6 [] p = "status" -> 5 [] p = "work" -> 4 [] p = "record" -> 3
    [] p = "cascade" -> 2 [] p = "block" -> 1 [] p = "idle" -> 0

\* Agent a reads a case's prerequisites, gets on with its manifest or a report, is through with
\* an entry, or asks for a new manifest with none left.
Advances(a) ==
  \/ <<pc[a], pc'[a]>> = <<"deps", "deps">> /\ \E c \in todo[a] : todo'[a] = todo[a] \ {c}
  \/ Stage(pc'[a]) < Stage(pc[a]) /\ (pc'[a] = "idle" => entries'[a] = {})
       /\ (pc[a] # "status" => entries'[a] \subseteq entries[a])
  \/ pc'[a] = "work" /\ \E e \in entries[a] : entries'[a] = entries[a] \ {e}
  \/ pc[a] = "idle" /\ pc'[a] = "deps" /\ entries[a] = {}

\* Nothing of that changes for b.
StaysPut(b) == pc'[b] = pc[b] /\ todo'[b] = todo[b] /\ entries'[b] = entries[b]

\* Every step takes one agent further and none further back, or is one of the troubles.
EveryStepAdvances ==
  [][\/ troubles < troubles'
     \/ \E a \in Agents : Advances(a) /\ \A b \in Agents \ {a} : StaysPut(b)]_vars

\* As long as a case of the plan can still pass, a manifest that saw all the plan's cases has an
\* entry to run.
ManifestsOfferWork ==
  [][\A a \in Agents :
       /\ ReadStatus(a) /\ ToSet(plan) \subseteq ToSet(links[a])
       /\ \E c \in ToSet(plan) \cap Attainable : Status(c) # "pass"
       => \E e \in entries'[a] : e.runnable /\ Status(e.case) # "pass"]_vars

\* A manifest has read dependencies that are there, and has cases to read or is done; only
\* one that was answered has entries.
Reading ==
  \A a \in Agents :
    /\ prereqs[a] \subseteq deps
    /\ pc[a] = "deps" => todo[a] # {}
    /\ pc[a] \in {"idle", "deps", "status"} => entries[a] = {}

LEMMA ReadingNext ==
  ASSUME TypeInv, Reading, [Next]_vars
  PROVE  Reading'
<1>0. deps \subseteq deps'
  BY ResultsEvolve
<1>1. CASE UNCHANGED <<pc, todo, prereqs, entries>>
  BY <1>0, <1>1 DEF Reading
<1>2. ASSUME NEW a \in Agents, Agent(a) \/ Crash(a) PROVE Reading'
  <2>0. /\ pc \in [Agents -> Places] /\ todo \in [Agents -> SUBSET Cases]
        /\ prereqs \in [Agents -> SUBSET Pairs] /\ entries \in [Agents -> SUBSET Entry]
        /\ plan \in Seq(Cases)
    BY DEF TypeInv, TypeOK
  <2>1. ASSUME NEW b \in Agents \ {a}
        PROVE  /\ prereqs'[b] \subseteq deps'
               /\ pc'[b] = "deps" => todo'[b] # {}
               /\ pc'[b] \in {"idle", "deps", "status"} => entries'[b] = {}
    BY <1>0, <1>2, <2>1, OthersStay DEF Reading
  <2>2. /\ prereqs'[a] \subseteq deps'
        /\ pc'[a] = "deps" => todo'[a] # {}
        /\ pc'[a] \in {"idle", "deps", "status"} => entries'[a] = {}
    <3> USE <2>0 DEF Goto, GoOn, manifest, Reading
    <3>1. CASE ReadLinks(a)
      <4>1. ToSet(plan) # {}
        <5>1. plan # << >>
          BY <3>1 DEF ReadLinks
        <5>2. Len(plan) \in Nat /\ DOMAIN plan = 1..Len(plan) /\ Len(plan) # 0
          BY <5>1, LenProperties, EmptySeq
        <5>3. plan[1] \in ToSet(plan)
          BY <5>2 DEF ToSet
        <5> QED  BY <5>3
      <4> QED  BY <1>0, <3>1, <4>1 DEF ReadLinks
    <3>2. CASE ReadDeps(a)
      <4>1. PICK c \in todo[a] :
              /\ todo'[a] = todo[a] \ {c}
              /\ prereqs'[a] = prereqs[a] \cup ({c} \X Prerequisites(c))
              /\ pc'[a] = IF todo[a] = {c} THEN "status" ELSE "deps"
        BY <3>2 DEF ReadDeps
      <4>2. {c} \X Prerequisites(c) \subseteq deps
        BY DEF Prerequisites
      <4>3. pc[a] = "deps" /\ entries' = entries
        BY <3>2 DEF ReadDeps
      <4> QED  BY <1>0, <4>1, <4>2, <4>3
    <3>3. CASE ReadStatus(a)
      <4>1. prereqs'[a] = {}
        BY <3>3 DEF ReadStatus
      <4>2. pc'[a] \in {"idle", "work"} /\ (pc'[a] = "idle" => entries'[a] = {})
        BY <3>3 DEF ReadStatus
      <4> QED  BY <4>1, <4>2
    <3>4. CASE Work(a)
      BY <1>0, <3>4 DEF Work, RunCase, ReportBlocked, Report
    <3>5. CASE Save(a)
      BY <1>0, <3>5 DEF Save, Record, CascadeBegin, CascadeEnd
    <3>6. CASE Crash(a)
      BY <3>6 DEF Crash
    <3> QED  BY <1>2, <3>1, <3>2, <3>3, <3>4, <3>5, <3>6 DEF Agent, Ask
  <2> QED  BY <2>1, <2>2 DEF Reading
<1>3. ASSUME NEW e \in Edits, AddDependency(e) \/ AddCase(e) \/ RemoveCase(e) \/ RunElsewhere(e)
      PROVE  Reading'
  BY <1>1, <1>3 DEF AddDependency, AddCase, RemoveCase, RunElsewhere, Edit, manifest
<1>4. CASE UNCHANGED vars
  BY <1>1, <1>4 DEF vars
<1> QED  BY <1>2, <1>3, <1>4 DEF Next

LEMMA ProgressAlways == Spec => [](TypeInv /\ Reading)
<1>1. Init => Reading
  BY DEF Init, Reading
<1> QED  BY <1>1, TypeInit, TypeStep, ReadingNext, PTL DEF Spec

\* Agents never wait for each other, and the entries of a manifest have a first.
THEOREM NobodyGetsStuck == Spec => []NeverStuck
<1>1. TypeInv /\ Reading => NeverStuck
  <2> SUFFICES ASSUME TypeInv, Reading, NEW a \in Agents, pc[a] = "idle" => plan # << >>
               PROVE  Ready(a)
    BY DEF NeverStuck
  <2>1. pc[a] \in Places /\ Placed(a)
    BY DEF TypeInv, TypeOK
  <2>2. pc[a] \in {"work", "record", "cascade", "block"} => First(a) \in entries[a]
    BY <2>1, FirstIsEntry DEF TypeInv, Placed
  <2> QED  BY <2>1, <2>2 DEF Places, Reading, Ready
<1> QED  BY <1>1, ProgressAlways, PTL

\* Each step of an agent uses up a case to read, a stage of its manifest or an entry; a new
\* manifest is asked for when nothing is left of the one before.
THEOREM EveryStepAdvancesHolds == Spec => EveryStepAdvances
<1> DEFINE A == \/ troubles < troubles'
                \/ \E a \in Agents : Advances(a) /\ \A b \in Agents \ {a} : StaysPut(b)
<1>1. ASSUME TypeInv, Reading, NEW a \in Agents, Agent(a)
      PROVE  Advances(a)
  <2>0. /\ pc \in [Agents -> Places] /\ todo \in [Agents -> SUBSET Cases]
        /\ entries \in [Agents -> SUBSET Entry] /\ Placed(a)
        /\ (pc[a] \in {"idle", "deps", "status"} => entries[a] = {})
    BY <1>1 DEF TypeInv, TypeOK, Reading
  <2>1. pc[a] \in {"work", "record", "cascade", "block"} => First(a) \in entries[a]
    BY <1>1, <2>0, FirstIsEntry DEF TypeInv, Placed
  <2> USE <2>0 DEF Goto, GoOn, manifest, Advances, Stage
  <2>2. CASE ReadLinks(a)
    BY <2>2 DEF ReadLinks
  <2>3. CASE ReadDeps(a)
    BY <2>3 DEF ReadDeps
  <2>4. CASE ReadStatus(a)
    <3>1. /\ pc[a] = "status" /\ pc'[a] \in {"idle", "work"}
          /\ (pc'[a] = "idle" => entries'[a] = {})
      BY <2>4 DEF ReadStatus
    <3> QED  BY <3>1
  <2>5. CASE Work(a)
    BY <2>5 DEF Work, RunCase, ReportBlocked, Report
  <2>6. CASE Record(a)
    BY <2>1, <2>6 DEF Record
  <2>7. CASE CascadeBegin(a)
    BY <2>7 DEF CascadeBegin
  <2>8. CASE CascadeEnd(a)
    BY <2>1, <2>8 DEF CascadeEnd
  <2> QED  BY <1>1, <2>2, <2>3, <2>4, <2>5, <2>6, <2>7, <2>8 DEF Agent, Ask, Save
<1>2. ASSUME TypeInv, NEW a \in Agents, Agent(a), NEW b \in Agents \ {a}
      PROVE  StaysPut(b)
  BY <1>2, OthersStay DEF StaysPut
<1>3. ASSUME TypeInv, NEW a \in Agents, Crash(a)
      PROVE  troubles < troubles'
  BY <1>3 DEF Crash, TypeInv, TypeOK
<1>4. ASSUME TypeInv, NEW e \in Edits,
             AddDependency(e) \/ AddCase(e) \/ RemoveCase(e) \/ RunElsewhere(e)
      PROVE  troubles < troubles'
  BY <1>4 DEF AddDependency, AddCase, RemoveCase, RunElsewhere, Edit, TypeInv, TypeOK
<1>5. TypeInv /\ Reading /\ [Next]_vars => [A]_vars
  BY <1>1, <1>2, <1>3, <1>4 DEF Next
<1> QED  BY <1>5, ProgressAlways, PTL DEF EveryStepAdvances, Spec

\* As long as a case can pass that has not, one is next: in the plan, without a pass, and with
\* all its prerequisites passed.
LEMMA OneIsNext ==
  ASSUME NEW c \in Attainable, Status(c) # "pass"
  PROVE  \E d \in ToSet(plan) \cap Cases :
           Status(d) # "pass" /\ \A p \in Prerequisites(d) : Status(p) = "pass"
<1> SUFFICES ASSUME \A d \in ToSet(plan) \cap Cases :
                      (\A p \in Prerequisites(d) : Status(p) = "pass") => Status(d) = "pass"
             PROVE  FALSE
  OBVIOUS
<1> DEFINE S == {d \in Cases : Status(d) = "pass"}
<1>1. \A d \in Cases :
        Status(d) = "pass" \/ (d \in ToSet(plan) /\ Prerequisites(d) \subseteq S) => d \in S
  OBVIOUS
<1>2. c \in S
  <2>1. S \in SUBSET Cases
    OBVIOUS
  <2> HIDE DEF S
  <2> QED  BY <1>1, <2>1 DEF Attainable
<1> QED  BY <1>2

\* What can pass is on offer: the manifest's entry of the case that is next is runnable, as what
\* was read of its prerequisites is among those it has, and they have passed.
THEOREM ManifestsOfferWorkHolds == Spec => ManifestsOfferWork
<1> DEFINE A == \A a \in Agents :
                  /\ ReadStatus(a) /\ ToSet(plan) \subseteq ToSet(links[a])
                  /\ \E c \in ToSet(plan) \cap Attainable : Status(c) # "pass"
                  => \E e \in entries'[a] : e.runnable /\ Status(e.case) # "pass"
<1>1. ASSUME TypeInv, Reading, NEW a \in Agents, ReadStatus(a),
             ToSet(plan) \subseteq ToSet(links[a]),
             NEW c \in ToSet(plan) \cap Attainable, Status(c) # "pass"
      PROVE  \E e \in entries'[a] : e.runnable /\ Status(e.case) # "pass"
  <2>1. PICK d \in ToSet(plan) \cap Cases :
          Status(d) # "pass" /\ \A p \in Prerequisites(d) : Status(p) = "pass"
    BY <1>1, OneIsNext
  <2>2. PICK i \in DOMAIN links[a] : links[a][i] = d
    BY <1>1, <2>1 DEF ToSet
  <2>3. BlockedBy(a, d) = {}
    <3> SUFFICES ASSUME NEW p \in Cases, <<d, p>> \in prereqs[a]
                 PROVE  p \in Consulted(a) /\ Status(p) = "pass"
      BY DEF BlockedBy
    <3>1. p \in Consulted(a)
      <4>1. <<d, p>>[2] = p
        OBVIOUS
      <4> QED  BY <4>1 DEF Consulted
    <3>2. p \in Prerequisites(d)
      BY <1>1 DEF Reading, Prerequisites
    <3> QED  BY <2>1, <3>1, <3>2
  <2> DEFINE e == EntryOf(a, i)
             answer == {EntryOf(a, j) : j \in DOMAIN links[a]}
  <2>4. e \in answer /\ e.runnable /\ e.case = d
    BY <2>2, <2>3 DEF EntryOf
  <2> HIDE DEF e
  <2>5. Open(e)
    BY <2>1, <2>4 DEF Open
  <2>6. entries'[a] = {f \in answer : Open(f)} \/ entries'[a] = {f \in answer : OpenOrStuck(f)}
    BY <1>1 DEF ReadStatus, GoOn, TypeInv, TypeOK
  <2> HIDE DEF answer
  <2>7. e \in entries'[a]
    BY <2>4, <2>5, <2>6 DEF OpenOrStuck
  <2> QED  BY <2>1, <2>4, <2>7
<1>2. TypeInv /\ Reading /\ [Next]_vars => [A]_vars
  BY <1>1
<1> QED  BY <1>2, ProgressAlways, PTL DEF ManifestsOfferWork, Spec

=============================================================================
