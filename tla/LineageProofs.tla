---------------------------- MODULE LineageProofs ----------------------------
(***************************************************************************)
(* Proofs about module Lineage, for any cases, plans, builds and bounds.   *)
(*                                                                         *)
(* Type correctness needs one strengthening, that identifiers are handed   *)
(* out in turn (Inv); the other results rest on the types and on what one  *)
(* step can change of a build (UpsertFrame).                               *)
(***************************************************************************)
EXTENDS Lineage, FiniteSetTheorems, WellFoundedInduction, TLAPS

-----------------------------------------------------------------------------
(***************************************************************************)
(* Type correctness                                                        *)
(***************************************************************************)

\* Identifiers are distinct because the next one is above all those given.
Inv == /\ TypeOK
       /\ IsFiniteSet(Built)
       /\ \A b \in Built : builds[b].id <= Cardinality(Built)

\* An upsert writes one row: a new one under the next identifier, or the missing fields
\* of an existing one.
LEMMA UpsertFrame ==
  ASSUME Inv, NEW b \in Keys, NEW m \in Metadata, Upsert(b, m)
  PROVE  /\ builds' \in [Keys -> Build \cup {None}]
         /\ builds'[b] \in Build
         /\ \A x \in Keys \ {b} : builds'[x] = builds[x]
         /\ builds[b] = None => /\ Cardinality(Built) < MaxBuilds
                                /\ builds'[b].id = Cardinality(Built) + 1
                                /\ builds'[b].created <= now
         /\ builds[b] # None => /\ builds'[b].id = builds[b].id
                                /\ builds'[b].created = builds[b].created
                                /\ builds[b].branch # None => builds'[b].branch = builds[b].branch
<1> USE DEF Inv, TypeOK
<1>1. Cardinality(Built) \in Nat
  BY FS_CardinalityType
<1>2. CASE builds[b] = None
  <2>1. PICK t \in 0..now :
          builds' = [builds EXCEPT ![b] =
             [id |-> Cardinality(Built) + 1, created |-> t,
              branch |-> m.branch, commit |-> m.commit, base |-> m.base]]
    BY <1>2 DEF Upsert
  <2>2. Cardinality(Built) < MaxBuilds
    BY <1>2 DEF Upsert
  <2>3. builds'[b] \in Build
    BY <1>1, <2>1, <2>2, LineageAssumption DEF Build, Metadata
  <2> QED  BY <1>1, <1>2, <2>1, <2>2, <2>3
<1>3. CASE builds[b] # None
  <2>1. builds' = [builds EXCEPT ![b].branch = Supplied(m.branch, @),
                                 ![b].commit = Supplied(m.commit, @),
                                 ![b].base = Supplied(m.base, @)]
    BY <1>3 DEF Upsert
  <2>2. builds[b] \in Build
    BY <1>3
  <2>3. builds'[b] = [builds[b] EXCEPT !.branch = Supplied(m.branch, @),
                                       !.commit = Supplied(m.commit, @),
                                       !.base = Supplied(m.base, @)]
    BY <2>1
  <2>4. builds'[b] \in Build
    BY <2>2, <2>3 DEF Build, Metadata, Supplied
  <2>5. \A x \in Keys \ {b} : builds'[x] = builds[x]
    BY <2>1
  <2>6. builds' \in [Keys -> Build \cup {None}]
    BY <2>1, <2>4, <2>5
  <2> QED  BY <1>3, <2>2, <2>3, <2>4, <2>5, <2>6 DEF Build, Supplied
<1> QED  BY <1>2, <1>3

\* What becomes of the set of builds.
LEMMA UpsertBuilt ==
  ASSUME Inv, NEW b \in Keys, NEW m \in Metadata, Upsert(b, m)
  PROVE  /\ Built' = Built \cup {b}
         /\ IsFiniteSet(Built')
         /\ \A x \in Built' : builds'[x].id <= Cardinality(Built')
         /\ \A x, y \in Built' : x # y => builds'[x].id # builds'[y].id
         /\ \A x \in Built' : builds'[x].created <= now
<1>1. Built' = Built \cup {b}
  BY ZenonT(20), UpsertFrame, LineageAssumption DEF Built
<1>2. /\ IsFiniteSet(Built')
      /\ Cardinality(Built) \in Nat
      /\ Cardinality(Built') = IF b \in Built THEN Cardinality(Built) ELSE Cardinality(Built) + 1
  BY <1>1, FS_AddElement, FS_CardinalityType DEF Inv
<1>3. \A x \in Built : x # b => builds'[x] = builds[x]
  BY UpsertFrame DEF Built
<1>4. \A x \in Built : builds[x].id \in Nat
  BY LineageAssumption DEF Inv, TypeOK, Built, Build
<1>5. /\ \A x \in Built : builds[x].id <= Cardinality(Built) /\ builds[x].created <= now
      /\ \A x, y \in Built : x # y => builds[x].id # builds[y].id
  BY DEF Inv, TypeOK
<1>6. CASE b \in Built
  <2>1. builds'[b].id = builds[b].id /\ builds'[b].created = builds[b].created
    BY <1>6, UpsertFrame DEF Built
  <2>2. \A x \in Built : builds'[x].id = builds[x].id /\ builds'[x].created = builds[x].created
    BY <1>3, <2>1
  <2>3. Built' = Built
    BY <1>1, <1>6
  <2> QED  BY <1>2, <1>5, <1>6, <2>2, <2>3
<1>7. CASE b \notin Built
  <2>1. builds'[b].id = Cardinality(Built) + 1 /\ builds'[b].created <= now
    BY <1>7, UpsertFrame DEF Built
  <2>2. \A x \in Built : builds'[x].id = builds[x].id /\ builds'[x].created = builds[x].created
    BY <1>3, <1>7
  <2>3. Cardinality(Built') = Cardinality(Built) + 1
    BY <1>2, <1>7
  <2>4. \A x \in Built' : builds'[x].id <= Cardinality(Built')
    BY <1>1, <1>2, <1>4, <1>5, <2>1, <2>2, <2>3
  <2>5. \A x, y \in Built' : x # y => builds'[x].id # builds'[y].id
    BY <1>1, <1>2, <1>4, <1>5, <2>1, <2>2
  <2>6. \A x \in Built' : builds'[x].created <= now
    BY <1>1, <1>5, <2>1, <2>2
  <2> QED  BY <1>1, <1>2, <2>4, <2>5, <2>6
<1> QED  BY <1>1, <1>6, <1>7

LEMMA CreateKeepsInv ==
  ASSUME Inv, NEW b \in Keys, NEW m \in Metas, CreateBuild(b, m)
  PROVE  Inv'
<1>1. [m EXCEPT !.base = None] \in Metadata
  BY LineageAssumption DEF Metadata
<1>2. /\ builds' \in [Keys -> Build \cup {None}]
      /\ Built' = Built \cup {b} /\ IsFiniteSet(Built')
      /\ \A x \in Built' : builds'[x].id <= Cardinality(Built')
      /\ \A x, y \in Built' : x # y => builds'[x].id # builds'[y].id
      /\ \A x \in Built' : builds'[x].created <= now
  BY <1>1, UpsertFrame, UpsertBuilt DEF CreateBuild
<1>3. UNCHANGED <<latest, planCases, quarantined, avoided, now>>
  BY DEF CreateBuild
<1> QED  BY <1>2, <1>3 DEF Inv, TypeOK

LEMMA RecordKeepsInv ==
  ASSUME Inv, NEW b \in Keys, NEW m \in Metas, NEW c \in Cases, NEW s \in Statuses,
         RecordExecution(b, m, c, s)
  PROVE  Inv'
<1>1. m \in Metadata /\ Upsert(b, m)
  BY LineageAssumption DEF RecordExecution
<1>2. /\ builds' \in [Keys -> Build \cup {None}]
      /\ Built' = Built \cup {b} /\ IsFiniteSet(Built')
      /\ \A x \in Built' : builds'[x].id <= Cardinality(Built')
      /\ \A x, y \in Built' : x # y => builds'[x].id # builds'[y].id
      /\ \A x \in Built' : builds'[x].created <= now
  BY <1>1, UpsertFrame, UpsertBuilt
<1>3. latest' = [latest EXCEPT ![b][c] = s] /\ UNCHANGED <<planCases, quarantined, avoided, now>>
  BY DEF RecordExecution
<1>4. latest' \in [Keys -> [Cases -> Statuses \cup {None}]]
  BY <1>1, <1>3 DEF Inv, TypeOK
<1>5. \A x \in Keys, d \in Cases : latest'[x][d] # None => x \in Built'
  BY <1>2, <1>3 DEF Inv, TypeOK
<1> QED  BY <1>2, <1>3, <1>4, <1>5 DEF Inv, TypeOK

LEMMA OthersKeepInv ==
  ASSUME Inv, UNCHANGED <<builds, latest>>,
         planCases' \subseteq Plans \X Cases, quarantined' \subseteq Cases,
         avoided' \in 0..MaxAvoided, now' \in 0..MaxNow, now <= now'
  PROVE  Inv'
<1>1. Built' = Built
  BY DEF Built
<1>2. \A b \in Built : builds[b].created \in Nat
  BY LineageAssumption DEF Inv, TypeOK, Built, Build
<1>3. now \in Nat /\ now' \in Nat
  BY LineageAssumption DEF Inv, TypeOK
<1> QED  BY <1>1, <1>2, <1>3 DEF Inv, TypeOK

LEMMA InitInv == Init => Inv
<1> SUFFICES ASSUME Init PROVE Inv
  OBVIOUS
<1>1. Built = {}
  BY DEF Init, Built
<1> QED  BY <1>1, FS_EmptySet, LineageAssumption DEF Init, Inv, TypeOK

LEMMA NextInv == Inv /\ [Next]_vars => Inv'
<1> SUFFICES ASSUME Inv, [Next]_vars PROVE Inv'
  OBVIOUS
<1>0. /\ planCases \subseteq Plans \X Cases /\ quarantined \subseteq Cases
      /\ avoided \in 0..MaxAvoided /\ now \in 0..MaxNow
  BY DEF Inv, TypeOK
<1>1. ASSUME NEW b \in Keys, NEW m \in Metas, CreateBuild(b, m) PROVE Inv'
  BY <1>1, CreateKeepsInv
<1>2. ASSUME NEW b \in Keys, NEW m \in Metas, NEW r \in Reports,
             RecordExecution(b, m, r[1], r[2])
      PROVE Inv'
  <2>1. r[1] \in Cases /\ r[2] \in Statuses
    BY LineageAssumption
  <2> QED  BY <1>2, <2>1, RecordKeepsInv
<1>3. ASSUME NEW l \in Linkable, AddCase(l[1], l[2]) \/ RemoveCase(l[1], l[2]) PROVE Inv'
  <2>1. l \in Plans \X Cases
    BY LineageAssumption
  <2>2. planCases' \subseteq Plans \X Cases
    BY <1>0, <1>3, <2>1 DEF AddCase, RemoveCase
  <2>3. UNCHANGED <<builds, latest, quarantined, avoided, now>>
    BY <1>3 DEF AddCase, RemoveCase
  <2> QED  BY <1>0, <2>2, <2>3, OthersKeepInv
<1>4. ASSUME NEW c \in Flaggable, NEW flag \in BOOLEAN, SetQuarantine(c, flag) PROVE Inv'
  <2>1. quarantined' \subseteq Cases
    BY <1>0, <1>4, LineageAssumption DEF SetQuarantine
  <2> QED  BY <1>0, <1>4, <2>1, OthersKeepInv DEF SetQuarantine
<1>5. CASE Tick
  <2>1. now' \in 0..MaxNow /\ now <= now'
    BY <1>0, <1>5, LineageAssumption DEF Tick
  <2> QED  BY <1>0, <1>5, <2>1, OthersKeepInv DEF Tick
<1>6. ASSUME NEW brs \in SUBSET (Branches \ {Default}), ServeGuard(brs) PROVE Inv'
  BY <1>0, <1>6, OthersKeepInv, LineageAssumption DEF ServeGuard
<1>7. CASE UNCHANGED vars
  BY <1>0, <1>7, OthersKeepInv, LineageAssumption DEF vars
<1> QED  BY <1>1, <1>2, <1>3, <1>4, <1>5, <1>6, <1>7 DEF Next

\* The writes keep every value in its domain, no two builds share an identifier, none is
\* dated in the future and no result is of a build that is not there.
THEOREM TypeCorrect == Spec => []TypeOK
<1>1. Spec => []Inv
  BY InitInv, NextInv, PTL DEF Spec
<1>2. Inv => TypeOK
  BY DEF Inv
<1> QED  BY <1>1, <1>2, PTL

-----------------------------------------------------------------------------
(***************************************************************************)
(* The order of builds                                                     *)
(***************************************************************************)

LEMMA InvAlways == Spec => []Inv
  BY InitInv, NextInv, PTL DEF Spec

\* Builds are totally ordered by date and identifier.
Total == /\ \A x, y \in Built : ~ (Before(x, y) /\ Before(y, x))
         /\ \A x, y \in Built : x = y \/ Before(x, y) \/ Before(y, x)
         /\ \A x, y, z \in Built : Before(x, y) /\ Before(y, z) => Before(x, z)

LEMMA InvTotal == Inv => Total
<1> SUFFICES ASSUME Inv PROVE Total
  OBVIOUS
<1>1. \A x \in Built : builds[x].created \in Nat /\ builds[x].id \in Nat
  BY LineageAssumption DEF Inv, TypeOK, Built, Build
<1>2. \A x, y \in Built : x # y => builds[x].id # builds[y].id
  BY DEF Inv, TypeOK
<1> QED  BY <1>1, <1>2 DEF Before, Total

LEMMA BeforeIsTotal ==
  ASSUME Inv
  PROVE  /\ \A x, y \in Built : ~ (Before(x, y) /\ Before(y, x))
         /\ \A x, y \in Built : x = y \/ Before(x, y) \/ Before(y, x)
         /\ \A x, y, z \in Built : Before(x, y) /\ Before(y, z) => Before(x, z)
BY InvTotal DEF Total

LEMMA InvTotalNext == Inv' => Total'
BY InvTotal, PTL

\* A bounded set of naturals has a greatest element.
LEMMA Greatest ==
  ASSUME NEW N \in Nat, NEW T \in SUBSET (0..N), T # {}
  PROVE  \E m \in T : \A k \in T : k <= m
<1> DEFINE D == {N - k : k \in T}
<1>0. \A k \in T : k \in Nat /\ N - k \in Nat
  OBVIOUS
<1>1. D \subseteq Nat /\ D # {}
  BY <1>0, Zenon
<1>2. PICK d \in D : \A e \in D : ~ (<<e, d>> \in OpToRel(<, Nat))
  BY <1>1, WFMin, NatLessThanWellFounded
<1>3. \A i, j \in Nat : i < j => <<i, j>> \in OpToRel(<, Nat)
  BY Zenon DEF OpToRel
<1>4. \A e \in D : ~ (e < d)
  BY <1>1, <1>2, <1>3, Zenon
<1>5. PICK m \in T : d = N - m
  OBVIOUS
<1>6. \A k \in T : ~ (N - k < N - m)
  BY <1>4, <1>5
<1>7. \A k \in T : k \in Nat /\ m \in Nat
  OBVIOUS
<1> QED  BY <1>6, <1>7

LEMMA Least ==
  ASSUME NEW T \in SUBSET Nat, T # {}
  PROVE  \E m \in T : \A k \in T : m <= k
<1>1. PICK m \in T : \A e \in T : ~ (<<e, m>> \in OpToRel(<, Nat))
  BY WFMin, NatLessThanWellFounded
<1>2. \A i, j \in Nat : i < j => <<i, j>> \in OpToRel(<, Nat)
  BY Zenon DEF OpToRel
<1>3. \A e \in T : ~ (e < m)
  BY <1>1, <1>2, Zenon
<1> QED  BY <1>3

\* Some builds, whichever, have one newest.
LEMMA NewestIsOne ==
  ASSUME Inv, NEW S \in SUBSET Built, S # {}
  PROVE  \E b \in S : Newest(S) = {b}
<1>1. \A x \in S : builds[x].created \in 0..MaxNow /\ builds[x].id \in 0..MaxBuilds
  BY LineageAssumption DEF Inv, TypeOK, Built, Build
<1>2. MaxNow \in Nat /\ MaxBuilds \in Nat
  BY LineageAssumption
<1> DEFINE Dates == {builds[x].created : x \in S}
<1>3. Dates \in SUBSET (0..MaxNow) /\ Dates # {}
  BY <1>1
<1> HIDE DEF Dates
<1>4. PICK t \in Dates : \A k \in Dates : k <= t
  BY <1>2, <1>3, Greatest
<1> DEFINE Last == {x \in S : builds[x].created = t}
           Ids == {builds[x].id : x \in Last}
<1>5. Last # {}
  BY <1>4 DEF Dates
<1>6. Ids \in SUBSET (0..MaxBuilds) /\ Ids # {}
  BY <1>1, <1>5
<1> HIDE DEF Ids
<1>7. PICK i \in Ids : \A k \in Ids : k <= i
  BY <1>2, <1>6, Greatest
<1>8. PICK b \in Last : builds[b].id = i
  BY DEF Ids
<1>9. ASSUME NEW x \in S \ {b} PROVE Before(x, b)
  <2>1. builds[x].created <= t /\ builds[b].created = t
    BY <1>4, <1>8 DEF Dates
  <2>2. builds[x].created = t => builds[x].id <= builds[b].id
    BY <1>7, <1>8 DEF Ids
  <2>3. builds[x].id # builds[b].id
    BY <1>9 DEF Inv, TypeOK
  <2>4. builds[x].created \in Nat /\ builds[b].created \in Nat
        /\ builds[x].id \in Nat /\ builds[b].id \in Nat
    BY <1>1
  <2> QED  BY <2>1, <2>2, <2>3, <2>4 DEF Before
<1>10. \A x \in Newest(S) : x = b
  BY <1>9, BeforeIsTotal DEF Newest
<1> QED  BY <1>9, <1>10 DEF Newest

\* And one oldest.
LEMMA OldestIsThere ==
  ASSUME Inv, NEW S \in SUBSET Built, S # {}
  PROVE  \E b \in S : \A x \in S \ {b} : Before(b, x)
<1>1. \A x \in S : builds[x].created \in Nat /\ builds[x].id \in Nat
  BY LineageAssumption DEF Inv, TypeOK, Built, Build
<1> DEFINE Dates == {builds[x].created : x \in S}
<1>2. Dates \in SUBSET Nat /\ Dates # {}
  BY <1>1
<1> HIDE DEF Dates
<1>3. PICK t \in Dates : \A k \in Dates : t <= k
  BY <1>2, Least
<1> DEFINE First == {x \in S : builds[x].created = t}
           Ids == {builds[x].id : x \in First}
<1>4. Ids \in SUBSET Nat /\ Ids # {}
  BY <1>1, <1>3 DEF Dates
<1> HIDE DEF Ids
<1>5. PICK i \in Ids : \A k \in Ids : i <= k
  BY <1>4, Least
<1>6. PICK b \in First : builds[b].id = i
  BY DEF Ids
<1>7. ASSUME NEW x \in S \ {b} PROVE Before(b, x)
  <2>1. t <= builds[x].created /\ builds[b].created = t
    BY <1>3, <1>6 DEF Dates
  <2>2. builds[x].created = t => builds[b].id <= builds[x].id
    BY <1>5, <1>6 DEF Ids
  <2>3. builds[x].id # builds[b].id
    BY <1>7 DEF Inv, TypeOK
  <2>4. builds[x].created \in Nat /\ builds[b].created \in Nat
        /\ builds[x].id \in Nat /\ builds[b].id \in Nat
    BY <1>1
  <2> QED  BY <2>1, <2>2, <2>3, <2>4 DEF Before
<1> QED  BY <1>7

-----------------------------------------------------------------------------
(***************************************************************************)
(* State properties                                                        *)
(***************************************************************************)

\* A path ends after it begins, so its two transitions are two flips.
LEMMA PathIsTwoFlips ==
  ASSUME Inv, NEW c \in Cases, NEW p \in Paths(c)
  PROVE  /\ p[1] \in Flips(c) /\ p[2] \in Flips(c) /\ p[1] # p[2]
         /\ IsFiniteSet(Flips(c))
<1>1. p[1] \in Broke(c) /\ p[2] \in Fixed(c) /\ Before(p[1], p[2])
  BY DEF Paths
<1>2. p[1] \in Flips(c)
  BY <1>1 DEF Broke, Flips, Red
<1>3. p[2] \in Flips(c)
  BY <1>1 DEF Fixed, Flips, Red
<1>4. p[1] \in Built
  BY <1>1 DEF Broke, History
<1>5. builds[p[1]].created \in Nat /\ builds[p[1]].id \in Nat
  BY <1>4, LineageAssumption DEF Inv, TypeOK, Built, Build
<1>6. p[1] # p[2]
  BY <1>1, <1>5 DEF Before
<1>7. Flips(c) \subseteq Built
  BY DEF Flips, History
<1>8. IsFiniteSet(Flips(c))
  BY <1>7, FS_Subset DEF Inv
<1> QED  BY <1>2, <1>3, <1>6, <1>8

LEMMA TwoElements ==
  ASSUME NEW S, IsFiniteSet(S), NEW x \in S, NEW y \in S, x # y
  PROVE  Cardinality(S) \in Nat /\ Cardinality(S) >= 2
<1>1. IsFiniteSet({x}) /\ Cardinality({x}) = 1
  BY FS_Singleton
<1>2. {x} \cup {y} \subseteq S /\ Cardinality({x} \cup {y}) = 2
  BY <1>1, FS_AddElement
<1> QED  BY <1>2, FS_Subset, FS_CardinalityType

\* A case that was broken and fixed once is always among the flaky candidates.
THEOREM FixedOnceIsFlakyHolds == Spec => []FixedOnceIsFlaky
<1>1. Inv => FixedOnceIsFlaky
  <2> SUFFICES ASSUME Inv, NEW c \in Cases, NEW p \in FixPath(c) PROVE c \in FlakyCandidates
    BY DEF FixedOnceIsFlaky
  <2>1. p \in Paths(c)
    BY DEF FixPath
  <2>2. Cardinality(Flips(c)) \in Nat /\ Cardinality(Flips(c)) >= 2
    BY <2>1, PathIsTwoFlips, TwoElements
  <2> QED  BY <2>2, LineageAssumption DEF FlakyCandidates
<1>2. Spec => []Inv
  BY InitInv, NextInv, PTL DEF Spec
<1> QED  BY <1>1, <1>2, PTL

\* _classify with its arguments exchanged gives the mirrored class.
LEMMA ClassifyMirrors ==
  ASSUME NEW s \in Statuses \cup {None}, NEW t \in Statuses \cup {None}, s # None \/ t # None,
         NEW k \in DOMAIN Mirror
  PROVE  Classify(s, t) = k <=> Classify(t, s) = Mirror[k]
<1>1. DOMAIN Mirror = {"regression", "fixed", "new_test", "removed", "still_failing",
                       "still_passing"}
  BY DEF Mirror
<1>2. None \notin Statuses
  BY LineageAssumption
<1>3. CASE s = None \/ t = None
  BY <1>1, <1>2, <1>3 DEF Classify, Mirror, Red, Statuses
<1>4. CASE s # None /\ t # None
  BY <1>1, <1>2, <1>4 DEF Classify, Mirror, Red, Statuses
<1> QED  BY <1>3, <1>4

\* What compare says of a build and another, it says mirrored of the other and the build.
THEOREM ComparisonMirrorsHolds == Spec => []ComparisonMirrors
<1>1. Inv => ComparisonMirrors
  <2> SUFFICES ASSUME Inv, NEW x \in Built, NEW y \in Built, NEW k \in DOMAIN Mirror
               PROVE  Class(k, x, y) = Class(Mirror[k], y, x)
    BY DEF ComparisonMirrors
  <2>1. \A c \in Cases : latest[x][c] \in Statuses \cup {None}
                         /\ latest[y][c] \in Statuses \cup {None}
    BY DEF Inv, TypeOK, Built
  <2>2. \A c \in Executed(x) \cup Executed(y) :
          Classify(latest[y][c], latest[x][c]) = k
            <=> Classify(latest[x][c], latest[y][c]) = Mirror[k]
    BY <2>1, ClassifyMirrors DEF Executed
  <2> QED  BY <2>2 DEF Class
<1>2. Spec => []Inv
  BY InitInv, NextInv, PTL DEF Spec
<1> QED  BY <1>1, <1>2, PTL

-----------------------------------------------------------------------------
(***************************************************************************)
(* Action properties                                                       *)
(***************************************************************************)

\* A step writes at most one build, removes none, and leaves a branch once supplied.
LEMMA StepFrame ==
  ASSUME Inv, [Next]_vars
  PROVE  /\ \A x, y \in Keys : builds'[x] # builds[x] /\ builds'[y] # builds[y] => x = y
         /\ \A x \in Keys : builds[x] # None =>
              /\ builds'[x] # None
              /\ builds[x].branch # None => builds'[x].branch = builds[x].branch
<1>1. ASSUME NEW b \in Keys, NEW m \in Metadata, Upsert(b, m)
      PROVE  /\ \A x \in Keys \ {b} : builds'[x] = builds[x]
             /\ builds'[b] # None
             /\ builds[b] # None /\ builds[b].branch # None => builds'[b].branch = builds[b].branch
  BY <1>1, UpsertFrame, LineageAssumption
<1>2. ASSUME NEW b \in Keys, NEW m \in Metas, CreateBuild(b, m)
      PROVE  Upsert(b, [m EXCEPT !.base = None]) /\ [m EXCEPT !.base = None] \in Metadata
  BY <1>2, LineageAssumption DEF CreateBuild, Metadata
<1>3. ASSUME NEW b \in Keys, NEW m \in Metas, NEW r \in Reports,
             RecordExecution(b, m, r[1], r[2])
      PROVE  Upsert(b, m) /\ m \in Metadata
  BY <1>3, LineageAssumption DEF RecordExecution
<1>4. \/ builds' = builds
      \/ \E b \in Keys, m \in Metadata : Upsert(b, m)
  BY <1>2, <1>3 DEF Next, vars, AddCase, RemoveCase, SetQuarantine, ServeGuard, Tick
<1> QED  BY <1>1, <1>4

\* The order of two builds depends on their own rows.
LEMMA NewestStable ==
  ASSUME NEW S, \A x \in S : builds'[x] = builds[x]
  PROVE  {b \in S : \A x \in S \ {b} : Before(x, b)'} = Newest(S)
BY DEF Newest, Before

\* A regression that counts is one the guard may list.
LEMMA ListedWhenBlocked ==
  ASSUME NEW br \in Branches
  PROVE  (Listed(br) # {} <=> "BLOCKED" \in Verdicts(br))
<1>1. \A b : \A S \in Against("regression", b) : Counted(S) \subseteq Cases
  BY DEF Against, Class, Executed, Counted
<1>2. Listed(br) # {} <=> (\E b \in AtHead(br) : \E S \in Against("regression", b) : Counted(S) # {})
  <2>1. ASSUME Listed(br) # {}
        PROVE  \E b \in AtHead(br) : \E S \in Against("regression", b) : Counted(S) # {}
    <3>1. PICK e \in AtHead(br) \X Cases : \E S \in Against("regression", e[1]) : e[2] \in Counted(S)
      BY <2>1 DEF Listed
    <3>2. e[1] \in AtHead(br)
      OBVIOUS
    <3> QED  BY <3>1, <3>2
  <2>2. ASSUME NEW b \in AtHead(br), NEW S \in Against("regression", b), Counted(S) # {}
        PROVE  Listed(br) # {}
    <3>1. PICK c \in Cases : c \in Counted(S)
      BY <1>1, <2>2
    <3>2. <<b, c>> \in Listed(br)
      BY <3>1 DEF Listed
    <3> QED  BY <3>2
  <2> QED  BY <2>1, <2>2
<1>3. "BLOCKED" \in Verdicts(br) <=>
        (\E b \in AtHead(br) : \E S \in Against("regression", b) : Counted(S) # {})
  BY DEF Verdicts
<1> QED  BY <1>2, <1>3

\* Lifting a quarantine adds cases to what counts, setting one takes them away.
THEOREM QuarantineOnlyUnblocksHolds == Spec => QuarantineOnlyUnblocks
<1> DEFINE Step == quarantined' # quarantined /\ UNCHANGED <<builds, latest, now>> =>
       \A br \in Branches :
         /\ quarantined \subseteq quarantined' /\ "READY" \in Verdicts(br)
              => "READY" \in Verdicts(br)'
         /\ quarantined' \subseteq quarantined /\ "BLOCKED" \in Verdicts(br)
              => "BLOCKED" \in Verdicts(br)'
         /\ quarantined \subseteq quarantined'
              => Listed(br)' = {e \in Listed(br) : e[2] \notin quarantined'}
         /\ (Listed(br) # {} <=> "BLOCKED" \in Verdicts(br))
<1>1. Step
  <2> SUFFICES ASSUME UNCHANGED <<builds, latest, now>>, NEW br \in Branches
               PROVE  /\ quarantined \subseteq quarantined' /\ "READY" \in Verdicts(br)
                           => "READY" \in Verdicts(br)'
                      /\ quarantined' \subseteq quarantined /\ "BLOCKED" \in Verdicts(br)
                           => "BLOCKED" \in Verdicts(br)'
                      /\ quarantined \subseteq quarantined'
                           => Listed(br)' = {e \in Listed(br) : e[2] \notin quarantined'}
                      /\ (Listed(br) # {} <=> "BLOCKED" \in Verdicts(br))
    OBVIOUS
  <2>1. Built' = Built
    BY DEF Built
  <2>2. Active(br)' = Active(br)
    BY <2>1 DEF Active
  <2>3. AtHead(br)' = AtHead(br)
    BY <2>2 DEF AtHead, Newest, Before
  <2>4. \A b : Against("regression", b)' = Against("regression", b)
    <3> TAKE b
    <3>1. Baselines(b)' = Baselines(b)
      BY <2>1 DEF Baselines, Pinned, Newest, Eligible, Candidates, Before
    <3>2. \A x : Class("regression", b, x)' = Class("regression", b, x)
      BY DEF Class, Executed
    <3> QED  BY <3>1, <3>2 DEF Against, Executed
  <2>5. \A S : /\ quarantined \subseteq quarantined' /\ Counted(S) = {} => Counted(S)' = {}
               /\ quarantined' \subseteq quarantined /\ Counted(S) # {} => Counted(S)' # {}
    BY DEF Counted
  <2>6. quarantined \subseteq quarantined' =>
          Listed(br)' = {e \in Listed(br) : e[2] \notin quarantined'}
    <3>1. Listed(br)' = {e \in AtHead(br) \X Cases :
                           \E S \in Against("regression", e[1]) : e[2] \in S \ quarantined'}
      BY <2>3, <2>4 DEF Listed, Counted
    <3>2. Listed(br) = {e \in AtHead(br) \X Cases :
                          \E S \in Against("regression", e[1]) : e[2] \in S \ quarantined}
      BY DEF Listed, Counted
    <3> QED  BY <3>1, <3>2
  <2>7. (Listed(br) # {} <=> "BLOCKED" \in Verdicts(br))
    BY ListedWhenBlocked
  <2>8. quarantined \subseteq quarantined' /\ "READY" \in Verdicts(br) => "READY" \in Verdicts(br)'
    BY <2>2, <2>3, <2>4, <2>5 DEF Verdicts
  <2>9. quarantined' \subseteq quarantined /\ "BLOCKED" \in Verdicts(br)
          => "BLOCKED" \in Verdicts(br)'
    BY <2>2, <2>3, <2>4, <2>5 DEF Verdicts
  <2> QED  BY <2>6, <2>7, <2>8, <2>9
<1>2. QuarantineOnlyUnblocks <=> [][Step]_vars
  BY DEF QuarantineOnlyUnblocks
<1> QED  BY <1>1, <1>2, PTL DEF Spec

\* A build added to some others is the newest, or leaves the newest what it was.
LEMMA AddedNewest ==
  ASSUME Inv', NEW n \in Built', NEW S \in SUBSET Built', n \notin S,
         \A x \in S : builds'[x] = builds[x]
  PROVE  LET N == {b \in S \cup {n} : \A x \in (S \cup {n}) \ {b} : Before(x, b)'}
         IN  \/ N = Newest(S)
             \/ N = {n} /\ \A x \in S : Before(x, n)'
<1> DEFINE N == {b \in S \cup {n} : \A x \in (S \cup {n}) \ {b} : Before(x, b)'}
<1>1. Total'
  BY InvTotalNext
<1>2. \A x, y \in S : Before(x, y)' <=> Before(x, y)
  BY DEF Before
<1>3. CASE \A x \in S : Before(x, n)'
  BY <1>1, <1>3 DEF Total
<1>4. CASE \E y \in S : ~ Before(y, n)'
  <2>1. PICK y \in S : Before(n, y)'
    BY <1>1, <1>4 DEF Total
  <2>2. n \notin N
    BY <1>1, <2>1 DEF Total
  <2>3. \A x \in S : (\A z \in S \ {x} : Before(z, x)') => Before(n, x)'
    BY <1>1, <2>1 DEF Total
  <2>4. \A x \in S : x \in N <=> x \in Newest(S)
    BY <1>2, <2>3 DEF Newest
  <2> QED  BY <2>2, <2>4 DEF Newest
<1> QED  BY <1>3, <1>4

\* A new build joins the candidates of b, and those at or before b where it is dated so.
LEMMA NewBuildRejudges ==
  ASSUME Inv, [Next]_vars, NEW n \in Keys, NEW b \in Built,
         builds[n] = None, builds'[n] # None, \A x \in Built : builds'[x] = builds[x],
         Baselines(b)' # Baselines(b)
  PROVE  /\ n \in Candidates(b)'
         /\ \/ builds[b].base # None /\ builds'[n].commit = builds[b].base
            \/ /\ Pinned(b) = {} /\ Baselines(b)' = {n}
               /\ \A x \in Baselines(b) :
                    IF builds[x].created <= builds[b].created
                    THEN builds'[n].created <= builds[b].created /\ Before(x, n)'
                    ELSE builds'[n].created <= builds[b].created \/ Before(x, n)'
<1> DEFINE Early == {x \in Candidates(b) : builds[x].created <= builds[b].created}
           EarlyNext == {x \in Candidates(b)' : builds'[x].created <= builds'[b].created}
           early == builds'[n].created <= builds[b].created
<1>1. Built' = Built \cup {n} /\ n \notin Built /\ b \in Keys /\ Inv'
  BY StepFrame, NextInv DEF Built
<1>2. \A x \in Candidates(b) : builds'[x] = builds[x] /\ x \in Built
  BY DEF Candidates
<1>3. /\ Candidates(b)' = IF n \in Candidates(b)' THEN Candidates(b) \cup {n} ELSE Candidates(b)
      /\ n \notin Candidates(b)
  BY <1>1, <1>2 DEF Candidates
<1>4. /\ Eligible(b) = IF Early # {} THEN Early ELSE Candidates(b)
      /\ Eligible(b)' = IF EarlyNext # {} THEN EarlyNext ELSE Candidates(b)'
  BY DEF Eligible
<1>5. EarlyNext = IF n \in Candidates(b)' /\ early THEN Early \cup {n} ELSE Early
  BY <1>2, <1>3
<1>6. Eligible(b) \subseteq Candidates(b)
  BY <1>4
<1> HIDE DEF Early, EarlyNext, early
<1>7. ASSUME Pinned(b)' = Pinned(b), Eligible(b)' = Eligible(b) PROVE FALSE
  <2>1. Newest(Eligible(b))' = Newest(Eligible(b))
    BY <1>2, <1>6, <1>7 DEF Newest, Before
  <2> QED  BY <1>7, <2>1 DEF Baselines
<1>8. n \in Candidates(b)'
  <2>1. SUFFICES ASSUME n \notin Candidates(b)' PROVE FALSE
    OBVIOUS
  <2>2. Candidates(b)' = Candidates(b) /\ EarlyNext = Early
    BY <1>3, <1>5, <2>1
  <2>3. Pinned(b)' = Pinned(b)
    BY <1>2, <2>2 DEF Pinned
  <2> QED  BY <1>4, <1>7, <2>2, <2>3
<1>9. ASSUME ~ (builds[b].base # None /\ builds'[n].commit = builds[b].base)
      PROVE  /\ Pinned(b) = {} /\ Baselines(b)' = {n}
             /\ \A x \in Baselines(b) :
                  IF builds[x].created <= builds[b].created
                  THEN builds'[n].created <= builds[b].created /\ Before(x, n)'
                  ELSE builds'[n].created <= builds[b].created \/ Before(x, n)'
  <2>1. Pinned(b)' = Pinned(b)
    BY <1>2, <1>3, <1>8, <1>9 DEF Pinned
  <2>2. /\ Pinned(b) = {}
        /\ Baselines(b) = Newest(Eligible(b)) /\ Baselines(b)' = Newest(Eligible(b))'
    BY <2>1 DEF Baselines
  <2>3. Newest(Eligible(b))' = {z \in Eligible(b)' : \A x \in Eligible(b)' \ {z} : Before(x, z)'}
    BY DEF Newest
  <2>4. ASSUME Eligible(b)' = Eligible(b) \cup {n}
        PROVE  Baselines(b)' = {n} /\ \A x \in Baselines(b) : Before(x, n)'
    <3>1. /\ n \in Built' /\ n \notin Eligible(b) /\ Eligible(b) \in SUBSET Built'
          /\ \A x \in Eligible(b) : builds'[x] = builds[x]
      BY <1>1, <1>2, <1>6
    <3> DEFINE E == Eligible(b)
               N == {z \in E \cup {n} : \A x \in (E \cup {n}) \ {z} : Before(x, z)'}
    <3>2. Baselines(b)' = N
      BY <2>2, <2>3, <2>4
    <3>3. \/ N = Newest(E)
          \/ N = {n} /\ \A x \in E : Before(x, n)'
      <4> HIDE DEF E
      <4>1. n \in Built' /\ n \notin E /\ E \in SUBSET Built' /\ \A x \in E : builds'[x] = builds[x]
        BY <3>1 DEF E
      <4> QED  BY <1>1, <4>1, AddedNewest
    <3>4. N # Newest(E)
      BY <2>2, <3>2
    <3>5. N = {n} /\ \A x \in E : Before(x, n)'
      BY <3>3, <3>4
    <3> QED  BY <2>2, <3>2, <3>5 DEF Newest
  <2>5. Baselines(b) \subseteq Eligible(b)
    BY <2>2 DEF Newest
  <2>6. CASE Early # {}
    <3>1. early
      BY <1>4, <1>5, <1>7, <2>1, <2>6
    <3>2. Eligible(b)' = Eligible(b) \cup {n} /\ Eligible(b) = Early
      BY <1>4, <1>5, <1>8, <2>6, <3>1
    <3>3. \A x \in Baselines(b) : builds[x].created <= builds[b].created
      BY <2>5, <3>2 DEF Early
    <3> QED  BY <2>2, <2>4, <3>1, <3>2, <3>3 DEF early
  <2>7. CASE Early = {}
    <3>1. \A x \in Baselines(b) : ~ (builds[x].created <= builds[b].created)
      BY <1>6, <2>5, <2>7 DEF Early
    <3>2. CASE early
      <4>1. Eligible(b)' = {n}
        BY <1>4, <1>5, <1>8, <2>7, <3>2
      <4>2. Baselines(b)' = {n}
        BY <2>2, <2>3, <4>1
      <4> QED  BY <2>2, <3>1, <3>2, <4>2 DEF early
    <3>3. CASE ~ early
      <4>1. Eligible(b)' = Eligible(b) \cup {n}
        BY <1>3, <1>4, <1>5, <1>8, <2>7, <3>3
      <4> QED  BY <2>2, <2>4, <3>1, <4>1
    <3> QED  BY <3>2, <3>3
  <2> QED  BY <2>6, <2>7
<1> QED  BY <1>8, <1>9

\* What happens on the default branch does not change the judgement of a build, unless a new
\* build is a better baseline than the one it had.
THEOREM LaterBuildsDoNotRejudgeHolds == Spec => LaterBuildsDoNotRejudge
<1> DEFINE Step == \A n \in Keys, b \in Built :
       /\ builds[n] = None /\ builds'[n] # None /\ \A x \in Built : builds'[x] = builds[x]
       /\ Baselines(b)' # Baselines(b)
       => /\ n \in Candidates(b)'
          /\ \/ builds[b].base # None /\ builds'[n].commit = builds[b].base
             \/ /\ Pinned(b) = {} /\ Baselines(b)' = {n}
                /\ \A x \in Baselines(b) :
                     IF builds[x].created <= builds[b].created
                     THEN builds'[n].created <= builds[b].created /\ Before(x, n)'
                     ELSE builds'[n].created <= builds[b].created \/ Before(x, n)'
<1>1. Inv /\ [Next]_vars => Step
  BY NewBuildRejudges
<1>2. LaterBuildsDoNotRejudge <=> [][Step]_vars
  BY DEF LaterBuildsDoNotRejudge
<1> QED  BY <1>1, <1>2, InvAlways, PTL DEF Spec

\* A build of another branch enters neither the active builds of br nor the candidates
\* of any build.
LEMMA OtherBranchIsNoParty ==
  ASSUME Inv, [Next]_vars, NEW b \in Keys, NEW br \in Branches \ {Default},
         \A x \in Keys \ {b} : builds'[x] = builds[x] /\ latest'[x] = latest[x],
         builds'[b] # None, builds'[b].branch \notin {br, Default},
         UNCHANGED <<quarantined, now>>
  PROVE  Verdicts(br)' = Verdicts(br)
<1>1. b \in Built => builds[b].branch \notin {br, Default}
  BY StepFrame, LineageAssumption DEF Built
<1>2. Built' = Built \cup {b}
  BY DEF Built
<1>3. Active(br)' = Active(br) /\ b \notin Active(br) /\ Active(br) \subseteq Built
  BY <1>1, <1>2 DEF Active, Built
<1>4. \A x \in Built \ {b} : builds'[x] = builds[x] /\ latest'[x] = latest[x]
  BY DEF Built
<1>5. AtHead(br)' = AtHead(br) /\ AtHead(br) \subseteq Active(br)
  <2>1. Newest(Active(br))' = Newest(Active(br)) /\ Newest(Active(br)) \subseteq Active(br)
    BY <1>3, <1>4 DEF Newest, Before
  <2> QED  BY <1>3, <1>4, <2>1 DEF AtHead
<1>6. ASSUME NEW x \in Built \ {b}
      PROVE  Against("regression", x)' = Against("regression", x)
  <2>1. Candidates(x)' = Candidates(x) /\ b \notin Candidates(x) /\ Candidates(x) \subseteq Built
    BY <1>1, <1>2, <1>4, <1>6 DEF Candidates
  <2>2. Pinned(x)' = Pinned(x) /\ Pinned(x) \subseteq Candidates(x)
    BY <1>4, <1>6, <2>1 DEF Pinned
  <2>3. Eligible(x)' = Eligible(x) /\ Eligible(x) \subseteq Candidates(x)
    BY ZenonT(20), <1>4, <1>6, <2>1 DEF Eligible
  <2>4. Newest(Eligible(x))' = Newest(Eligible(x)) /\ Newest(Eligible(x)) \subseteq Candidates(x)
    BY <1>4, <2>1, <2>3 DEF Newest, Before
  <2>5. Baselines(x)' = Baselines(x) /\ Baselines(x) \subseteq Candidates(x)
    BY <2>2, <2>4 DEF Baselines
  <2>6. \A y \in Baselines(x) : Class("regression", x, y)' = Class("regression", x, y)
    BY <1>4, <1>6, <2>1, <2>5 DEF Class, Executed
  <2> QED  BY <2>5, <2>6 DEF Against
<1>7. \A x \in AtHead(br) : Against("regression", x)' = Against("regression", x)
  BY <1>3, <1>5, <1>6
<1>8. \A S : Counted(S)' = Counted(S)
  BY DEF Counted
<1>9. (\E x \in AtHead(br) : \E S \in Against("regression", x) : Counted(S) # {})'
        <=> \E x \in AtHead(br) : \E S \in Against("regression", x) : Counted(S) # {}
  BY <1>5, <1>7, <1>8
<1>10. (\A x \in AtHead(br) : \E S \in Against("regression", x) : Counted(S) = {})'
        <=> \A x \in AtHead(br) : \E S \in Against("regression", x) : Counted(S) = {}
  BY <1>5, <1>7, <1>8
<1> QED  BY <1>3, <1>9, <1>10 DEF Verdicts

\* Merge-readiness of a branch is decided by its own builds and the default branch's.
THEOREM BranchesAreIsolatedHolds == Spec => BranchesAreIsolated
<1> DEFINE Step == \A b \in Keys, br \in Branches \ {Default} :
       /\ <<builds[b], latest[b]>> # <<builds'[b], latest'[b]>>
       /\ \A x \in Keys \ {b} : builds'[x] = builds[x] /\ latest'[x] = latest[x]
       /\ builds'[b] # None /\ builds'[b].branch \notin {br, Default}
       /\ UNCHANGED <<quarantined, now>>
       => Verdicts(br)' = Verdicts(br)
<1>1. Inv /\ [Next]_vars => Step
  BY OtherBranchIsNoParty
<1>2. BranchesAreIsolated <=> [][Step]_vars
  BY DEF BranchesAreIsolated
<1>3. Spec => []Inv
  BY InitInv, NextInv, PTL DEF Spec
<1> QED  BY <1>1, <1>2, <1>3, PTL DEF Spec

-----------------------------------------------------------------------------
(***************************************************************************)
(* Fix paths                                                               *)
(***************************************************************************)

\* A case has at most one known fix path, and has one as soon as it was ever fixed after it
\* broke: two agents that ask are sent to the same fix (known_fix_path).
OneFixPath ==
  \A c \in Cases : /\ \A p, q \in FixPath(c) : p = q
                   /\ Paths(c) # {} => FixPath(c) # {}

LEMMA OneFixPathInv == Inv => OneFixPath
<1> SUFFICES ASSUME Inv, NEW c \in Cases
             PROVE  /\ \A p, q \in FixPath(c) : p = q
                    /\ Paths(c) # {} => FixPath(c) # {}
  BY DEF OneFixPath
<1>1. \A p \in Paths(c) : /\ p = <<p[1], p[2]>> /\ p[1] \in Broke(c) /\ p[2] \in Fixed(c)
                          /\ Before(p[1], p[2]) /\ p[1] \in Built /\ p[2] \in Built
  BY DEF Paths, Broke, Fixed, History
<1>2. ASSUME NEW p \in FixPath(c), NEW q \in FixPath(c) PROVE p = q
  <2>1. p \in Paths(c) /\ q \in Paths(c)
    BY DEF FixPath
  <2>2. p[2] = q[2]
    BY <1>1, <2>1, BeforeIsTotal DEF FixPath
  <2>3. ~ Before(p[1], q[1]) /\ ~ Before(q[1], p[1])
    BY <1>1, <2>1, <2>2 DEF Paths
  <2>4. p[1] = q[1]
    BY <1>1, <2>1, <2>3, BeforeIsTotal
  <2> QED  BY <1>1, <2>1, <2>2, <2>4
<1>3. ASSUME Paths(c) # {} PROVE FixPath(c) # {}
  <2> DEFINE S == {p[2] : p \in Paths(c)}
  <2>1. S \in SUBSET Built /\ S # {}
    BY <1>1, <1>3
  <2> HIDE DEF S
  <2>2. PICK b \in S : Newest(S) = {b}
    BY <2>1, NewestIsOne
  <2>3. PICK p \in Paths(c) : b = p[2]
    BY DEF S
  <2>4. ASSUME NEW q \in Paths(c) PROVE ~ Before(p[2], q[2])
    <3>1. q[2] \in S
      BY DEF S
    <3>2. q[2] = b \/ Before(q[2], b)
      BY <2>2, <3>1 DEF Newest
    <3> QED  BY <1>1, <2>3, <3>2, BeforeIsTotal
  <2> QED  BY <2>4 DEF FixPath
<1> QED  BY <1>2, <1>3

\* known_fix_path answers every agent the same, and answers.
THEOREM OneFixPathHolds == Spec => []OneFixPath
BY OneFixPathInv, InvAlways, PTL

\* Adding at most one result, after all the others, to the history of c keeps each of
\* its transitions where it was, and adds at most one, at the end.
LEMMA AppendKeepsTransitions ==
  ASSUME Inv, Inv', NEW c \in Cases, NEW n,
         History(c) \subseteq History(c)', History(c)' \subseteq History(c) \cup {n},
         \A b \in History(c) : /\ latest'[b][c] = latest[b][c]
                               /\ builds'[b].created = builds[b].created
                               /\ builds'[b].id = builds[b].id,
         \A b \in History(c), x \in History(c)' \ History(c) : Before(b, x)'
  PROVE  /\ \A x, y \in History(c)' : ~ (Before(x, y)' /\ Before(y, x)')
         /\ \A x, y \in History(c) : Before(x, y)' <=> Before(x, y)
         /\ Broke(c) = Broke(c)' \cap History(c)
         /\ Fixed(c) = Fixed(c)' \cap History(c)
         /\ Broke(c)' \cup Fixed(c)' \subseteq History(c)'
<1>1. \A x \in History(c)' : builds'[x].created \in Nat /\ builds'[x].id \in Nat
  BY LineageAssumption DEF Inv, TypeOK, Built, Build, History
<1>2. \A x, y \in History(c)' : ~ (Before(x, y)' /\ Before(y, x)')
  BY <1>1 DEF Before
<1>3. \A x, y \in History(c) : Before(x, y)' <=> Before(x, y)
  BY DEF Before
<1>4. ASSUME NEW b \in History(c)
      PROVE  /\ Previous(c, b)' = Previous(c, b)
             /\ Previous(c, b) \subseteq History(c)
  <2>1. {x \in History(c)' : Before(x, b)'} = {x \in History(c) : Before(x, b)}
    BY <1>2, <1>3, <1>4
  <2>2. {x \in {z \in History(c) : Before(z, b)} :
           \A y \in {z \in History(c) : Before(z, b)} \ {x} : Before(y, x)'}
          = Newest({z \in History(c) : Before(z, b)})
    BY <1>3 DEF Newest
  <2> QED  BY <2>1, <2>2 DEF Previous, Newest
<1>5. Broke(c) = Broke(c)' \cap History(c)
  BY <1>4 DEF Broke
<1>6. Fixed(c) = Fixed(c)' \cap History(c)
  BY <1>4 DEF Fixed
<1> QED  BY <1>2, <1>3, <1>5, <1>6 DEF Broke, Fixed

\* So a completed path stays one, and only a path that ends in the new result can take
\* its place as the most recent.
LEMMA AppendKeepsFixPath ==
  ASSUME Inv, Inv', NEW c \in Cases, NEW n,
         History(c) \subseteq History(c)', History(c)' \subseteq History(c) \cup {n},
         \A b \in History(c) : /\ latest'[b][c] = latest[b][c]
                               /\ builds'[b].created = builds[b].created
                               /\ builds'[b].id = builds[b].id,
         \A b \in History(c), x \in History(c)' \ History(c) : Before(b, x)',
         NEW p \in FixPath(c)
  PROVE  \E q \in FixPath(c)' : p = q \/ Before(p[2], q[2])'
<1>1. /\ \A x, y \in History(c)' : ~ (Before(x, y)' /\ Before(y, x)')
      /\ \A x, y \in History(c) : Before(x, y)' <=> Before(x, y)
      /\ Broke(c) = Broke(c)' \cap History(c)
      /\ Fixed(c) = Fixed(c)' \cap History(c)
      /\ Broke(c)' \cup Fixed(c)' \subseteq History(c)'
  BY AppendKeepsTransitions
<1>2. Broke(c) \cup Fixed(c) \subseteq History(c)
  BY DEF Broke, Fixed
<1>3. p \in Broke(c) \X Fixed(c) /\ Before(p[1], p[2])
  BY DEF FixPath, Paths
<1>4. p \in Paths(c)'
  <2>1. p \in Broke(c)' \X Fixed(c)' /\ Before(p[1], p[2])'
    BY <1>1, <1>2, <1>3
  <2>2. ASSUME NEW z \in Broke(c)' \cup Fixed(c)'
        PROVE  ~ (Before(p[1], z)' /\ Before(z, p[2])')
    <3>1. CASE z \in History(c)
      BY <1>1, <1>2, <1>3, <3>1 DEF FixPath, Paths
    <3>2. CASE z \notin History(c)
      <4>1. Before(p[2], z)' /\ p[2] \in History(c)' /\ z \in History(c)'
        BY <1>1, <1>2, <1>3, <3>2
      <4> QED  BY <1>1, <4>1
    <3> QED  BY <3>1, <3>2
  <2> QED  BY <2>1, <2>2 DEF Paths
<1>5. ASSUME NEW q \in Paths(c)'
      PROVE  /\ q[1] \in History(c)' /\ q[2] \in History(c)' /\ Before(q[1], q[2])'
             /\ q[2] \in History(c) => q \in Paths(c)
  <2>1. q \in Broke(c)' \X Fixed(c)' /\ Before(q[1], q[2])'
    BY <1>5 DEF Paths
  <2>2. q[1] \in History(c)' /\ q[2] \in History(c)'
    BY <1>1, <2>1
  <2>3. ASSUME q[2] \in History(c) PROVE q \in Paths(c)
    <3>1. q[1] \in History(c)
      <4>1. CASE q[1] \notin History(c)
        <5>1. Before(q[2], q[1])'
          BY <2>2, <2>3, <4>1
        <5> QED  BY <1>1, <2>1, <2>2, <5>1
      <4> QED  BY <4>1
    <3>2. q \in Broke(c) \X Fixed(c) /\ Before(q[1], q[2])
      BY <1>1, <2>1, <2>3, <3>1
    <3>3. \A z \in Broke(c) \cup Fixed(c) : ~ (Before(q[1], z) /\ Before(z, q[2]))
      BY <1>1, <1>2, <1>5, <2>3, <3>1 DEF Paths
    <3> QED  BY <3>2, <3>3 DEF Paths
  <2> QED  BY <2>1, <2>2, <2>3
<1>6. p[2] \in History(c) /\ p[2] \in History(c)'
  BY <1>2, <1>3
<1>7. CASE \E q \in Paths(c)' : q[2] \notin History(c)
  <2>1. PICK q \in Paths(c)' : q[2] \notin History(c)
    BY <1>7
  <2>2. q[2] = n /\ q[2] \in History(c)'
    BY <1>5, <2>1
  <2>3. \A r \in Paths(c)' : ~ Before(q[2], r[2])'
    <3> TAKE r \in Paths(c)'
    <3>1. r[2] \in History(c)'
      BY <1>5
    <3>2. CASE r[2] \in History(c)
      <4>1. Before(r[2], q[2])'
        BY <2>1, <2>2, <3>2
      <4> QED  BY <1>1, <2>2, <3>1, <4>1
    <3>3. CASE r[2] \notin History(c)
      BY <1>1, <2>2, <3>1, <3>3
    <3> QED  BY <3>2, <3>3
  <2>4. q \in FixPath(c)'
    BY <2>3 DEF FixPath
  <2>5. Before(p[2], q[2])'
    BY <1>6, <2>1, <2>2
  <2> QED  BY <2>4, <2>5
<1>8. CASE \A q \in Paths(c)' : q[2] \in History(c)
  <2>1. \A q \in Paths(c)' : ~ Before(p[2], q[2])'
    BY <1>1, <1>5, <1>6, <1>8 DEF FixPath
  <2> QED  BY <1>4, <2>1 DEF FixPath
<1> QED  BY <1>7, <1>8

\* A break somewhere before a fix makes a path: the last break before the earliest such fix.
BreakBeforeFix(c) == \E z \in Broke(c), g \in Fixed(c) : Before(z, g)

PathRule == \A c \in Cases : BreakBeforeFix(c) => FixPath(c) # {}

LEMMA PathIsThere == Inv => PathRule
<1> SUFFICES ASSUME Inv, NEW c \in Cases, BreakBeforeFix(c) PROVE FixPath(c) # {}
  BY DEF PathRule
<1> DEFINE G == {g \in Fixed(c) : \E z \in Broke(c) : Before(z, g)}
<1>1. Broke(c) \subseteq Built /\ Fixed(c) \subseteq Built
  BY DEF Broke, Fixed, History
<1>2. G \in SUBSET Built /\ G # {}
  BY <1>1 DEF BreakBeforeFix
<1>3. PICK g \in G : \A x \in G \ {g} : Before(g, x)
  <2> HIDE DEF G
  <2> QED  BY <1>2, OldestIsThere
<1> DEFINE Z == {z \in Broke(c) : Before(z, g)}
<1>4. Z \in SUBSET Built /\ Z # {}
  BY <1>1
<1>5. PICK z \in Z : Newest(Z) = {z}
  <2> HIDE DEF Z
  <2> QED  BY <1>4, NewestIsOne
<1>6. ASSUME NEW y \in Broke(c) \cup Fixed(c), Before(z, y), Before(y, g) PROVE FALSE
  <2>1. y \in Built /\ z \in Built /\ g \in Built
    BY <1>1
  <2>2. CASE y \in Broke(c)
    <3>1. y \in Z
      BY <1>6, <2>2
    <3>2. y = z \/ Before(y, z)
      BY <1>5, <3>1 DEF Newest
    <3> QED  BY <1>6, <2>1, <3>2, BeforeIsTotal
  <2>3. CASE y \in Fixed(c)
    <3>1. y \in G
      BY <1>6, <2>3
    <3>2. y = g \/ Before(g, y)
      BY <1>3, <3>1
    <3> QED  BY <1>6, <2>1, <3>2, BeforeIsTotal
  <2> QED  BY <2>2, <2>3
<1>7. <<z, g>> \in Paths(c)
  BY <1>6 DEF Paths
<1> QED  BY <1>7, OneFixPathInv DEF OneFixPath

LEMMA PathIsThereNext == Inv' => PathRule'
BY PathIsThere, PTL

\* A result added to the history of c comes between a result and the one before it, or leaves
\* these next to each other.
LEMMA InsertKeepsNeighbours ==
  ASSUME Inv, Inv', NEW c \in Cases, NEW n, n \notin History(c), History(c)' = History(c) \cup {n},
         \A b \in History(c) : /\ latest'[b][c] = latest[b][c]
                               /\ builds'[b].created = builds[b].created
                               /\ builds'[b].id = builds[b].id,
         NEW x \in History(c), NEW a \in Previous(c, x)
  PROVE  /\ a \in History(c) /\ Before(a, x)'
         /\ \/ a \in Previous(c, x)'
            \/ n \in Previous(c, x)' /\ a \in Previous(c, n)'
<1>1. Total' /\ History(c)' \subseteq Built'
  BY InvTotalNext DEF History
<1>2. \A y, z \in History(c) : Before(y, z)' <=> Before(y, z)
  BY DEF Before
<1>3. /\ a \in History(c) /\ Before(a, x)
      /\ \A y \in History(c) : Before(y, x) => y = a \/ Before(y, a)
  BY DEF Previous, Newest
<1>4. /\ a \in History(c)' /\ x \in History(c)' /\ n \in History(c)' /\ Before(a, x)'
      /\ \A y \in History(c) : Before(y, x)' => y = a \/ Before(y, a)'
  BY <1>2, <1>3
<1>5. \A w, v \in History(c)' :
         /\ Before(w, v)'
         /\ \A y \in History(c)' : Before(y, v)' => y = w \/ Before(y, w)'
         => w \in Previous(c, v)'
  BY DEF Previous, Newest
<1>6. CASE Before(a, n)' /\ Before(n, x)'
  <2>1. \A y \in History(c)' : Before(y, x)' => y = n \/ Before(y, n)'
    BY <1>1, <1>4, <1>6 DEF Total
  <2>2. \A y \in History(c)' : Before(y, n)' => y = a \/ Before(y, a)'
    BY <1>1, <1>4, <1>6 DEF Total
  <2>3. n \in Previous(c, x)'
    BY <1>4, <1>5, <1>6, <2>1
  <2>4. a \in Previous(c, n)'
    BY <1>4, <1>5, <1>6, <2>2
  <2> QED  BY <1>3, <1>4, <2>3, <2>4
<1>7. CASE ~ (Before(a, n)' /\ Before(n, x)')
  <2>1. \A y \in History(c)' : Before(y, x)' => y = a \/ Before(y, a)'
    BY <1>1, <1>4, <1>7 DEF Total
  <2>2. a \in Previous(c, x)'
    BY <1>4, <1>5, <2>1
  <2> QED  BY <1>3, <1>4, <2>2
<1> QED  BY <1>6, <1>7

\* Wherever a result that is decided comes to stand, a break and a fix after it stay there,
\* or it takes the place of one of them.
LEMMA InsertKeepsAPath ==
  ASSUME Inv, Inv', NEW c \in Cases, NEW n, n \notin History(c), History(c)' = History(c) \cup {n},
         \A b \in History(c) : /\ latest'[b][c] = latest[b][c]
                               /\ builds'[b].created = builds[b].created
                               /\ builds'[b].id = builds[b].id,
         latest'[n][c] \in Red \cup {"pass"}, NEW p \in Paths(c)
  PROVE  FixPath(c)' # {}
<1>1. p[1] \in Broke(c) /\ p[2] \in Fixed(c) /\ Before(p[1], p[2])
  BY DEF Paths
<1>2. PICK a \in Previous(c, p[1]) : latest[a][c] = "pass"
  BY <1>1 DEF Broke
<1>3. PICK d \in Previous(c, p[2]) : latest[d][c] \in Red
  BY <1>1 DEF Fixed
<1>4. p[1] \in History(c) /\ p[2] \in History(c) /\ latest[p[1]][c] \in Red /\ latest[p[2]][c] = "pass"
  BY <1>1 DEF Broke, Fixed
<1>5. Total' /\ History(c)' \subseteq Built'
  BY InvTotalNext DEF History
<1>6. /\ a \in History(c)
      /\ a \in Previous(c, p[1])' \/ (n \in Previous(c, p[1])' /\ a \in Previous(c, n)')
  BY <1>2, <1>4, InsertKeepsNeighbours
<1>7. /\ d \in History(c)
      /\ d \in Previous(c, p[2])' \/ (n \in Previous(c, p[2])' /\ d \in Previous(c, n)')
  BY <1>3, <1>4, InsertKeepsNeighbours
<1>8. Before(p[1], p[2])'
  BY <1>1, <1>4 DEF Before
<1>9. /\ latest'[p[1]][c] \in Red /\ latest'[p[2]][c] = "pass"
      /\ latest'[a][c] = "pass" /\ latest'[d][c] \in Red
  BY <1>2, <1>3, <1>4, <1>6, <1>7
<1>10. \A x, y : x \in Previous(c, y)' => x \in History(c)' /\ Before(x, y)'
  BY DEF Previous, Newest
<1>11. "pass" \notin Red
  BY DEF Red
<1>12. \/ p[1] \in Broke(c)'
       \/ n \in Broke(c)' /\ n \in Previous(c, p[1])' /\ latest'[n][c] \in Red
  BY <1>4, <1>6, <1>9 DEF Broke
<1>13. \/ p[2] \in Fixed(c)'
       \/ n \in Fixed(c)' /\ d \in Previous(c, n)' /\ latest'[n][c] = "pass"
  BY <1>4, <1>7, <1>9 DEF Fixed
<1>14. BreakBeforeFix(c)'
  <2>1. CASE p[1] \in Broke(c)' /\ p[2] \in Fixed(c)'
    BY <1>8, <2>1 DEF BreakBeforeFix
  <2>2. CASE n \in Broke(c)' /\ n \in Previous(c, p[1])' /\ p[2] \in Fixed(c)'
    <3>1. Before(n, p[2])'
      BY <1>4, <1>5, <1>8, <1>10, <2>2 DEF Total
    <3> QED  BY <2>2, <3>1 DEF BreakBeforeFix
  <2>3. CASE p[1] \in Broke(c)' /\ n \in Fixed(c)' /\ d \in Previous(c, n)'
    <3>1. p[1] = d \/ Before(p[1], d)
      BY <1>1, <1>3, <1>4 DEF Previous, Newest
    <3>2. p[1] = d \/ Before(p[1], d)'
      BY <1>4, <1>7, <3>1 DEF Before
    <3>3. Before(p[1], n)'
      BY <1>4, <1>5, <1>7, <1>10, <2>3, <3>2 DEF Total
    <3> QED  BY <2>3, <3>3 DEF BreakBeforeFix
  <2> QED  BY <1>11, <1>12, <1>13, <2>1, <2>2, <2>3
<1> QED  BY <1>14, PathIsThereNext DEF PathRule

\* What a result that is added leaves of the answer that was found for a case: a newer one
\* all of it or a better one, an earlier one some answer unless it is unfinished.
THEOREM FixPathPersistsHolds == Spec => FixPathPersists
<1> DEFINE Append(c) == \A b \in History(c), n \in History(c)' \ History(c) : Before(b, n)'
           Decided(c) == \A n \in History(c)' \ History(c) : latest'[n][c] \in Red \cup {"pass"}
           Step == \A c \in Cases :
       /\ latest' # latest
       /\ \A b \in History(c) : latest'[b][c] = latest[b][c]
       => /\ Append(c) => \A p \in FixPath(c) : \E q \in FixPath(c)' : p = q \/ Before(p[2], q[2])'
          /\ Decided(c) => (FixPath(c) # {} => FixPath(c)' # {})
<1>1. Inv /\ [Next]_vars => Step
  <2> SUFFICES ASSUME Inv, [Next]_vars, NEW c \in Cases, latest' # latest,
                      \A b \in History(c) : latest'[b][c] = latest[b][c],
                      NEW p \in FixPath(c)
               PROVE  /\ Append(c) => \E q \in FixPath(c)' : p = q \/ Before(p[2], q[2])'
                      /\ Decided(c) => FixPath(c)' # {}
    OBVIOUS
  <2>1. Inv'
    BY NextInv
  <2>2. PICK n \in Keys, m \in Metas, r \in Reports : RecordExecution(n, m, r[1], r[2])
    BY DEF Next, vars, CreateBuild, AddCase, RemoveCase, SetQuarantine, ServeGuard, Tick
  <2>3. /\ m \in Metadata /\ r[1] \in Cases /\ Upsert(n, m)
        /\ latest' = [latest EXCEPT ![n][r[1]] = r[2]]
    BY <2>2, LineageAssumption DEF RecordExecution
  <2>4. Built' = Built \cup {n}
    BY <2>3, UpsertBuilt
  <2>5. History(c) \subseteq History(c)'
    BY <2>4 DEF History
  <2>6. History(c)' \subseteq History(c) \cup {n}
    BY <2>3, <2>4 DEF History, Built, Inv, TypeOK
  <2>7. \A b \in History(c) : /\ builds'[b].created = builds[b].created
                              /\ builds'[b].id = builds[b].id
    BY <2>3, UpsertFrame DEF History, Built
  <2>8. ASSUME Append(c) PROVE \E q \in FixPath(c)' : p = q \/ Before(p[2], q[2])'
    BY <2>1, <2>5, <2>6, <2>7, <2>8, AppendKeepsFixPath
  <2>9. ASSUME Decided(c) PROVE FixPath(c)' # {}
    <3>1. CASE History(c)' = History(c)
      BY <2>8, <3>1
    <3>2. CASE History(c)' # History(c)
      <4>1. n \notin History(c) /\ History(c)' = History(c) \cup {n}
        BY <2>5, <2>6, <3>2
      <4>2. latest'[n][c] \in Red \cup {"pass"} /\ p \in Paths(c)
        BY <2>9, <4>1 DEF FixPath
      <4> QED  BY <2>1, <2>7, <4>1, <4>2, InsertKeepsAPath
    <3> QED  BY <3>1, <3>2
  <2> QED  BY <2>8, <2>9
<1>2. FixPathPersists <=> [][Step]_vars
  BY DEF FixPathPersists
<1> QED  BY <1>1, <1>2, InvAlways, PTL DEF Spec

-----------------------------------------------------------------------------
(***************************************************************************)
(* The rate shown                                                          *)
(***************************************************************************)

\* What falls short of something does not round up to all of it, up to 200.
LEMMA ShortIsNotFull ==
  ASSUME NEW n \in Nat, NEW d \in Nat \ {0}
  PROVE  /\ d < 200 /\ Percent(n, d) >= 100 => d <= n
         /\ Percent(n, d) > 100 => d < n
<1> DEFINE q == (100 * n) \div d
           r == (100 * n) % d
<1>1. /\ q \in Int /\ r \in 0..(d - 1)
      /\ 100 * n = q * d + r
  OBVIOUS
<1>2. Percent(n, d) = IF 2 * r < d \/ (2 * r = d /\ q % 2 = 0) THEN q ELSE q + 1
  BY Zenon DEF Percent
<1> HIDE DEF q, r
<1>3. ASSUME q <= 98 PROVE ~ (Percent(n, d) >= 100)
  BY <1>1, <1>2, <1>3
<1>4. ASSUME q = 99 PROVE /\ ~ (Percent(n, d) > 100)
                          /\ Percent(n, d) >= 100 => d <= n \/ d >= 200
  <2>1. 100 * n = 99 * d + r
    BY <1>1, <1>4
  <2> QED  BY <1>1, <1>2, <1>4, <2>1
<1>5. ASSUME q = 100 PROVE d <= n /\ (Percent(n, d) > 100 => d < n)
  <2>1. 100 * n = 100 * d + r
    BY <1>1, <1>5
  <2> QED  BY <1>1, <1>2, <1>5, <2>1
<1>6. ASSUME q >= 101 PROVE d < n
  <2>1. q * d >= 101 * d
    BY <1>1, <1>6
  <2> QED  BY <1>1, <2>1
<1>7. q <= 98 \/ q = 99 \/ q = 100 \/ q >= 101
  BY <1>1
<1>8. d < 200 /\ Percent(n, d) >= 100 => d <= n
  <2>1. d <= n \/ d > n
    OBVIOUS
  <2> QED  BY <1>3, <1>4, <1>5, <1>6, <1>7, <2>1
<1>9. Percent(n, d) > 100 => d < n
  <2>1. CASE q <= 98
    <3>1. Percent(n, d) = q \/ Percent(n, d) = q + 1
      BY <1>2
    <3> QED  BY <1>1, <2>1, <3>1
  <2> QED  BY <1>4, <1>5, <1>6, <1>7, <2>1
<1> QED  BY <1>8, <1>9

\* What two sets have in common counts for both.
LEMMA CompareDifferences ==
  ASSUME NEW S, NEW T, IsFiniteSet(S), IsFiniteSet(T)
  PROVE  /\ Cardinality(S) \in Nat /\ Cardinality(T) \in Nat
         /\ Cardinality(S \ T) \in Nat /\ Cardinality(T \ S) \in Nat
         /\ Cardinality(S) - Cardinality(T) = Cardinality(S \ T) - Cardinality(T \ S)
<1>1. /\ IsFiniteSet(S \ T) /\ Cardinality(S \ T) = Cardinality(S) - Cardinality(S \cap T)
      /\ IsFiniteSet(T \ S) /\ Cardinality(T \ S) = Cardinality(T) - Cardinality(S \cap T)
  <2>1. S \cap T = T \cap S
    OBVIOUS
  <2> QED  BY <2>1, FS_Difference
<1>2. IsFiniteSet(S \cap T)
  BY FS_Subset
<1>3. /\ Cardinality(S) \in Nat /\ Cardinality(T) \in Nat /\ Cardinality(S \cap T) \in Nat
      /\ Cardinality(S \ T) \in Nat /\ Cardinality(T \ S) \in Nat
  BY <1>1, <1>2, FS_CardinalityType
<1> QED  BY <1>1, <1>2, <1>3

\* Whatever ran and did not, in the plan or not, what is missing of the plan is missing from
\* the rate (build_rollup): as many passes come from outside the plan as it hides.
THEOREM RateCountsSkippedHolds == Spec => []RateCountsSkipped
<1>1. ASSUME NEW b \in Built
      PROVE  LET P == PlanCases(PlanOf(b))
                 W == With(b, "pass")
             IN  /\ P # {} /\ Cardinality(P) < 200 /\ PassRate(b) >= 100
                      => Cardinality(P \ W) <= Cardinality(W \ P)
                 /\ PassRate(b) > 100 => Cardinality(P \ W) < Cardinality(W \ P)
  <2> DEFINE P == PlanCases(PlanOf(b))
             W == With(b, "pass")
  <2>1. P \subseteq Cases /\ W \subseteq Cases
    BY DEF PlanCases, With
  <2>2. PassRate(b) = IF P = {} THEN 0 ELSE Percent(Cardinality(W), Cardinality(P))
    BY Zenon DEF PassRate
  <2> HIDE DEF P, W
  <2>3. IsFiniteSet(P) /\ IsFiniteSet(W)
    BY <2>1, LineageAssumption, FS_Subset
  <2>4. /\ Cardinality(W) \in Nat /\ Cardinality(P) \in Nat
        /\ Cardinality(W \ P) \in Nat /\ Cardinality(P \ W) \in Nat
        /\ Cardinality(W) - Cardinality(P) = Cardinality(W \ P) - Cardinality(P \ W)
    BY <2>3, CompareDifferences
  <2>5. P # {} => Cardinality(P) # 0
    BY <2>3, FS_EmptySet
  <2>6. ASSUME P # {}
        PROVE  /\ Cardinality(P) < 200 /\ PassRate(b) >= 100 => Cardinality(P) <= Cardinality(W)
               /\ PassRate(b) > 100 => Cardinality(P) < Cardinality(W)
    BY <2>2, <2>4, <2>5, <2>6, ShortIsNotFull
  <2>7. P = {} => ~ (PassRate(b) > 100)
    BY <2>2
  <2> QED  BY <2>4, <2>6, <2>7 DEF P, W
<1>2. RateCountsSkipped
  BY <1>1, Zenon DEF RateCountsSkipped
<1> QED  BY <1>2, PTL

-----------------------------------------------------------------------------
(***************************************************************************)
(* Answers are determined: the order of builds is total, so a branch with  *)
(* builds in the window has one head, a case one known fix path, and, the  *)
(* merge base apart, a build one baseline and a branch one verdict.        *)
(***************************************************************************)

\* There is always an outcome of the comparison with a baseline.
LEMMA AgainstIsThere == \A b : Against("regression", b) # {}
BY DEF Against

\* Two outcomes need two builds at the merge base that differ on a case that is red.
LEMMA TwoOutcomesDiffer ==
  ASSUME Inv, NEW b \in Built, NEW S \in Against("regression", b),
         NEW T \in Against("regression", b), Counted(S) # {}, Counted(T) = {}
  PROVE  \E c \in Cases \ quarantined : \E x, y \in Pinned(b) :
           latest[b][c] \in Red /\ latest[x][c] = "pass" /\ latest[y][c] # "pass"
<1>1. PICK c \in S \ quarantined : c \notin T
  BY DEF Counted
<1>2. Baselines(b) # {}
  BY <1>1 DEF Against
<1>3. PICK x \in Baselines(b) : S = Class("regression", b, x)
  BY <1>2 DEF Against
<1>4. PICK y \in Baselines(b) : T = Class("regression", b, y)
  BY <1>2 DEF Against
<1>5. Eligible(b) \in SUBSET Built
  BY DEF Eligible, Candidates
<1>6. x # y
  BY <1>1, <1>3, <1>4
<1>7. Baselines(b) = Pinned(b)
  <2>1. \A u, v \in Newest(Eligible(b)) : u = v
    BY <1>5, BeforeIsTotal DEF Newest
  <2> QED  BY <1>6, <2>1 DEF Baselines
<1>8. /\ c \in Cases /\ c \in Executed(b) \cup Executed(x)
      /\ Classify(latest[x][c], latest[b][c]) = "regression"
  BY <1>1, <1>3 DEF Class, Executed
<1>9. latest[x][c] = "pass" /\ latest[b][c] \in Red
  BY <1>8 DEF Classify
<1>10. latest[b][c] # None /\ latest[b][c] # "pass" /\ "pass" # None
  BY <1>9, LineageAssumption DEF Red, Statuses
<1>11. latest[y][c] # "pass"
  <2>1. ASSUME latest[y][c] = "pass" PROVE c \in T
    <3>1. Classify(latest[y][c], latest[b][c]) = "regression"
      BY <1>9, <1>10, <2>1 DEF Classify, Red
    <3> QED  BY <1>4, <1>8, <1>10, <3>1 DEF Class, Executed
  <2> QED  BY <1>1, <2>1, Zenon
<1> QED  BY <1>1, <1>7, <1>8, <1>9, <1>11

\* branch_status lists a branch exactly when it has a build in the window, and has one verdict
\* for it unless a build at its head has two baselines that differ.
THEOREM VerdictsAreDecidedHolds == Spec => []VerdictsAreDecided
<1>1. Inv => VerdictsAreDecided
  <2> SUFFICES ASSUME Inv, NEW br \in Branches \ {Default}
               PROVE  /\ Verdicts(br) # {} <=> Active(br) # {}
                      /\ {"BLOCKED", "READY"} \subseteq Verdicts(br) =>
                           \E b \in AtHead(br), c \in Cases \ quarantined : \E x, y \in Pinned(b) :
                             latest[b][c] \in Red /\ latest[x][c] = "pass" /\ latest[y][c] # "pass"
    BY DEF VerdictsAreDecided
  <2> DEFINE may == \E b \in AtHead(br) : \E S \in Against("regression", b) : Counted(S) # {}
             can == \A b \in AtHead(br) : \E S \in Against("regression", b) : Counted(S) = {}
  <2>1. AtHead(br) \subseteq Active(br) /\ AtHead(br) \subseteq Built
    BY DEF AtHead, Active
  <2>2. "BLOCKED" \in Verdicts(br) <=> may
    BY DEF Verdicts
  <2>3. "READY" \in Verdicts(br) <=> Active(br) # {} /\ can
    BY DEF Verdicts
  <2>4. Verdicts(br) \subseteq {"BLOCKED", "READY"}
    BY DEF Verdicts
  <2>5. ~ may => can
    BY <2>1, AgainstIsThere
  <2>6. may => Active(br) # {}
    BY <2>1
  <2>7. ASSUME may, can
        PROVE  \E b \in AtHead(br), c \in Cases \ quarantined : \E x, y \in Pinned(b) :
                 latest[b][c] \in Red /\ latest[x][c] = "pass" /\ latest[y][c] # "pass"
    <3>1. PICK b \in AtHead(br) : \E S \in Against("regression", b) : Counted(S) # {}
      BY <2>7
    <3>2. PICK S \in Against("regression", b) : Counted(S) # {}
      BY <3>1
    <3>3. PICK T \in Against("regression", b) : Counted(T) = {}
      BY <2>7
    <3>4. b \in Built
      BY <2>1
    <3> QED  BY <3>2, <3>3, <3>4, TwoOutcomesDiffer
  <2> HIDE DEF may, can
  <2> QED  BY <2>2, <2>3, <2>4, <2>5, <2>6, <2>7
<1> QED  BY <1>1, InvAlways, PTL

\* All builds of the branch at its head commit are recent enough to be looked at.
HeadInWindow(br) ==
  \A h \in Newest(Active(br)), b \in Built :
    builds[b].branch = br /\ builds[b].commit = builds[h].commit => b \in Active(br)

\* A branch that is active has one head.
ActiveHasHead == \A br \in Branches : Active(br) # {} => \E h \in Built : Newest(Active(br)) = {h}

WindowedPlansBlock == (\A br \in Branches \ {Default} : HeadInWindow(br)) => AnyPlanBlocks

\* The requirement REQ-BRANCH-2, which does not hold as it stands, fails for one reason: a
\* build at the head commit that has left the window.  While none has, any plan that
\* regresses at the head commit blocks the branch, and a branch that is active has a head
\* to judge.
THEOREM OnlyTheWindowHides == Spec => [](ActiveHasHead /\ WindowedPlansBlock)
<1>1. Inv => ActiveHasHead
  <2>1. \A br : Active(br) \in SUBSET Built
    BY DEF Active
  <2> QED  BY <2>1, NewestIsOne DEF ActiveHasHead
<1>2. Inv => WindowedPlansBlock
  <2> SUFFICES ASSUME Inv, NEW br \in Branches \ {Default}, HeadInWindow(br),
                      NEW h \in Newest(Active(br)), NEW b \in Built,
                      builds[b].branch = br, builds[b].commit = builds[h].commit,
                      \A S \in Against("regression", b) : Counted(S) # {}
               PROVE  Verdicts(br) = {"BLOCKED"}
    BY DEF WindowedPlansBlock, AnyPlanBlocks
  <2>1. b \in AtHead(br)
    BY DEF HeadInWindow, AtHead
  <2>2. \E S \in Against("regression", b) : Counted(S) # {}
    BY AgainstIsThere
  <2>3. ~ \E S \in Against("regression", b) : Counted(S) = {}
    OBVIOUS
  <2> QED  BY <2>1, <2>2, <2>3 DEF Verdicts
<1> QED  BY <1>1, <1>2, InvAlways, PTL

=============================================================================
