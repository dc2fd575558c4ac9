---------------------------- MODULE CatalogProofs ----------------------------
(***************************************************************************)
(* Authoring implements Catalog: for any authors, requests, projects and   *)
(* bounds, every step of a request does one thing Catalog allows, or       *)
(* nothing that anyone else can see.                                       *)
(***************************************************************************)
EXTENDS AuthoringProofs

-----------------------------------------------------------------------------
(***************************************************************************)
(* What a request carries to its commit                                    *)
(***************************************************************************)

\* The suites of the chain bear the first n names of the path, from the root down.
Trail(chain, p, path, n) ==
  /\ chain[1].parent = None
  /\ \A k \in 1..n : chain[k].project = p /\ chain[k].name = path[k]
  /\ \A k \in 2..n : chain[k].parent = chain[k - 1].id

\* A trail to suite i that has every suite of own on it.
Covers(ss, own, p, i, path, n) ==
  \E chain \in [1..n -> ss \cup own] :
    /\ Trail(chain, p, path, n)
    /\ chain[n].id = i
    /\ \A s \in own : \E k \in 1..n : chain[k] = s

\* What a request has inserted lies on the path it has resolved.
Laid(r) ==
  pc[r] = "resolve" =>
    IF depth[r] = 0
    THEN mine[r] = {}
    ELSE Covers(suites, mine[r], req[r].project, at[r], req[r].path, depth[r])

\* A request files nothing before its cases, a case in the suite it names, and no item that
\* is malformed.
Poised(r) ==
  /\ pc[r] \in {"found", "insert", "load", "write"} => filed[r] = 0
  /\ req[r].kind = "case" /\ pc[r] \in {"number", "flush", "commit"}
       => at[r] = req[r].parent /\ filed[r] = 0
  /\ pc[r] \in {"flush", "commit"} => filed[r] + 1 # req[r].bad

CatalogInv == \A r \in Authors : Laid(r) /\ Poised(r)

LEMMA CatalogInvInit == Init => CatalogInv
BY DEF Init, CatalogInv, Laid, Poised

\* A request that commits no case is poised for its next step by the one before it.
LEMMA PoisedStep ==
  ASSUME TypeInv, CatalogInv, NEW r \in Authors, Step(r)
  PROVE  Poised(r)'
<1>0. /\ pc \in [Authors -> {"idle"} \cup Working \cup Final] /\ req[r].kind \in Kinds
      /\ at \in [Authors -> Nat \cup {None}] /\ filed \in [Authors -> Nat]
      /\ req[r].items \in Nat /\ (req[r].kind = "case" => req[r].items = 1)
      /\ Placed(r) /\ Holds(r) /\ Poised(r) /\ req' = req
  BY RequestFacts, RequestStays DEF TypeInv, TypeOK, CatalogInv
<1>a. pc[r] = "resolve" => req[r].kind = "path"
  BY <1>0 DEF Placed, PlacesOf, Kinds, Final
<1> USE <1>0 DEF Rollback, Close, Goto, Entry, Kinds, Placed, PlacesOf, Final, Holds, Poised,
                 db, session, client
<1>1. CASE Begin(r)
  BY <1>1 DEF Begin
<1>2. CASE FindPrefix(r)
  BY <1>2 DEF FindPrefix
<1>3. CASE CreateProject(r)
  BY <1>3 DEF CreateProject
<1>4. CASE LosePrefix(r)
  BY <1>4 DEF LosePrefix
<1>5. CASE CreateSuite(r)
  BY <1>5 DEF CreateSuite
<1>6. CASE Descend(r)
  BY <1>6 DEF Descend
<1>7. CASE InsertPart(r)
  BY <1>7 DEF InsertPart
<1>8. CASE Ambiguous(r)
  BY <1>8 DEF Ambiguous
<1>9. CASE CommitPath(r)
  <2>1. pc'[r] \in {"reply", "number"}
    BY <1>9 DEF CommitPath
  <2> QED  BY <1>a, <1>9, <2>1 DEF CommitPath
<1>10. CASE RejectItem(r)
  BY <1>10 DEF RejectItem
<1>11. CASE BuildExternalId(r)
  BY <1>11 DEF BuildExternalId
<1>12. CASE FlushCase(r)
  BY <1>12 DEF FlushCase
<1>13. CASE LoseNumber(r)
  BY <1>13 DEF LoseNumber
<1>14. CASE CommitCase(r)
  BY <1>14 DEF CommitCase, NextItem
<1>15. CASE LoadVersion(r)
  BY <1>15 DEF LoadVersion
<1>16. CASE CreateVersion(r)
  BY <1>16 DEF CreateVersion
<1>17. CASE Reply(r)
  BY <1>17 DEF Reply
<1>18. CASE Crash(r)
  BY <1>18 DEF Crash
<1>19. CASE Retry(r)
  BY <1>19 DEF Retry
<1> QED  BY <1>1, <1>2, <1>3, <1>4, <1>5, <1>6, <1>7, <1>8, <1>9, <1>10, <1>11, <1>12, <1>13,
            <1>14, <1>15, <1>16, <1>17, <1>18, <1>19 DEF Step, Handle, WriteProject, FilePath,
            FileCase, EditCase

\* A trail stays when others commit suites.
LEMMA CoverGrows ==
  ASSUME NEW ss, NEW tt, ss \subseteq tt, NEW own, NEW p, NEW i, NEW path, NEW n,
         Covers(ss, own, p, i, path, n)
  PROVE  Covers(tt, own, p, i, path, n)
<1>1. PICK chain \in [1..n -> ss \cup own] :
        /\ Trail(chain, p, path, n) /\ chain[n].id = i
        /\ \A s \in own : \E k \in 1..n : chain[k] = s
  BY DEF Covers
<1>2. chain \in [1..n -> tt \cup own]
  BY <1>1
<1> QED  BY <1>1, <1>2 DEF Covers

\* A suite at the root is a trail of one.
LEMMA CoverStarts ==
  ASSUME NEW ss, NEW own, NEW p, NEW path, NEW s \in ss \cup own, own \subseteq {s},
         s.project = p, s.parent = None, s.name = path[1]
  PROVE  Covers(ss, own, p, s.id, path, 1)
<1> DEFINE chain == [k \in 1..1 |-> s]
<1>1. chain \in [1..1 -> ss \cup own] /\ chain[1] = s
  OBVIOUS
<1>2. /\ \A k \in 1..1 : chain[k].project = p /\ chain[k].name = path[k]
      /\ \A t \in own : \E k \in 1..1 : chain[k] = t
  BY <1>1
<1> HIDE DEF chain
<1>3. Trail(chain, p, path, 1)
  BY <1>1, <1>2 DEF Trail
<1> QED  BY <1>1, <1>2, <1>3 DEF Covers

\* A suite below the end of a trail makes it longer.
LEMMA CoverExtends ==
  ASSUME NEW ss, NEW own, NEW new, own \subseteq new, NEW p, NEW i, NEW path,
         NEW n \in Nat \ {0}, Covers(ss, own, p, i, path, n),
         NEW s \in ss \cup new, new \subseteq own \cup {s},
         s.project = p, s.parent = i, s.name = path[n + 1]
  PROVE  Covers(ss, new, p, s.id, path, n + 1)
<1>1. PICK chain \in [1..n -> ss \cup own] :
        /\ Trail(chain, p, path, n) /\ chain[n].id = i
        /\ \A t \in own : \E k \in 1..n : chain[k] = t
  BY DEF Covers
<1> DEFINE longer == [k \in 1..(n + 1) |-> IF k \in 1..n THEN chain[k] ELSE s]
<1>2. /\ longer \in [1..(n + 1) -> ss \cup new]
      /\ \A k \in 1..n : longer[k] = chain[k]
      /\ longer[n + 1] = s
  BY <1>1
<1> HIDE DEF longer
<1>3. longer[1].parent = None /\ longer[n + 1].id = s.id
  BY <1>1, <1>2 DEF Trail
<1>4. \A k \in 1..(n + 1) : longer[k].project = p /\ longer[k].name = path[k]
  <2>1. \A k \in 1..(n + 1) : k \in 1..n \/ k = n + 1
    OBVIOUS
  <2> QED  BY <1>1, <1>2, <2>1 DEF Trail
<1>5. ASSUME NEW k \in 2..(n + 1) PROVE longer[k].parent = longer[k - 1].id
  <2>1. CASE k = n + 1
    <3>1. longer[k] = s /\ longer[k - 1] = chain[n]
      BY <1>2, <2>1
    <3> QED  BY <1>1, <3>1
  <2>2. CASE k # n + 1
    <3>1. k \in 2..n /\ k \in 1..n /\ k - 1 \in 1..n
      BY <2>2
    <3>2. longer[k] = chain[k] /\ longer[k - 1] = chain[k - 1]
      BY <1>2, <3>1
    <3> QED  BY <1>1, <3>1, <3>2 DEF Trail
  <2> QED  BY <2>1, <2>2
<1>6. ASSUME NEW t \in new PROVE \E k \in 1..(n + 1) : longer[k] = t
  <2>1. CASE t = s
    BY <1>2, <2>1
  <2>2. CASE t # s
    <3>1. PICK k \in 1..n : chain[k] = t
      BY <1>1, <2>2
    <3> QED  BY <1>2, <3>1
  <2> QED  BY <2>1, <2>2
<1>7. Trail(longer, p, path, n + 1)
  BY <1>3, <1>4, <1>5 DEF Trail
<1> QED  BY <1>2, <1>3, <1>6, <1>7 DEF Covers

\* The part that is found, or inserted, makes the trail longer.
LEMMA CoverLonger ==
  ASSUME TypeInv, CatalogInv, NEW r \in Authors, pc[r] = "resolve",
         NEW new, mine[r] \subseteq new, NEW s \in suites \cup new, new \subseteq mine[r] \cup {s},
         s.project = req[r].project, s.parent = at[r], s.name = req[r].path[depth[r] + 1]
  PROVE  Covers(suites, new, req[r].project, s.id, req[r].path, depth[r] + 1)
<1>1. depth[r] \in Nat /\ Resolved(r) /\ Laid(r)
  BY DEF TypeInv, TypeOK, CatalogInv
<1>2. CASE depth[r] = 0
  <2>1. s.parent = None /\ s.name = req[r].path[1] /\ new \subseteq {s}
    BY <1>1, <1>2 DEF Resolved, Laid
  <2>2. Covers(suites, new, req[r].project, s.id, req[r].path, 1)
    BY <2>1, CoverStarts
  <2> QED  BY <1>2, <2>2
<1>3. CASE depth[r] # 0
  <2>1. Covers(suites, mine[r], req[r].project, at[r], req[r].path, depth[r])
    BY <1>1, <1>3 DEF Laid
  <2>2. depth[r] \in Nat \ {0}
    BY <1>1, <1>3
  <2> QED  BY <2>1, <2>2, CoverExtends
<1> QED  BY <1>2, <1>3

\* Only the two steps that resolve a part stay in the resolution of a path.
LEMMA Resolving ==
  ASSUME TypeInv, NEW r \in Authors, Step(r), ~ Descend(r), ~ InsertPart(r),
         pc'[r] = "resolve"
  PROVE  depth'[r] = 0 /\ mine'[r] = {}
<1>0. /\ pc \in [Authors -> {"idle"} \cup Working \cup Final] /\ req[r].kind \in Kinds
      /\ Holds(r)
  BY RequestFacts DEF TypeInv, TypeOK
<1> USE <1>0 DEF Rollback, Close, Goto, Holds, db, session, client
<1>1. CASE Begin(r)
  BY <1>1 DEF Begin
<1>2. CASE FindPrefix(r)
  BY <1>2 DEF FindPrefix
<1>3. CASE CreateProject(r)
  BY <1>3 DEF CreateProject
<1>4. CASE LosePrefix(r)
  BY <1>4 DEF LosePrefix
<1>5. CASE CreateSuite(r)
  BY <1>5 DEF CreateSuite
<1>8. CASE Ambiguous(r)
  BY <1>8 DEF Ambiguous
<1>9. CASE CommitPath(r)
  BY <1>9 DEF CommitPath
<1>10. CASE RejectItem(r)
  BY <1>10 DEF RejectItem
<1>11. CASE BuildExternalId(r)
  BY <1>11 DEF BuildExternalId
<1>12. CASE FlushCase(r)
  BY <1>12 DEF FlushCase
<1>13. CASE LoseNumber(r)
  BY <1>13 DEF LoseNumber
<1>14. CASE CommitCase(r)
  BY <1>14 DEF CommitCase, NextItem
<1>15. CASE LoadVersion(r)
  BY <1>15 DEF LoadVersion
<1>16. CASE CreateVersion(r)
  BY <1>16 DEF CreateVersion
<1>17. CASE Reply(r)
  BY <1>17 DEF Reply
<1>18. CASE Crash(r)
  BY <1>18 DEF Crash
<1>19. CASE Retry(r)
  BY <1>19 DEF Retry
<1> QED  BY <1>1, <1>2, <1>3, <1>4, <1>5, <1>8, <1>9, <1>10, <1>11, <1>12, <1>13,
            <1>14, <1>15, <1>16, <1>17, <1>18, <1>19 DEF Step, Handle, WriteProject, FilePath,
            FileCase, EditCase

LEMMA LaidStep ==
  ASSUME TypeInv, CatalogInv, NEW r \in Authors, Step(r)
  PROVE  Laid(r)'
<1>0. /\ mine \in [Authors -> SUBSET Suite] /\ depth \in [Authors -> Nat]
      /\ at \in [Authors -> Nat \cup {None}] /\ req' = req
  BY RequestStays DEF TypeInv, TypeOK
<1>1. CASE Descend(r)
  <2>1. /\ pc[r] = "resolve" /\ depth' = [depth EXCEPT ![r] = @ + 1]
        /\ UNCHANGED <<suites, mine, pc>>
    BY <1>1 DEF Descend, db
  <2>2. PICK s \in suites \cup mine[r] : /\ s.project = req[r].project /\ s.parent = at[r]
                                         /\ s.name = req[r].path[depth[r] + 1]
                                         /\ at' = [at EXCEPT ![r] = s.id]
    BY <1>1 DEF Descend, Matching, Part
  <2>3. Covers(suites, mine[r], req[r].project, s.id, req[r].path, depth[r] + 1)
    BY <2>1, <2>2, CoverLonger
  <2> QED  BY <1>0, <2>1, <2>2, <2>3 DEF Laid
<1>2. CASE InsertPart(r)
  <2> DEFINE new == [id |-> nextSuite, project |-> req[r].project, parent |-> at[r],
                     name |-> Part(r), via |-> "path", looked |-> commits, end |-> 0]
  <2>1. /\ pc[r] = "resolve" /\ mine' = [mine EXCEPT ![r] = @ \cup {new}]
        /\ at' = [at EXCEPT ![r] = nextSuite] /\ depth' = [depth EXCEPT ![r] = @ + 1]
        /\ UNCHANGED <<suites, pc>>
    BY <1>2 DEF InsertPart
  <2>2. /\ new.id = nextSuite /\ new.project = req[r].project /\ new.parent = at[r]
        /\ new.name = req[r].path[depth[r] + 1]
    BY DEF Part
  <2> HIDE DEF new
  <2>3. mine'[r] = mine[r] \cup {new}
    BY <1>0, <2>1
  <2>4. Covers(suites, mine'[r], req[r].project, nextSuite, req[r].path, depth[r] + 1)
    <3>1. /\ mine[r] \subseteq mine'[r] /\ mine'[r] \subseteq mine[r] \cup {new}
          /\ new \in suites \cup mine'[r]
      BY <2>3
    <3>2. Covers(suites, mine'[r], req[r].project, new.id, req[r].path, depth[r] + 1)
      BY <2>1, <2>2, <3>1, CoverLonger
    <3> QED  BY <2>2, <3>2
  <2> QED  BY <1>0, <2>1, <2>4 DEF Laid
<1>3. CASE ~ Descend(r) /\ ~ InsertPart(r)
  BY <1>3, Resolving DEF Laid
<1> QED  BY <1>1, <1>2, <1>3

LEMMA CatalogInvNext ==
  ASSUME TypeInv, CatalogInv, [Next]_vars
  PROVE  CatalogInv'
<1>1. CASE UNCHANGED vars
  BY <1>1 DEF vars, CatalogInv, Laid, Poised
<1>2. ASSUME NEW r \in Authors, Step(r) PROVE CatalogInv'
  <2>1. ASSUME NEW q \in Authors, q # r PROVE Laid(q)' /\ Poised(q)'
    <3>1. /\ req' = req /\ pc'[q] = pc[q] /\ at'[q] = at[q] /\ depth'[q] = depth[q]
          /\ mine'[q] = mine[q] /\ filed'[q] = filed[q] /\ Laid(q) /\ Poised(q)
      BY <1>2, <2>1, OthersStay DEF TypeInv, CatalogInv
    <3>2. suites \subseteq suites'
      BY <1>2, TablesGrow
    <3>3. Laid(q)'
      BY <3>1, <3>2, CoverGrows DEF Laid
    <3> QED  BY <3>1, <3>3 DEF Poised
  <2> QED  BY <1>2, <2>1, LaidStep, PoisedStep DEF CatalogInv
<1> QED  BY <1>1, <1>2 DEF Next, Step

\* All that the proof needs of the state of a request and of the tables.
Inv == TypeInv /\ SuiteInv /\ NumberInv /\ TreeInv /\ VersionInv /\ CatalogInv

LEMMA InvAlways == Spec => []Inv
<1>1. Init => Inv
  BY TypeInit, SuiteInit, NumberInit, TreeInit, VersionInit, CatalogInvInit DEF Inv
<1>2. Inv /\ [Next]_vars => Inv'
  BY TypeNext, SuiteNext, NumberNext, TreeNext, VersionNext, CatalogInvNext DEF Inv
<1> QED  BY <1>1, <1>2, PTL DEF Spec

-----------------------------------------------------------------------------
(***************************************************************************)
(* Steps                                                                   *)
(***************************************************************************)

\* Where a request stands is read off its place.
LEMMA StandingIs ==
  ASSUME NEW r \in Authors
  PROVE  /\ pc[r] \in {"number", "flush", "commit"} /\ req[r].kind = "path"
              => Standing(r) = "filing"
         /\ pc[r] \in {"number", "flush", "commit"} /\ req[r].kind # "path"
              => Standing(r) = "pending"
         /\ pc[r] \in {"idle", "found", "resolve", "insert", "load", "write"}
              => Standing(r) = "pending"
         /\ pc[r] = "reply" => Standing(r) = "settled"
         /\ pc[r] = "done" => Standing(r) = "answered"
         /\ pc[r] = "rejected" => Standing(r) = "refused"
         /\ pc[r] = "failed" => Standing(r) = "error"
BY DEF Standing

\* A step moves its own request only.
LEMMA StandingMoves ==
  ASSUME TypeInv, NEW r \in Authors, Step(r), NEW from, Standing(r) \in from
  PROVE  Promise!Moves(r, from, Standing(r)')
<1>1. \A q \in Authors : q # r => Standing(q)' = Standing(q)
  <2>1. ASSUME NEW q \in Authors, q # r PROVE Standing(q)' = Standing(q)
    <3>1. req' = req /\ pc'[q] = pc[q]
      BY <2>1, OthersStay DEF TypeInv
    <3> QED  BY <3>1 DEF Standing
  <2> QED  BY <2>1
<1>2. req' = req
  BY RequestStays
<1> HIDE DEF Standing
<1> QED  BY <1>1, <1>2 DEF Promise!Moves

\* A request that goes on shows nothing.
LEMMA GoesOn ==
  ASSUME TypeInv, NEW r \in Authors, Step(r), Standing(r)' = Standing(r),
         UNCHANGED <<projects, suites, cases, versions, counter, filed>>
  PROVE  UNCHANGED Promise!vars
<1>1. \A q \in Authors : Standing(q)' = Standing(q)
  <2>1. ASSUME NEW q \in Authors, q # r PROVE Standing(q)' = Standing(q)
    <3>1. req' = req /\ pc'[q] = pc[q]
      BY <2>1, OthersStay DEF TypeInv
    <3> QED  BY <3>1 DEF Standing
  <2> QED  BY <2>1
<1>2. req' = req
  BY RequestStays
<1> HIDE DEF Standing
<1> QED  BY <1>1, <1>2 DEF Promise!vars, Promise!tables

LEMMA GivesUp ==
  ASSUME TypeInv, NEW r \in Authors, Step(r), Rollback(r), pc[r] \in Working,
         pc'[r] = "failed"
  PROVE  Promise!Fail(r)
<1>1. Standing(r) \in {"pending", "filing", "settled"} /\ Standing(r)' = "error"
  BY StandingIs DEF Working, Standing
<1>2. Promise!Moves(r, {"pending", "filing", "settled"}, "error")
  BY <1>1, StandingMoves
<1> QED  BY <1>2 DEF Promise!Fail, Promise!tables, Rollback, Close

LEMMA IsRefused ==
  ASSUME TypeInv, NEW r \in Authors, Step(r), pc'[r] = "rejected",
         UNCHANGED <<projects, suites, cases, versions, counter>>,
         filed' = [filed EXCEPT ![r] = 0],
         \/ Standing(r) = "pending"
         \/ Standing(r) = "filing" /\ filed[r] + 1 = req[r].bad
  PROVE  Promise!Refuse(r)
<1>1. Standing(r) \in {"pending", "filing"} /\ Standing(r)' = "refused"
  BY StandingIs DEF Standing
<1>2. Promise!Moves(r, {"pending", "filing"}, "refused")
  BY <1>1, StandingMoves
<1> HIDE DEF Standing
<1> QED  BY <1>2 DEF Promise!Refuse, Promise!tables

LEMMA SuitePlanted ==
  ASSUME Inv, NEW r \in Authors, CreateSuite(r)
  PROVE  Promise!CreateSuite(r)
<1> DEFINE new == [id |-> nextSuite, project |-> req[r].project, parent |-> req[r].parent,
                   name |-> req[r].path[1], via |-> "suite", looked |-> commits,
                   end |-> commits + 1]
<1>0. /\ pc \in [Authors -> {"idle"} \cup Working \cup Final] /\ req[r].kind \in Kinds
      /\ Placed(r) /\ Resolved(r) /\ Step(r) /\ TypeInv
      /\ suites \subseteq Suite /\ nextSuite \in Nat
  BY RequestFacts DEF Inv, TypeInv, TypeOK, Step, Handle
<1>1. /\ pc[r] = "insert" /\ pc'[r] = "reply" /\ suites' = suites \cup {new}
      /\ UNCHANGED <<projects, cases, versions, counter, filed>>
  BY <1>0 DEF CreateSuite, Goto, session
<1>2. req[r].kind = "suite"
  BY <1>0, <1>1 DEF Placed, PlacesOf, Kinds, Final
<1>3. Promise!Moves(r, {"pending"}, "settled")
  <2>1. Standing(r) = "pending" /\ Standing(r)' = "settled"
    BY <1>1, StandingIs DEF Standing
  <2> QED  BY <1>0, <2>1, StandingMoves
<1>4. /\ new.id = nextSuite /\ new.project = req[r].project /\ new.parent = req[r].parent
      /\ new.name = req[r].path[1]
  OBVIOUS
<1> HIDE DEF new
<1>5. new \notin suites /\ \A t \in suites : t.id # new.id
  <2>1. \A t \in suites : t.id \in Nat /\ t.id < nextSuite
    BY <1>0 DEF Inv, SuiteInv, Suite
  <2> QED  BY <1>0, <1>4, <2>1
<1>6. Promise!Grown
  BY <1>1, <1>5 DEF Promise!Grown
<1>7. new.parent # None => \E t \in suites : t.id = new.parent /\ t.project = new.project
  BY <1>0, <1>1, <1>4 DEF Resolved, Exists
<1> QED  BY <1>1, <1>2, <1>3, <1>4, <1>5, <1>6, <1>7 DEF Promise!CreateSuite

\* The commit of a path shows its suites all at once: those that were there, and the
\* request's own.
LEMMA PathGrafted ==
  ASSUME Inv, NEW r \in Authors, CommitPath(r)
  PROVE  Promise!CreatePath(r)
<1> DEFINE Stamp(s) == [s EXCEPT !.end = commits + 1]
           n == Len(req[r].path)
<1>a. /\ req[r].kind \in Kinds /\ TypeInv /\ TypeOK
      /\ n \in Nat /\ (req[r].path # << >> => n # 0)
  BY RequestFacts, PathFacts DEF Inv, TypeInv
<1> HIDE DEF n
<1>0. /\ pc \in [Authors -> {"idle"} \cup Working \cup Final]
      /\ Placed(r) /\ Resolved(r) /\ Laid(r) /\ Step(r)
      /\ commits + 1 \in Nat /\ mine[r] \subseteq Suite
  BY <1>a DEF Inv, TypeInv, TypeOK, CatalogInv, Step, Handle, FilePath
<1> USE DEF n
<1>1. /\ pc[r] = "resolve" /\ depth[r] = n
      /\ pc'[r] = IF req[r].items = 0 THEN "reply" ELSE "number"
      /\ suites' = suites \cup {Stamp(s) : s \in mine[r]}
      /\ UNCHANGED <<projects, cases, versions, counter, filed>>
  BY <1>a, <1>0 DEF CommitPath, Goto
<1>2. req[r].kind = "path"
  BY <1>a, <1>0, <1>1 DEF Placed, PlacesOf, Kinds, Final
<1>3. Promise!Moves(r, {"pending"}, IF req[r].items = 0 THEN "settled" ELSE "filing")
  <2>1. Standing(r) = "pending"
    BY <1>1, StandingIs
  <2>2. Standing(r)' = IF req[r].items = 0 THEN "settled" ELSE "filing"
    <3>1. req' = req
      BY <1>a, <1>0, RequestStays
    <3> QED  BY <1>1, <1>2, <3>1 DEF Standing
  <2> QED  BY <1>a, <1>0, <2>1, <2>2, StandingMoves
<1>4. /\ \A s \in mine[r] : /\ Stamp(s).id = s.id /\ Stamp(s).project = s.project
                            /\ Stamp(s).parent = s.parent /\ Stamp(s).name = s.name
      /\ \A s \in mine[r] : /\ \A t \in suites : s.id # t.id
                            /\ \A t \in mine[r] : s.id = t.id => s = t
  BY <1>a, <1>0, StampFacts DEF Inv, SuiteInv, Inserted
<1> HIDE DEF Stamp
<1>5. Promise!Grown
  BY <1>1, <1>4 DEF Promise!Grown
<1>6. n \in Nat \ {0} /\ req[r].project \in projects
  BY <1>a, <1>0, <1>1, <1>2 DEF Resolved
<1>7. PICK chain \in [1..n -> suites \cup mine[r]] :
        /\ Trail(chain, req[r].project, req[r].path, n)
        /\ \A s \in mine[r] : \E k \in 1..n : chain[k] = s
  BY <1>a, <1>0, <1>1, <1>6 DEF Laid, Covers
<1> HIDE DEF n
<1> DEFINE Now(s) == IF s \in suites THEN s ELSE Stamp(s)
<1>8. /\ \A s \in suites \cup mine[r] :
           /\ Now(s) \in suites' /\ Now(s).id = s.id /\ Now(s).name = s.name
           /\ Now(s).project = s.project /\ Now(s).parent = s.parent
      /\ \A s \in mine[r] : Now(s) = Stamp(s)
  BY <1>1, <1>4
<1> HIDE DEF Now
<1> DEFINE moved == [k \in 1..n |-> Now(chain[k])]
<1>9. /\ moved \in [1..n -> suites']
      /\ \A k \in 1..n : /\ moved[k].id = chain[k].id /\ moved[k].name = chain[k].name
                         /\ moved[k].project = chain[k].project
                         /\ moved[k].parent = chain[k].parent
                         /\ moved[k] = Now(chain[k])
  BY <1>7, <1>8
<1> HIDE DEF moved
<1>10. Trail(moved, req[r].project, req[r].path, n)
  <2>1. \A k \in 2..n : k \in 1..n /\ k - 1 \in 1..n
    BY <1>6
  <2> QED  BY <1>6, <1>7, <1>9, <2>1 DEF Trail
<1>11. \A s \in suites' \ suites : \E k \in 1..n : moved[k] = s
  BY <1>1, <1>7, <1>8, <1>9
<1>12. Promise!Hangs(moved, req[r].project, req[r].path)
  BY <1>10 DEF n, Trail, Promise!Hangs
<1>13. \E c \in [1..Len(req[r].path) -> suites'] :
         /\ Promise!Hangs(c, req[r].project, req[r].path)
         /\ \A s \in suites' \ suites : \E k \in 1..Len(req[r].path) : c[k] = s
  BY <1>9, <1>11, <1>12 DEF n
<1> QED  BY <1>1, <1>2, <1>3, <1>5, <1>6, <1>13 DEF Promise!CreatePath

\* The commit of a case shows it with its number, its first version and the counter.
LEMMA CaseFiled ==
  ASSUME Inv, TypeInv', NEW r \in Authors, CommitCase(r)
  PROVE  Promise!FileCase(r)
<1> DEFINE c == NewCase(r)
           v == FirstVersion(r)
           p == Numbering(r)
<1>0. /\ pc \in [Authors -> {"idle"} \cup Working \cup Final] /\ req[r].kind \in Kinds
      /\ Placed(r) /\ Poised(r) /\ Walking(r) /\ Step(r) /\ TypeInv
      /\ (req[r].kind = "case" => req[r].items = 1)
      /\ Numbered(r) /\ counter \in [Prefixes -> Nat] /\ Len(req[r].path) \in Nat
  BY RequestFacts, PathFacts
     DEF Inv, TypeInv, TypeOK, CatalogInv, NumberInv, TreeInv, Step, Handle, FileCase
<1>1. /\ pc[r] = "commit" /\ cases' = cases \cup {c} /\ versions' = versions \cup {v}
      /\ counter' = [counter EXCEPT ![p] = number[r]]
      /\ filed' = [filed EXCEPT ![r] = @ + 1]
      /\ pc'[r] = IF filed[r] + 1 = req[r].items THEN "reply" ELSE "number"
      /\ UNCHANGED <<projects, suites>>
  BY <1>0 DEF CommitCase, Goto, NextItem
<1>2. req[r].kind \in {"path", "case"}
  BY <1>0, <1>1 DEF Placed, PlacesOf, Kinds, Final
<1>3. /\ req[r].kind = "path" => Standing(r) = "filing"
      /\ req[r].kind = "case" => Standing(r) = "pending"
  BY <1>1, <1>2, StandingIs
<1>4. Promise!Moves(r, {"pending", "filing"},
                    IF filed[r] + 1 = req[r].items THEN "settled" ELSE "filing")
  <2>1. Standing(r) \in {"pending", "filing"}
    BY <1>2, <1>3
  <2>2. Standing(r)' = IF filed[r] + 1 = req[r].items THEN "settled" ELSE "filing"
    <3>1. req' = req
      BY <1>0, RequestStays
    <3>2. req[r].kind = "case" => filed[r] + 1 = req[r].items
      BY <1>0, <1>1 DEF Poised
    <3> QED  BY <1>1, <1>2, <3>1, <3>2 DEF Standing
  <2> QED  BY <1>0, <2>1, <2>2, StandingMoves
<1>5. /\ c.project = p /\ c.number = number[r] /\ c.suite = at[r] /\ c.by = r
      /\ c.item = filed[r] + 1
      /\ v.project = p /\ v.number = number[r] /\ v.version = 1
      /\ v.content = req[r].content
  BY DEF NewCase, FirstVersion
<1>6. p \in Prefixes /\ Exists(at[r], p, suites)
  BY <1>0, <1>1, NumberingType
<1>7. number[r] = counter[p] + 1 /\ counter[p] \in Nat
  BY <1>0, <1>1, <1>6 DEF Numbered
<1> HIDE DEF c, v, p
<1>8. c \notin cases /\ v \notin versions
  <2>1. \A d \in cases : d.project = p => d.number \in 1..counter[p]
    BY <1>6 DEF Inv, NumberInv, Dense
  <2>2. \A w \in versions : w.number \in 1..counter[w.project]
    BY DEF Inv, VersionInv
  <2> QED  BY <1>5, <1>7, <2>1, <2>2
<1>9. Promise!Files(r, c)
  <2>1. CASE req[r].kind = "path"
    <3>1. Chained(suites, req[r].project, at[r], req[r].path, Len(req[r].path))
      BY <1>0, <1>1, <2>1 DEF Walking
    <3>2. PICK chain \in [1..Len(req[r].path) -> {s \in suites : s.project = req[r].project}] :
            /\ chain[1].parent = None /\ chain[Len(req[r].path)].id = at[r]
            /\ \A k \in 1..Len(req[r].path) : chain[k].name = req[r].path[k]
            /\ \A k \in 2..Len(req[r].path) : chain[k].parent = chain[k - 1].id
      BY <3>1 DEF Chained
    <3>3. /\ chain \in [1..Len(req[r].path) -> suites]
          /\ \A k \in 1..Len(req[r].path) : chain[k].project = req[r].project
      BY <3>2
    <3>4. Promise!Hangs(chain, req[r].project, req[r].path)
      BY <3>2, <3>3 DEF Promise!Hangs
    <3> QED  BY <1>5, <2>1, <3>2, <3>3, <3>4 DEF Promise!Files
  <2>2. CASE req[r].kind # "path"
    BY <1>0, <1>1, <1>2, <1>5, <2>2 DEF Poised, Promise!Files
  <2> QED  BY <2>1, <2>2
<1>10. \E s \in suites : s.id = c.suite /\ s.project = c.project
  BY <1>5, <1>6 DEF Exists
<1>11. filed[r] + 1 # req[r].bad
  BY <1>0, <1>1 DEF Poised
<1>12. \/ req[r].kind = "path" /\ [q \in Authors |-> Standing(q)][r] = "filing"
       \/ req[r].kind = "case" /\ [q \in Authors |-> Standing(q)][r] = "pending"
  BY <1>2, <1>3
<1>13. /\ c \in cases' \ cases /\ v \in versions' \ versions
       /\ counter' = [counter EXCEPT ![c.project] = c.number]
       /\ c.number = counter[c.project] + 1 /\ v.project = c.project /\ v.number = c.number
  BY <1>1, <1>5, <1>7, <1>8
<1> QED  BY <1>1, <1>4, <1>5, <1>9, <1>10, <1>11, <1>12, <1>13 DEF Promise!FileCase

LEMMA VersionRevised ==
  ASSUME Inv, NEW r \in Authors, CreateVersion(r)
  PROVE  Promise!CreateVersion(r)
<1>0. /\ pc \in [Authors -> {"idle"} \cup Working \cup Final] /\ Resolved(r) /\ Step(r)
      /\ TypeInv /\ commits \in Nat /\ versions \subseteq Version
  BY DEF Inv, TypeInv, TypeOK, Step, Handle, EditCase
<1>1. /\ pc[r] = "write" /\ req[r].kind = "version" /\ pc'[r] = "reply"
      /\ versions' = versions \cup {NextVersion(r)}
      /\ UNCHANGED <<projects, suites, cases, counter, filed>>
  BY <1>0 DEF CreateVersion, Goto, session
<1>2. Promise!Moves(r, {"pending"}, "settled")
  <2>1. Standing(r) = "pending" /\ Standing(r)' = "settled"
    BY <1>1, StandingIs DEF Standing
  <2> QED  BY <1>0, <2>1, StandingMoves
<1>3. PICK old \in versions : old = read[r] /\ old.project = req[r].project
                                            /\ old.number = req[r].number
  BY <1>0, <1>1 DEF Resolved
<1>4. PICK v : v = NextVersion(r)
  OBVIOUS
<1>5. /\ v.project = req[r].project /\ v.number = req[r].number /\ v.version = old.version + 1
      /\ v.end = commits + 1
      /\ v.content = [f \in Fields |-> IF req[r].content[f] # None THEN req[r].content[f]
                                                                   ELSE old.content[f]]
  BY <1>3, <1>4 DEF NextVersion, Merged
<1>6. v \notin versions
  <2>1. \A w \in versions : w.end \in Nat /\ w.end <= commits
    BY <1>0 DEF Inv, VersionInv, Version
  <2> QED  BY <1>0, <1>5, <2>1
<1>7. /\ v \in versions' \ versions /\ versions' = versions \cup {v}
      /\ old.project = v.project /\ old.number = v.number
  BY <1>1, <1>3, <1>4, <1>5, <1>6
<1> HIDE DEF NextVersion
<1>8. \E o \in versions, w \in versions' \ versions :
        /\ versions' = versions \cup {w}
        /\ w.project = req[r].project /\ w.number = req[r].number
        /\ o.project = w.project /\ o.number = w.number /\ w.version = o.version + 1
        /\ w.content = [f \in Fields |-> IF req[r].content[f] # None THEN req[r].content[f]
                                                                   ELSE o.content[f]]
  BY <1>5, <1>7
<1> QED  BY <1>1, <1>2, <1>8 DEF Promise!CreateVersion

LEMMA ProjectShown ==
  ASSUME TypeInv, NEW r \in Authors, CreateProject(r)
  PROVE  Promise!CreateProject(r)
<1>1. /\ Step(r) /\ pc[r] = "write" /\ pc'[r] = "reply"
      /\ UNCHANGED <<suites, cases, versions, counter, filed>>
  BY DEF CreateProject, Goto, session, Step, Handle, WriteProject, TypeInv, TypeOK
<1>2. Standing(r) = "pending" /\ Standing(r)' = "settled"
  BY <1>1, StandingIs DEF Standing
<1>3. Promise!Moves(r, {"pending"}, "settled")
  BY <1>1, <1>2, StandingMoves
<1> QED  BY <1>1, <1>3 DEF CreateProject, Promise!CreateProject

\* A request is turned away where it is looked up, at the prefix, or at a malformed item.
LEMMA TurnedAway ==
  ASSUME Inv, NEW r \in Authors, Step(r), pc'[r] = "rejected",
         Begin(r) \/ FindPrefix(r) \/ RejectItem(r)
  PROVE  Promise!Refuse(r)
<1>0. /\ TypeInv /\ Poised(r) /\ Placed(r) /\ filed \in [Authors -> Nat] /\ req[r].kind \in Kinds
      /\ (pc[r] = "idle" => filed[r] = 0)
  BY RequestFacts DEF Inv, TypeInv, TypeOK, CatalogInv, Holds
<1>1. CASE Begin(r) \/ FindPrefix(r)
  <2>1. /\ pc[r] \in {"idle", "found"}
        /\ UNCHANGED <<projects, suites, cases, versions, counter, filed>>
    BY <1>1 DEF Begin, FindPrefix, db, session
  <2>2. filed' = [filed EXCEPT ![r] = 0]
    BY <1>0, <2>1 DEF Poised
  <2>3. Standing(r) = "pending"
    BY <2>1, StandingIs
  <2> QED  BY <1>0, <2>1, <2>2, <2>3, IsRefused
<1>2. CASE RejectItem(r)
  <2>1. /\ pc[r] = "number" /\ filed[r] + 1 = req[r].bad
        /\ UNCHANGED <<projects, suites, cases, versions, counter>>
        /\ filed' = [filed EXCEPT ![r] = 0]
    BY <1>2 DEF RejectItem, Rollback, Close
  <2>2. Standing(r) = "pending" \/ Standing(r) = "filing"
    BY <2>1, StandingIs
  <2> QED  BY <1>0, <2>1, <2>2, IsRefused
<1> QED  BY <1>1, <1>2

\* The steps of a handler between its reads and its commits.
LEMMA Proceeds ==
  ASSUME Inv, NEW r \in Authors, Step(r),
         \/ pc'[r] # "rejected" /\ (Begin(r) \/ FindPrefix(r))
         \/ Descend(r) \/ InsertPart(r) \/ BuildExternalId(r) \/ FlushCase(r) \/ LoadVersion(r)
  PROVE  UNCHANGED Promise!vars
<1>0. /\ TypeInv /\ pc \in [Authors -> {"idle"} \cup Working \cup Final] /\ req[r].kind \in Kinds
      /\ req' = req
  BY RequestFacts, RequestStays DEF Inv, TypeInv, TypeOK
<1>1. UNCHANGED <<projects, suites, cases, versions, counter, filed>>
  BY DEF Begin, FindPrefix, Descend, InsertPart, BuildExternalId, FlushCase, LoadVersion,
         db, session
<1>2. Standing(r)' = Standing(r)
  <2>1. CASE Begin(r) /\ pc'[r] # "rejected"
    <3>1. Entry[req[r].kind] \in {"found", "resolve", "insert", "number", "load"}
          /\ (Entry[req[r].kind] = "number" => req[r].kind = "case")
      BY <1>0 DEF Entry, Kinds
    <3>2. pc[r] = "idle" /\ pc'[r] = Entry[req[r].kind]
      BY <1>0, <2>1 DEF Begin, Goto
    <3> QED  BY <1>0, <3>1, <3>2 DEF Standing
  <2>2. CASE FindPrefix(r) /\ pc'[r] # "rejected"
    BY <1>0, <2>2 DEF FindPrefix, Goto, Standing
  <2>3. CASE Descend(r) \/ InsertPart(r)
    BY <1>0, <2>3 DEF Descend, InsertPart, Standing
  <2>4. CASE BuildExternalId(r)
    BY <1>0, <2>4 DEF BuildExternalId, Goto, Standing
  <2>5. CASE FlushCase(r)
    BY <1>0, <2>5 DEF FlushCase, Goto, Standing
  <2>6. CASE LoadVersion(r)
    BY <1>0, <2>6 DEF LoadVersion, Goto, Standing
  <2> QED  BY <2>1, <2>2, <2>3, <2>4, <2>5, <2>6
<1> QED  BY <1>0, <1>1, <1>2, GoesOn

LEMMA Breaks ==
  ASSUME Inv, NEW r \in Authors, Step(r),
         LosePrefix(r) \/ Ambiguous(r) \/ LoseNumber(r) \/ Crash(r)
  PROVE  Promise!Fail(r)
<1>1. TypeInv /\ pc \in [Authors -> {"idle"} \cup Working \cup Final]
  BY DEF Inv, TypeInv, TypeOK
<1>2. Rollback(r) /\ pc[r] \in Working /\ Goto(r, "failed")
  BY DEF LosePrefix, Ambiguous, LoseNumber, Crash, Working
<1>3. pc'[r] = "failed"
  BY <1>1, <1>2 DEF Goto
<1> QED  BY <1>1, <1>2, <1>3, GivesUp

LEMMA Implements ==
  ASSUME Inv, TypeInv', NEW r \in Authors, Step(r)
  PROVE  Promise!Next \/ UNCHANGED Promise!vars
<1>0. TypeInv /\ pc \in [Authors -> {"idle"} \cup Working \cup Final]
  BY DEF Inv, TypeInv, TypeOK
<1>1. CASE pc'[r] = "rejected" /\ (Begin(r) \/ FindPrefix(r) \/ RejectItem(r))
  BY <1>1, TurnedAway DEF Promise!Next
<1>2. CASE \/ pc'[r] # "rejected" /\ (Begin(r) \/ FindPrefix(r))
           \/ Descend(r) \/ InsertPart(r) \/ BuildExternalId(r) \/ FlushCase(r) \/ LoadVersion(r)
  BY <1>2, Proceeds
<1>3. CASE LosePrefix(r) \/ Ambiguous(r) \/ LoseNumber(r) \/ Crash(r)
  BY <1>3, Breaks DEF Promise!Next
<1>4. CASE CreateProject(r)
  BY <1>0, <1>4, ProjectShown DEF Promise!Next
<1>5. CASE CreateSuite(r)
  BY <1>5, SuitePlanted DEF Promise!Next
<1>6. CASE CommitPath(r)
  BY <1>6, PathGrafted DEF Promise!Next
<1>7. CASE CommitCase(r)
  BY <1>7, CaseFiled DEF Promise!Next
<1>8. CASE CreateVersion(r)
  BY <1>8, VersionRevised DEF Promise!Next
<1>9. CASE Reply(r)
  <2>1. /\ pc[r] = "reply" /\ pc'[r] = "done"
        /\ UNCHANGED <<projects, suites, cases, versions, counter, filed>>
    BY <1>0, <1>9 DEF Reply, Goto, db, session
  <2>2. Standing(r) = "settled" /\ Standing(r)' = "answered"
    BY <2>1, StandingIs DEF Standing
  <2>3. Promise!Moves(r, {"settled"}, "answered")
    BY <1>0, <2>2, StandingMoves
  <2> QED  BY <2>1, <2>3 DEF Promise!Next, Promise!Answer, Promise!tables
<1>10. CASE Retry(r)
  <2>1. /\ pc[r] = "failed" /\ pc'[r] = "idle"
        /\ UNCHANGED <<projects, suites, cases, versions, counter, filed>>
    BY <1>0, <1>10 DEF Retry, Goto, db, session
  <2>2. Standing(r) = "error" /\ Standing(r)' = "pending"
    BY <2>1, StandingIs DEF Standing
  <2>3. Promise!Moves(r, {"error"}, "pending")
    BY <1>0, <2>2, StandingMoves
  <2> QED  BY <2>1, <2>3 DEF Promise!Next, Promise!Resend, Promise!tables
<1>11. RejectItem(r) => pc'[r] = "rejected"
  BY <1>0 DEF RejectItem, Goto
<1> QED  BY <1>1, <1>2, <1>3, <1>4, <1>5, <1>6, <1>7, <1>8, <1>9, <1>10, <1>11
         DEF Step, Handle, WriteProject, FilePath, FileCase, EditCase

\* Whatever requests do to each other, what they leave in the database is what Catalog's
\* would: find_or_create_path commits its suites together, create_test_case a case with its
\* version and the counter, and an error after a commit takes nothing back.
THEOREM CatalogImplemented == Spec => ImplementsCatalog
<1>1. Init => Promise!Init
  <2> SUFFICES ASSUME Init PROVE Promise!Init
    OBVIOUS
  <2>1. \A p \in Prefixes : {c.number : c \in {d \in cases : d.project = p}} = 1..counter[p]
    <3> SUFFICES ASSUME NEW p \in Prefixes
                 PROVE  {c.number : c \in {d \in cases : d.project = p}} = 1..counter[p]
      OBVIOUS
    <3>1. Dense(p)
      BY NumberInit DEF NumberInv
    <3> QED  BY <3>1 DEF Dense
  <2>2. \A v \in versions : v.version = 1
    BY DEF Init
  <2>3. \A r \in Authors : Standing(r) = "pending"
    BY DEF Init, Standing
  <2>4. \A s \in suites : s.project = Home /\ s.parent = None
    BY DEF Init, FirstSuite
  <2> HIDE DEF Standing
  <2> QED  BY <2>1, <2>2, <2>3, <2>4 DEF Init, Promise!Init
<1>2. Inv /\ TypeInv' /\ [Next]_vars => [Promise!Next]_(Promise!vars)
  <2> SUFFICES ASSUME Inv, TypeInv', [Next]_vars PROVE [Promise!Next]_(Promise!vars)
    OBVIOUS
  <2>1. ASSUME UNCHANGED vars PROVE UNCHANGED Promise!vars
    BY <2>1 DEF vars, Promise!vars, Promise!tables, Standing
  <2>2. ASSUME NEW r \in Authors, Step(r) PROVE Promise!Next \/ UNCHANGED Promise!vars
    BY <2>2, Implements
  <2> QED  BY <2>1, <2>2 DEF Next, Step
<1>3. Inv => TypeInv
  BY DEF Inv
<1> QED  BY <1>1, <1>2, <1>3, InvAlways, PTL DEF Spec, ImplementsCatalog, Promise!Spec

=============================================================================
