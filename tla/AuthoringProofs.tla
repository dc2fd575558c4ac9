--------------------------- MODULE AuthoringProofs ---------------------------
(***************************************************************************)
(* Proofs about Authoring: type correctness, dense external ids, suites    *)
(* and versions that split only in a race, trees that can be drawn, lists  *)
(* filed from the head, and edits that survive, for any authors, requests, *)
(* projects, fields and bounds.                                            *)
(*                                                                         *)
(* Nothing is deleted, and every row carries the time of the read it rests *)
(* on and of its commit; each invariant says, of every request in flight,  *)
(* what the rows that were committed when it looked have to do with what   *)
(* it is about to commit.                                                  *)
(***************************************************************************)
EXTENDS Authoring, SequenceTheorems, FiniteSetTheorems, WellFoundedInduction, TLAPS

Step(r) == Handle(r) \/ Crash(r) \/ Retry(r)

\* The places of the handler of each kind of request.
PlacesOf ==
  [project |-> {"found", "write"}, path |-> {"resolve", "number", "flush", "commit"},
   suite |-> {"insert"}, case |-> {"number", "flush", "commit"}, version |-> {"load", "write"}]

Placed(r) ==
  /\ pc[r] \in {"idle", "reply"} \cup Final \cup PlacesOf[req[r].kind]
  /\ pc[r] = "idle" => attempts[r] < MaxAttempts

\* Suite i of project p is there, committed or the request's own.
Exists(i, p, ss) == \E s \in ss : s.id = i /\ s.project = p

\* What a request has found stays: its project, its parent suite, its case.
Resolved(r) ==
  /\ req[r].kind = "path" /\ pc[r] \in {"resolve", "number", "flush", "commit"}
       => req[r].project \in projects /\ req[r].path # << >>
  /\ pc[r] = "insert" => /\ req[r].project \in projects
                         /\ req[r].parent = None \/ Exists(req[r].parent, req[r].project, suites)
  /\ pc[r] = "resolve" =>
       /\ depth[r] <= Len(req[r].path)
       /\ IF depth[r] = 0 THEN at[r] = None
                          ELSE Exists(at[r], req[r].project, suites \cup mine[r])
  /\ pc[r] \in {"number", "flush", "commit"} =>
       /\ \E s \in suites : s.id = at[r]
       /\ req[r].kind = "path" => Exists(at[r], req[r].project, suites)
  /\ req[r].kind = "version" /\ pc[r] \in {"load", "write"}
       => \E v \in versions : v.project = req[r].project /\ v.number = req[r].number
  /\ req[r].kind = "version" /\ pc[r] = "write"
       => /\ read[r] \in versions
          /\ read[r].project = req[r].project /\ read[r].number = req[r].number

\* Only a path that is being resolved has uncommitted suites, and an attempt starts afresh.
Holds(r) ==
  /\ pc[r] \in {"idle", "failed"} => depth[r] = 0 /\ filed[r] = 0
  /\ pc[r] = "resolve" => filed[r] = 0
  /\ pc[r] # "resolve" => mine[r] = {}
  /\ \A s \in mine[r] : s.project = req[r].project

TypeInv ==
  /\ TypeOK
  /\ \A r \in Authors : Placed(r) /\ Resolved(r) /\ Holds(r)

-----------------------------------------------------------------------------
(***************************************************************************)
(* Frames                                                                  *)
(***************************************************************************)

\* What the assumptions say of the request of a client.
LEMMA RequestFacts ==
  ASSUME TypeOK, NEW r \in Authors
  PROVE  /\ req[r].kind \in Kinds
         /\ req[r].path \in Seq(Names)
         /\ req[r].items \in Nat /\ req[r].bad \in Nat /\ req[r].number \in Nat
         /\ req[r].content \in Content
         /\ req[r].kind = "case" => req[r].items = 1
         /\ req[r].kind = "project" => req[r].project \in Prefixes
         /\ req[r].kind = "suite" => req[r].path # << >>
BY RequestsAssumption DEF TypeOK

\* The elements of a path are names.
LEMMA PathFacts ==
  ASSUME NEW path \in Seq(Names)
  PROVE  /\ Len(path) \in Nat
         /\ \A k \in 1..Len(path) : path[k] \in Names
         /\ path # << >> => Len(path) # 0
<1>1. Len(path) \in Nat /\ path \in [1..Len(path) -> Names]
  BY LenProperties
<1>2. path # << >> => Len(path) # 0
  BY EmptySeq
<1> QED  BY <1>1, <1>2

\* A step of one request leaves the others where they are.
LEMMA OthersStay ==
  ASSUME TypeOK, NEW r \in Authors, Step(r), NEW q \in Authors, q # r
  PROVE  /\ req' = req
         /\ pc'[q] = pc[q] /\ at'[q] = at[q] /\ depth'[q] = depth[q] /\ mine'[q] = mine[q]
         /\ number'[q] = number[q] /\ filed'[q] = filed[q] /\ read'[q] = read[q]
         /\ looked'[q] = looked[q] /\ attempts'[q] = attempts[q]
<1> USE DEF TypeOK, Goto, Close, Rollback, db, session, client
<1>1. CASE Begin(r)
  BY <1>1 DEF Begin
<1>2. CASE FindPrefix(r)
  BY <1>2 DEF FindPrefix
<1>3. CASE CreateProject(r)
  BY <1>3 DEF CreateProject
<1>4. CASE LosePrefix(r)
  BY <1>4 DEF LosePrefix
<1>5. CASE CreateSuite(r)
  BY <1>5 DEF CreateSuite
<1>6. CASE Descend(r)
  BY <1>6 DEF Descend
<1>7. CASE InsertPart(r)
  BY <1>7 DEF InsertPart
<1>8. CASE Ambiguous(r)
  BY <1>8 DEF Ambiguous
<1>9. CASE CommitPath(r)
  BY <1>9 DEF CommitPath
<1>10. CASE RejectItem(r)
  BY <1>10 DEF RejectItem
<1>11. CASE BuildExternalId(r)
  BY <1>11 DEF BuildExternalId
<1>12. CASE FlushCase(r)
  BY <1>12 DEF FlushCase
<1>13. CASE LoseNumber(r)
  BY <1>13 DEF LoseNumber
<1>14. CASE CommitCase(r)
  BY <1>14 DEF CommitCase, NextItem
<1>15. CASE LoadVersion(r)
  BY <1>15 DEF LoadVersion
<1>16. CASE CreateVersion(r)
  BY <1>16 DEF CreateVersion
<1>17. CASE Reply(r)
  BY <1>17 DEF Reply
<1>18. CASE Crash(r)
  BY <1>18 DEF Crash
<1>19. CASE Retry(r)
  BY <1>19 DEF Retry
<1> QED  BY <1>1, <1>2, <1>3, <1>4, <1>5, <1>6, <1>7, <1>8, <1>9, <1>10, <1>11, <1>12, <1>13,
            <1>14, <1>15, <1>16, <1>17, <1>18, <1>19 DEF Step, Handle, WriteProject, FilePath,
            FileCase, EditCase

\* No request changes.
LEMMA RequestStays ==
  ASSUME NEW r \in Authors, Step(r)
  PROVE  req' = req
<1> USE DEF client
<1>1. CASE Begin(r)
  BY <1>1 DEF Begin
<1>2. CASE FindPrefix(r)
  BY <1>2 DEF FindPrefix
<1>3. CASE CreateProject(r)
  BY <1>3 DEF CreateProject
<1>4. CASE LosePrefix(r)
  BY <1>4 DEF LosePrefix
<1>5. CASE CreateSuite(r)
  BY <1>5 DEF CreateSuite
<1>6. CASE Descend(r)
  BY <1>6 DEF Descend
<1>7. CASE InsertPart(r)
  BY <1>7 DEF InsertPart
<1>8. CASE Ambiguous(r)
  BY <1>8 DEF Ambiguous
<1>9. CASE CommitPath(r)
  BY <1>9 DEF CommitPath
<1>10. CASE RejectItem(r)
  BY <1>10 DEF RejectItem
<1>11. CASE BuildExternalId(r)
  BY <1>11 DEF BuildExternalId
<1>12. CASE FlushCase(r)
  BY <1>12 DEF FlushCase
<1>13. CASE LoseNumber(r)
  BY <1>13 DEF LoseNumber
<1>14. CASE CommitCase(r)
  BY <1>14 DEF CommitCase, NextItem
<1>15. CASE LoadVersion(r)
  BY <1>15 DEF LoadVersion
<1>16. CASE CreateVersion(r)
  BY <1>16 DEF CreateVersion
<1>17. CASE Reply(r)
  BY <1>17 DEF Reply
<1>18. CASE Crash(r)
  BY <1>18 DEF Crash
<1>19. CASE Retry(r)
  BY <1>19 DEF Retry
<1> QED  BY <1>1, <1>2, <1>3, <1>4, <1>5, <1>6, <1>7, <1>8, <1>9, <1>10, <1>11, <1>12, <1>13,
            <1>14, <1>15, <1>16, <1>17, <1>18, <1>19 DEF Step, Handle, WriteProject, FilePath,
            FileCase, EditCase

-----------------------------------------------------------------------------
(***************************************************************************)
(* Type correctness                                                        *)
(***************************************************************************)

LEMMA TypeInit == Init => TypeInv
<1> SUFFICES ASSUME Init PROVE TypeInv
  OBVIOUS
<1>1. \A r \in Authors : req[r] \in Requests /\ req[r].kind \in Kinds
  BY RequestsAssumption DEF Init
<1>2. PICK k \in 0..Stock :
        /\ counter = [p \in Prefixes |-> IF p = Home THEN k ELSE 0]
        /\ cases = {[project |-> Home, number |-> n, suite |-> 1, by |-> None, attempt |-> 0,
                     item |-> 1] : n \in 1..k}
        /\ versions = {[project |-> Home, number |-> n, version |-> 1,
                        content |-> [f \in Fields |-> None], supplied |-> Fields,
                        looked |-> 0, end |-> 0] : n \in 1..k}
  BY DEF Init
<1>3. k \in Nat /\ \A n \in 1..k : n \in Nat
  BY <1>2, DomainAssumption
<1>4. suites \subseteq Suite /\ {s.project : s \in suites} \subseteq projects
  BY DomainAssumption DEF Init, FirstSuite, Suite
<1>5. cases \subseteq Case
  BY <1>2, <1>3, DomainAssumption DEF Case
<1>6. [f \in Fields |-> None] \in Content
  BY DEF Content
<1>7. versions \subseteq Version
  BY <1>2, <1>3, <1>6, DomainAssumption DEF Version
<1>8. counter \in [Prefixes -> Nat]
  BY <1>2, <1>3
<1>9. TypeOK
  BY <1>4, <1>5, <1>7, <1>8, DomainAssumption DEF Init, TypeOK
<1>10. \A r \in Authors : Placed(r)
  BY <1>1, DomainAssumption DEF Init, Placed
<1>11. \A r \in Authors : Resolved(r) /\ Holds(r)
  BY DEF Init, Resolved, Holds
<1> QED  BY <1>9, <1>10, <1>11 DEF TypeInv

\* What a step must show: the parts of the invariant about the others stay.
LEMMA TypeFrame ==
  ASSUME TypeInv, NEW r \in Authors, Step(r), projects \subseteq projects',
         suites \subseteq suites', versions \subseteq versions',
         TypeOK', Placed(r)', Resolved(r)', Holds(r)'
  PROVE  TypeInv'
<1>1. ASSUME NEW q \in Authors, q # r PROVE Placed(q)' /\ Resolved(q)' /\ Holds(q)'
  <2>1. /\ req' = req
        /\ pc'[q] = pc[q] /\ at'[q] = at[q] /\ depth'[q] = depth[q] /\ mine'[q] = mine[q]
        /\ number'[q] = number[q] /\ filed'[q] = filed[q] /\ read'[q] = read[q]
        /\ looked'[q] = looked[q] /\ attempts'[q] = attempts[q]
    BY <1>1, OthersStay DEF TypeInv
  <2>2. Placed(q) /\ Resolved(q) /\ Holds(q)
    BY DEF TypeInv
  <2>3. Placed(q)'
    BY <2>1, <2>2 DEF Placed
  <2>4. Resolved(q)'
    BY <2>1, <2>2 DEF Resolved, Exists
  <2>5. Holds(q)'
    BY <2>1, <2>2 DEF Holds
  <2> QED  BY <2>3, <2>4, <2>5
<1> QED  BY <1>1 DEF TypeInv

\* A request that is given up leaves nothing behind.
LEMMA ClosedFrame ==
  ASSUME TypeInv, NEW r \in Authors, Step(r), Rollback(r), UNCHANGED <<req, attempts>>,
         Goto(r, "rejected") \/ Goto(r, "failed"), crashes' \in 0..MaxCrashes
  PROVE  TypeInv'
<1> USE DEF Rollback, Close, Goto
<1>1. owner' \in [Prefixes -> Authors \cup {None}]
  BY DEF TypeInv, TypeOK
<1>2. TypeOK'
  BY <1>1 DEF TypeInv, TypeOK, Working, Final
<1>3. Placed(r)' /\ Resolved(r)'
  BY DEF TypeInv, TypeOK, Placed, Resolved, Final
<1>4. Holds(r)'
  BY DEF TypeInv, TypeOK, Holds
<1> QED  BY <1>2, <1>3, <1>4, TypeFrame

\* A suite that is committed is the one that was inserted, with its time.
LEMMA StampFacts ==
  ASSUME NEW s \in Suite, NEW n \in Nat
  PROVE  /\ [s EXCEPT !.end = n] \in Suite
         /\ [s EXCEPT !.end = n].id = s.id /\ [s EXCEPT !.end = n].project = s.project
         /\ [s EXCEPT !.end = n].parent = s.parent /\ [s EXCEPT !.end = n].name = s.name
         /\ [s EXCEPT !.end = n].via = s.via /\ [s EXCEPT !.end = n].looked = s.looked
         /\ [s EXCEPT !.end = n].end = n
BY DEF Suite

\* The cases of a request are numbered in the project of the suite they go to.
LEMMA NumberingType ==
  ASSUME TypeInv, NEW r \in Authors, pc[r] \in {"number", "flush", "commit"}
  PROVE  Numbering(r) \in Prefixes /\ Exists(at[r], Numbering(r), suites)
<1>1. PICK s \in suites : s.id = at[r]
  BY DEF TypeInv, Resolved
<1>2. s.project \in Prefixes
  BY <1>1 DEF TypeInv, TypeOK, Suite
<1> QED  BY <1>1, <1>2 DEF Numbering, Exists

LEMMA TypeStep ==
  ASSUME TypeInv, NEW r \in Authors, Step(r)
  PROVE  TypeInv'
<1>0. /\ TypeOK /\ Placed(r) /\ Resolved(r) /\ Holds(r)
      /\ req[r].kind \in Kinds /\ req[r].path \in Seq(Names) /\ req[r].items \in Nat
      /\ req[r].number \in Nat /\ req[r].content \in Content
      /\ (req[r].kind = "project" => req[r].project \in Prefixes)
      /\ (req[r].kind = "suite" => req[r].path # << >>)
      /\ Len(req[r].path) \in Nat
      /\ (\A k \in 1..Len(req[r].path) : req[r].path[k] \in Names)
      /\ (req[r].path # << >> => Len(req[r].path) # 0)
  BY RequestFacts, PathFacts DEF TypeInv
<1> USE DEF db, session, client
<1>1. CASE Begin(r)
  <2> USE DEF Begin, Goto
  <2>1. UNCHANGED <<projects, suites, versions, req, mine, depth, filed>> /\ pc[r] = "idle"
    BY <1>1
  <2>2. attempts' \in [Authors -> 0..MaxAttempts]
    BY <1>0, <1>1, DomainAssumption DEF TypeOK, Placed
  <2>3. CASE Unresolved(req[r])
    <3>1. TypeOK'
      BY <1>0, <1>1, <2>2, <2>3 DEF TypeOK, Final
    <3>2. Placed(r)' /\ Resolved(r)'
      BY <1>0, <1>1, <2>3 DEF TypeOK, Placed, Resolved, Final
    <3>3. Holds(r)'
      BY <1>0, <1>1, <2>3 DEF TypeOK, Holds, Final
    <3> QED  BY <2>1, <3>1, <3>2, <3>3, TypeFrame
  <2>4. CASE ~ Unresolved(req[r])
    <3>1. /\ pc' = [pc EXCEPT ![r] = Entry[req[r].kind]]
          /\ at' = [at EXCEPT ![r] = IF req[r].kind = "case" THEN req[r].parent ELSE None]
      BY <1>1, <2>4
    <3>2. /\ req[r].kind = "path" => req[r].project \in projects /\ req[r].path # << >>
          /\ req[r].kind = "suite" =>
               /\ req[r].project \in projects
               /\ req[r].parent = None \/ Exists(req[r].parent, req[r].project, suites)
          /\ req[r].kind = "case" => \E s \in suites : s.id = req[r].parent
          /\ req[r].kind = "version" =>
               \E v \in versions : v.project = req[r].project /\ v.number = req[r].number
      BY <2>4 DEF Unresolved, Exists, Ids, VersionsOf
    <3>3. /\ Entry[req[r].kind] \in PlacesOf[req[r].kind] \cap Working
          /\ Entry[req[r].kind] \notin {"idle", "failed", "flush", "commit"}
          /\ Entry[req[r].kind] = "insert" => req[r].kind = "suite"
          /\ Entry[req[r].kind] = "resolve" => req[r].kind = "path"
          /\ Entry[req[r].kind] = "number" => req[r].kind = "case"
          /\ req[r].kind = "version" => Entry[req[r].kind] = "load"
      BY <1>0 DEF Entry, PlacesOf, Kinds, Working
    <3>4. req[r].kind = "case" => req[r].parent \in Nat
      BY <1>0, <3>2 DEF TypeOK, Suite
    <3>5. at' \in [Authors -> Nat \cup {None}]
      BY <1>0, <3>1, <3>4 DEF TypeOK
    <3>6. TypeOK'
      BY <1>0, <1>1, <2>2, <3>1, <3>3, <3>5 DEF TypeOK
    <3>7. pc'[r] = Entry[req[r].kind]
      BY <1>0, <3>1 DEF TypeOK
    <3>8. Placed(r)'
      BY <2>1, <3>3, <3>7 DEF Placed
    <3>9. at'[r] = IF req[r].kind = "case" THEN req[r].parent ELSE None
      BY <1>0, <3>1 DEF TypeOK
    <3>10. depth[r] = 0 /\ filed[r] = 0 /\ mine[r] = {}
      BY <1>0, <2>1 DEF Holds
    <3>11. Resolved(r)'
      BY <1>0, <2>1, <3>2, <3>3, <3>7, <3>9, <3>10 DEF Resolved
    <3>12. Holds(r)'
      BY <2>1, <3>3, <3>7, <3>10 DEF Holds
    <3> QED  BY <2>1, <3>6, <3>8, <3>11, <3>12, TypeFrame
  <2> QED  BY <2>3, <2>4
<1>2. CASE FindPrefix(r)
  <2>1. req[r].kind = "project"
    BY <1>0, <1>2 DEF FindPrefix, Placed, PlacesOf, Kinds, Final
  <2>2. TypeOK'
    BY <1>0, <1>2 DEF FindPrefix, Goto, TypeOK, Working, Final
  <2>3. Placed(r)' /\ Resolved(r)'
    BY <1>0, <1>2, <2>1 DEF FindPrefix, Goto, TypeOK, Placed, PlacesOf, Resolved, Final
  <2>4. Holds(r)'
    BY <1>0, <1>2 DEF FindPrefix, Goto, TypeOK, Holds
  <2> QED  BY <1>2, <2>2, <2>3, <2>4, TypeFrame DEF FindPrefix
<1>3. CASE CreateProject(r)
  <2>1. req[r].project \in Prefixes
    BY <1>0, <1>3 DEF CreateProject
  <2>2. TypeOK'
    BY SMTT(20), <1>0, <1>3, <2>1 DEF CreateProject, Goto, TypeOK, Working
  <2>3. Placed(r)' /\ Resolved(r)'
    BY <1>0, <1>3 DEF CreateProject, Goto, TypeOK, Placed, Resolved, Final
  <2>4. Holds(r)'
    BY <1>0, <1>3 DEF CreateProject, Goto, TypeOK, Holds
  <2> QED  BY <1>3, <2>2, <2>3, <2>4, TypeFrame DEF CreateProject
<1>4. CASE LosePrefix(r)
  BY <1>0, <1>4, ClosedFrame DEF LosePrefix, TypeOK
<1>5. CASE CreateSuite(r)
  <2> DEFINE new == [id |-> nextSuite, project |-> req[r].project, parent |-> req[r].parent,
                     name |-> req[r].path[1], via |-> "suite", looked |-> commits,
                     end |-> commits + 1]
  <2>1. suites' = suites \cup {new}
    BY <1>5 DEF CreateSuite
  <2>2. req[r].kind = "suite" /\ pc[r] = "insert"
    BY <1>0, <1>5 DEF CreateSuite, Placed, PlacesOf, Kinds, Final
  <2>3. req[r].project \in projects /\ req[r].parent \in Nat \cup {None}
    BY <1>0, <2>2 DEF Resolved, Exists, TypeOK, Suite
  <2>4. 1 \in 1..Len(req[r].path)
    BY <1>0, <2>2
  <2>5. new \in Suite
    BY SMTT(20), <1>0, <2>3, <2>4 DEF TypeOK, Suite
  <2>6. new.project \in projects
    BY <2>3
  <2> HIDE DEF new
  <2>7. TypeOK'
    BY SMTT(20), <1>0, <1>5, <2>1, <2>5, <2>6 DEF CreateSuite, Goto, TypeOK, Working
  <2>8. Placed(r)' /\ Resolved(r)'
    BY <1>0, <1>5, <2>2 DEF CreateSuite, Goto, TypeOK, Placed, Resolved, Final
  <2>9. Holds(r)'
    BY <1>0, <1>5 DEF CreateSuite, Goto, TypeOK, Holds
  <2> QED  BY <1>5, <2>1, <2>7, <2>8, <2>9, TypeFrame DEF CreateSuite
<1>6. CASE Descend(r)
  <2> USE DEF Descend
  <2>1. /\ pc[r] = "resolve" /\ depth[r] < Len(req[r].path)
        /\ depth' = [depth EXCEPT ![r] = @ + 1]
        /\ UNCHANGED <<db, pc, mine, number, filed, read, looked, client>>
    BY <1>6
  <2>2. PICK s \in Matching(r, Part(r)) : at' = [at EXCEPT ![r] = s.id]
    BY <1>6
  <2>3. s \in suites \cup mine[r] /\ s.project = req[r].project /\ s \in Suite
    BY <1>0, <2>2 DEF Matching, TypeOK
  <2>4. s.id \in Nat
    BY <2>3 DEF Suite
  <2>5. TypeOK'
    BY SMTT(20), <1>0, <2>1, <2>2, <2>4 DEF TypeOK
  <2>6. Placed(r)'
    BY <1>0, <2>1 DEF Placed
  <2>7. Resolved(r)'
    BY <1>0, <2>1, <2>2, <2>3 DEF TypeOK, Resolved, Exists
  <2>8. Holds(r)'
    BY <1>0, <2>1 DEF TypeOK, Holds
  <2> QED  BY <2>1, <2>5, <2>6, <2>7, <2>8, TypeFrame
<1>7. CASE InsertPart(r)
  <2> DEFINE new == [id |-> nextSuite, project |-> req[r].project, parent |-> at[r],
                     name |-> Part(r), via |-> "path", looked |-> commits, end |-> 0]
  <2>1. /\ pc[r] = "resolve" /\ depth[r] < Len(req[r].path)
        /\ mine' = [mine EXCEPT ![r] = @ \cup {new}]
        /\ at' = [at EXCEPT ![r] = nextSuite]
        /\ nextSuite' = nextSuite + 1
        /\ depth' = [depth EXCEPT ![r] = @ + 1]
        /\ UNCHANGED <<projects, suites, cases, versions, counter, owner, commits, pc, number,
                       filed, read, looked, req, crashes, attempts>>
    BY <1>7 DEF InsertPart
  <2>2. req[r].kind = "path"
    BY <1>0, <2>1 DEF Placed, PlacesOf, Kinds, Final
  <2>3. req[r].project \in Prefixes
    BY <1>0, <2>1, <2>2 DEF Resolved, TypeOK
  <2>4. Part(r) \in Names
    <3>1. depth[r] \in Nat /\ depth[r] + 1 \in 1..Len(req[r].path)
      BY <1>0, <2>1 DEF TypeOK
    <3> QED  BY <1>0, <3>1 DEF Part
  <2>5. new \in Suite
    BY <1>0, <2>3, <2>4 DEF TypeOK, Suite
  <2>6. new.id = nextSuite /\ new.project = req[r].project
    OBVIOUS
  <2> HIDE DEF new
  <2>7. mine'[r] = mine[r] \cup {new} /\ mine' \in [Authors -> SUBSET Suite]
    BY <1>0, <2>1, <2>5 DEF TypeOK
  <2>8. TypeOK'
    BY SMTT(20), <1>0, <2>1, <2>7 DEF TypeOK
  <2>9. Placed(r)'
    BY <1>0, <2>1 DEF Placed
  <2>10. Resolved(r)'
    BY <1>0, <2>1, <2>6, <2>7 DEF TypeOK, Resolved, Exists
  <2>11. Holds(r)'
    BY <1>0, <2>1, <2>6, <2>7 DEF TypeOK, Holds
  <2> QED  BY <2>1, <2>8, <2>9, <2>10, <2>11, TypeFrame
<1>8. CASE Ambiguous(r)
  BY <1>0, <1>8, ClosedFrame DEF Ambiguous, TypeOK
<1>9. CASE CommitPath(r)
  <2> DEFINE Stamp(s) == [s EXCEPT !.end = commits + 1]
  <2>1. /\ pc[r] = "resolve" /\ depth[r] = Len(req[r].path)
        /\ suites' = suites \cup {Stamp(s) : s \in mine[r]}
        /\ mine' = [mine EXCEPT ![r] = {}]
        /\ commits' = commits + 1
        /\ pc' = [pc EXCEPT ![r] = IF req[r].items = 0 THEN "reply" ELSE "number"]
        /\ UNCHANGED <<projects, cases, versions, counter, owner, nextSuite, at, depth, number,
                       filed, read, looked, req, crashes, attempts>>
    BY <1>9 DEF CommitPath, Goto
  <2>2. req[r].kind = "path"
    BY <1>0, <2>1 DEF Placed, PlacesOf, Kinds, Final
  <2>3. req[r].project \in projects /\ req[r].path # << >>
    BY <1>0, <2>1, <2>2 DEF Resolved
  <2>4. commits + 1 \in Nat
    BY <1>0 DEF TypeOK
  <2>5. \A s \in mine[r] : /\ Stamp(s) \in Suite /\ Stamp(s).id = s.id
                           /\ Stamp(s).project = req[r].project
    <3>1. \A s \in mine[r] : s \in Suite /\ s.project = req[r].project
      BY <1>0 DEF TypeOK, Holds
    <3> QED  BY <2>4, <3>1, StampFacts
  <2> HIDE DEF Stamp
  <2>6. suites' \subseteq Suite /\ {s.project : s \in suites'} \subseteq projects
    BY <1>0, <2>1, <2>3, <2>5 DEF TypeOK
  <2>7. TypeOK'
    BY <1>0, <2>1, <2>4, <2>6 DEF TypeOK, Working
  <2>8. Placed(r)'
    BY <1>0, <2>1, <2>2 DEF TypeOK, Placed, PlacesOf
  <2>9. Exists(at[r], req[r].project, suites')
    <3>1. depth[r] # 0
      BY <1>0, <2>1, <2>3
    <3>2. Exists(at[r], req[r].project, suites \cup mine[r])
      BY <1>0, <2>1, <3>1 DEF Resolved
    <3> QED  BY <2>1, <2>5, <3>2 DEF Exists
  <2>10. Resolved(r)'
    BY <1>0, <2>1, <2>2, <2>3, <2>9 DEF TypeOK, Resolved, Exists
  <2>11. Holds(r)'
    BY <1>0, <2>1 DEF TypeOK, Holds
  <2> QED  BY <2>1, <2>7, <2>8, <2>10, <2>11, TypeFrame
<1>10. CASE RejectItem(r)
  BY <1>0, <1>10, ClosedFrame DEF RejectItem, TypeOK
<1>11. CASE BuildExternalId(r)
  <2>1. /\ pc[r] = "number" /\ number' = [number EXCEPT ![r] = counter[Numbering(r)] + 1]
        /\ pc' = [pc EXCEPT ![r] = "flush"]
        /\ UNCHANGED <<projects, suites, cases, versions, counter, owner, nextSuite, commits,
                       at, depth, mine, filed, read, looked, req, crashes, attempts>>
    BY <1>11 DEF BuildExternalId, Goto
  <2>2. Numbering(r) \in Prefixes
    BY <2>1, NumberingType
  <2>3. TypeOK'
    BY SMTT(20), <1>0, <2>1, <2>2 DEF TypeOK, Working
  <2>4. Placed(r)'
    <3>1. req[r].kind \in {"path", "case"}
      BY <1>0, <2>1 DEF Placed, PlacesOf, Kinds, Final
    <3> QED  BY <1>0, <2>1, <3>1 DEF TypeOK, Placed, PlacesOf
  <2>5. Resolved(r)' /\ Holds(r)'
    BY <1>0, <2>1 DEF TypeOK, Resolved, Holds
  <2> QED  BY <2>1, <2>3, <2>4, <2>5, TypeFrame
<1>12. CASE FlushCase(r)
  <2>1. /\ pc[r] = "flush" /\ owner' = [owner EXCEPT ![Numbering(r)] = r]
        /\ pc' = [pc EXCEPT ![r] = "commit"]
        /\ UNCHANGED <<projects, suites, cases, versions, counter, nextSuite, commits,
                       at, depth, mine, number, filed, read, looked, req, crashes, attempts>>
    BY <1>12 DEF FlushCase, Goto
  <2>2. TypeOK'
    BY <1>0, <2>1 DEF TypeOK, Working
  <2>3. Placed(r)'
    <3>1. req[r].kind \in {"path", "case"}
      BY <1>0, <2>1 DEF Placed, PlacesOf, Kinds, Final
    <3> QED  BY <1>0, <2>1, <3>1 DEF TypeOK, Placed, PlacesOf
  <2>4. Resolved(r)' /\ Holds(r)'
    BY <1>0, <2>1 DEF TypeOK, Resolved, Holds
  <2> QED  BY <2>1, <2>2, <2>3, <2>4, TypeFrame
<1>13. CASE LoseNumber(r)
  BY <1>0, <1>13, ClosedFrame DEF LoseNumber, TypeOK
<1>14. CASE CommitCase(r)
  <2>1. /\ pc[r] = "commit"
        /\ cases' = cases \cup {NewCase(r)}
        /\ versions' = versions \cup {FirstVersion(r)}
        /\ counter' = [counter EXCEPT ![Numbering(r)] = number[r]]
        /\ owner' = [owner EXCEPT ![Numbering(r)] = None]
        /\ commits' = commits + 1
        /\ filed' = [filed EXCEPT ![r] = @ + 1]
        /\ pc' = [pc EXCEPT ![r] = IF filed[r] + 1 = req[r].items THEN "reply" ELSE "number"]
        /\ UNCHANGED <<projects, suites, nextSuite, at, depth, mine, number, read, looked,
                       req, crashes, attempts>>
    BY <1>14 DEF CommitCase, NextItem, Goto
  <2>2. Numbering(r) \in Prefixes /\ at[r] \in Nat
    BY <1>0, <2>1, NumberingType DEF Resolved, TypeOK, Suite
  <2>3. attempts[r] \in Nat /\ filed[r] + 1 \in Nat /\ number[r] \in Nat /\ commits + 1 \in Nat
    BY <1>0, DomainAssumption DEF TypeOK
  <2>4. NewCase(r) \in Case
    BY <2>2, <2>3 DEF NewCase, Case
  <2>5. FirstVersion(r) \in Version
    BY <1>0, <2>2, <2>3 DEF FirstVersion, Version, TypeOK
  <2>6. TypeOK'
    BY <1>0, <2>1, <2>3, <2>4, <2>5 DEF TypeOK, Working
  <2>7. req[r].kind \in {"path", "case"}
    BY <1>0, <2>1 DEF Placed, PlacesOf, Kinds, Final
  <2>8. Placed(r)'
    BY <1>0, <2>1, <2>7 DEF TypeOK, Placed, PlacesOf
  <2>9. Resolved(r)' /\ Holds(r)'
    BY <1>0, <2>1, <2>7 DEF TypeOK, Resolved, Holds
  <2> QED  BY <2>1, <2>6, <2>8, <2>9, TypeFrame
<1>15. CASE LoadVersion(r)
  <2>1. /\ pc[r] = "load" /\ looked' = [looked EXCEPT ![r] = commits]
        /\ pc' = [pc EXCEPT ![r] = "write"]
        /\ UNCHANGED <<projects, suites, cases, versions, counter, owner, nextSuite, commits,
                       at, depth, mine, number, filed, req, crashes, attempts>>
    BY <1>15 DEF LoadVersion, Goto
  <2>2. PICK v \in Current(req[r].project, req[r].number) : read' = [read EXCEPT ![r] = v]
    BY <1>15 DEF LoadVersion
  <2>3. v \in versions /\ v.project = req[r].project /\ v.number = req[r].number
    BY DEF Current, VersionsOf
  <2>4. req[r].kind = "version"
    BY <1>0, <2>1 DEF Placed, PlacesOf, Kinds, Final
  <2>5. TypeOK'
    BY <1>0, <2>1, <2>2, <2>3 DEF TypeOK, Working
  <2>6. Placed(r)'
    BY <1>0, <2>1, <2>4 DEF TypeOK, Placed, PlacesOf
  <2>7. Resolved(r)' /\ Holds(r)'
    BY <1>0, <2>1, <2>2, <2>3, <2>4 DEF TypeOK, Resolved, Holds
  <2> QED  BY <2>1, <2>5, <2>6, <2>7, TypeFrame
<1>16. CASE CreateVersion(r)
  <2>1. /\ pc[r] = "write" /\ req[r].kind = "version"
        /\ versions' = versions \cup {NextVersion(r)}
        /\ commits' = commits + 1
        /\ pc' = [pc EXCEPT ![r] = "reply"]
        /\ UNCHANGED <<projects, suites, cases, counter, owner, nextSuite, at, depth, mine,
                       number, filed, read, looked, req, crashes, attempts>>
    BY <1>16 DEF CreateVersion, Goto
  <2>2. read[r] \in Version /\ read[r].project = req[r].project
    BY <1>0, <2>1 DEF Resolved, TypeOK
  <2>3. NextVersion(r) \in Version
    <3>1. /\ read[r].project \in Prefixes /\ read[r].version + 1 \in Nat
          /\ read[r].content \in Content
      BY <2>2 DEF Version
    <3>2. Merged(r) \in Content
      BY <1>0, <3>1 DEF Merged, Content
    <3>3. looked[r] \in Nat /\ commits + 1 \in Nat
      BY <1>0 DEF TypeOK
    <3> QED  BY <1>0, <2>2, <3>1, <3>2, <3>3 DEF NextVersion, Version
  <2>4. TypeOK'
    BY SMTT(20), <1>0, <2>1, <2>3 DEF TypeOK, Working
  <2>5. Placed(r)' /\ Resolved(r)'
    BY <1>0, <2>1 DEF TypeOK, Placed, Resolved
  <2>6. Holds(r)'
    BY <1>0, <2>1 DEF TypeOK, Holds
  <2> QED  BY <2>1, <2>4, <2>5, <2>6, TypeFrame
<1>17. CASE Reply(r)
  <2>1. TypeOK'
    BY <1>0, <1>17 DEF Reply, Goto, TypeOK, Final
  <2>2. Placed(r)' /\ Resolved(r)'
    BY <1>0, <1>17 DEF Reply, Goto, TypeOK, Placed, Resolved, Final
  <2>3. Holds(r)'
    BY <1>0, <1>17 DEF Reply, Goto, TypeOK, Holds
  <2> QED  BY <1>17, <2>1, <2>2, <2>3, TypeFrame DEF Reply
<1>18. CASE Crash(r)
  <2>1. crashes' \in 0..MaxCrashes
    BY <1>0, <1>18, DomainAssumption DEF Crash, TypeOK
  <2> QED  BY <1>18, <2>1, ClosedFrame DEF Crash
<1>19. CASE Retry(r)
  <2>1. TypeOK'
    BY <1>0, <1>19 DEF Retry, Goto, TypeOK
  <2>2. Placed(r)' /\ Resolved(r)'
    BY <1>0, <1>19 DEF Retry, Goto, TypeOK, Placed, Resolved
  <2>3. Holds(r)'
    BY <1>0, <1>19 DEF Retry, Goto, TypeOK, Holds
  <2> QED  BY <1>19, <2>1, <2>2, <2>3, TypeFrame DEF Retry
<1> QED  BY <1>1, <1>2, <1>3, <1>4, <1>5, <1>6, <1>7, <1>8, <1>9, <1>10, <1>11, <1>12, <1>13,
            <1>14, <1>15, <1>16, <1>17, <1>18, <1>19 DEF Step, Handle, WriteProject, FilePath,
            FileCase, EditCase

LEMMA TypeNext ==
  ASSUME TypeInv, [Next]_vars
  PROVE  TypeInv'
<1>1. CASE UNCHANGED vars
  BY <1>1 DEF vars, TypeInv, TypeOK, Placed, Resolved, Exists, Holds
<1>2. ASSUME NEW r \in Authors, Step(r) PROVE TypeInv'
  BY <1>2, TypeStep
<1> QED  BY <1>1, <1>2 DEF Next, Step

\* Every value the handlers keep stays in its domain, and no suite is of a project that is
\* not there.
THEOREM TypeCorrect == Spec => []TypeOK
<1>1. TypeInv => TypeOK
  BY DEF TypeInv
<1> QED  BY <1>1, TypeInit, TypeNext, PTL DEF Spec

-----------------------------------------------------------------------------
(***************************************************************************)
(* What a step may do                                                      *)
(***************************************************************************)

\* Tables only grow, by rows that carry the time of the commit.
LEMMA TablesGrow ==
  ASSUME TypeInv, NEW r \in Authors, Step(r)
  PROVE  /\ commits' \in {commits, commits + 1}
         /\ suites \subseteq suites' /\ cases \subseteq cases' /\ versions \subseteq versions'
         /\ nextSuite <= nextSuite'
<1>0. nextSuite \in Nat
  BY DEF TypeInv, TypeOK
<1> USE <1>0 DEF Rollback, db, session, client
<1>1. CASE Begin(r)
  BY <1>1 DEF Begin
<1>2. CASE FindPrefix(r)
  BY <1>2 DEF FindPrefix
<1>3. CASE CreateProject(r)
  BY <1>3 DEF CreateProject
<1>4. CASE LosePrefix(r)
  BY <1>4 DEF LosePrefix
<1>5. CASE CreateSuite(r)
  BY <1>5 DEF CreateSuite
<1>6. CASE Descend(r)
  BY <1>6 DEF Descend
<1>7. CASE InsertPart(r)
  BY <1>7 DEF InsertPart
<1>8. CASE Ambiguous(r)
  BY <1>8 DEF Ambiguous
<1>9. CASE CommitPath(r)
  BY <1>9 DEF CommitPath
<1>10. CASE RejectItem(r)
  BY <1>10 DEF RejectItem
<1>11. CASE BuildExternalId(r)
  BY <1>11 DEF BuildExternalId
<1>12. CASE FlushCase(r)
  BY <1>12 DEF FlushCase
<1>13. CASE LoseNumber(r)
  BY <1>13 DEF LoseNumber
<1>14. CASE CommitCase(r)
  BY <1>14 DEF CommitCase, NextItem
<1>15. CASE LoadVersion(r)
  BY <1>15 DEF LoadVersion
<1>16. CASE CreateVersion(r)
  BY <1>16 DEF CreateVersion
<1>17. CASE Reply(r)
  BY <1>17 DEF Reply
<1>18. CASE Crash(r)
  BY <1>18 DEF Crash
<1>19. CASE Retry(r)
  BY <1>19 DEF Retry
<1> QED  BY <1>1, <1>2, <1>3, <1>4, <1>5, <1>6, <1>7, <1>8, <1>9, <1>10, <1>11, <1>12, <1>13,
            <1>14, <1>15, <1>16, <1>17, <1>18, <1>19 DEF Step, Handle, WriteProject, FilePath,
            FileCase, EditCase

\* Suites are numbered by InsertPart and CreateSuite and committed by CommitPath and
\* CreateSuite; no other step touches them.
LEMMA SuitesChange ==
  ASSUME TypeInv, NEW r \in Authors, Step(r)
  PROVE  \/ UNCHANGED <<suites, nextSuite>> /\ mine'[r] \in {mine[r], {}}
         \/ CreateSuite(r) \/ InsertPart(r) \/ CommitPath(r)
<1>0. mine \in [Authors -> SUBSET Suite]
  BY DEF TypeInv, TypeOK
<1> USE <1>0 DEF Rollback, Close, db, session, client
<1>1. CASE Begin(r)
  BY <1>1 DEF Begin
<1>2. CASE FindPrefix(r)
  BY <1>2 DEF FindPrefix
<1>3. CASE CreateProject(r)
  BY <1>3 DEF CreateProject
<1>4. CASE LosePrefix(r)
  BY <1>4 DEF LosePrefix
<1>5. CASE CreateSuite(r)
  BY <1>5 DEF CreateSuite
<1>6. CASE Descend(r)
  BY <1>6 DEF Descend
<1>7. CASE InsertPart(r)
  BY <1>7 DEF InsertPart
<1>8. CASE Ambiguous(r)
  BY <1>8 DEF Ambiguous
<1>9. CASE CommitPath(r)
  BY <1>9 DEF CommitPath
<1>10. CASE RejectItem(r)
  BY <1>10 DEF RejectItem
<1>11. CASE BuildExternalId(r)
  BY <1>11 DEF BuildExternalId
<1>12. CASE FlushCase(r)
  BY <1>12 DEF FlushCase
<1>13. CASE LoseNumber(r)
  BY <1>13 DEF LoseNumber
<1>14. CASE CommitCase(r)
  BY <1>14 DEF CommitCase, NextItem
<1>15. CASE LoadVersion(r)
  BY <1>15 DEF LoadVersion
<1>16. CASE CreateVersion(r)
  BY <1>16 DEF CreateVersion
<1>17. CASE Reply(r)
  BY <1>17 DEF Reply
<1>18. CASE Crash(r)
  BY <1>18 DEF Crash
<1>19. CASE Retry(r)
  BY <1>19 DEF Retry
<1> QED  BY <1>1, <1>2, <1>3, <1>4, <1>5, <1>6, <1>7, <1>8, <1>9, <1>10, <1>11, <1>12, <1>13,
            <1>14, <1>15, <1>16, <1>17, <1>18, <1>19 DEF Step, Handle, WriteProject, FilePath,
            FileCase, EditCase

\* Cases, and with them the counter, are written by CommitCase only.
LEMMA CasesChange ==
  ASSUME NEW r \in Authors, Step(r)
  PROVE  UNCHANGED <<cases, counter>> \/ CommitCase(r)
<1> USE DEF Rollback, db, session, client
<1>1. CASE Begin(r)
  BY <1>1 DEF Begin
<1>2. CASE FindPrefix(r)
  BY <1>2 DEF FindPrefix
<1>3. CASE CreateProject(r)
  BY <1>3 DEF CreateProject
<1>4. CASE LosePrefix(r)
  BY <1>4 DEF LosePrefix
<1>5. CASE CreateSuite(r)
  BY <1>5 DEF CreateSuite
<1>6. CASE Descend(r)
  BY <1>6 DEF Descend
<1>7. CASE InsertPart(r)
  BY <1>7 DEF InsertPart
<1>8. CASE Ambiguous(r)
  BY <1>8 DEF Ambiguous
<1>9. CASE CommitPath(r)
  BY <1>9 DEF CommitPath
<1>10. CASE RejectItem(r)
  BY <1>10 DEF RejectItem
<1>11. CASE BuildExternalId(r)
  BY <1>11 DEF BuildExternalId
<1>12. CASE FlushCase(r)
  BY <1>12 DEF FlushCase
<1>13. CASE LoseNumber(r)
  BY <1>13 DEF LoseNumber
<1>14. CASE CommitCase(r)
  BY <1>14 DEF CommitCase, NextItem
<1>15. CASE LoadVersion(r)
  BY <1>15 DEF LoadVersion
<1>16. CASE CreateVersion(r)
  BY <1>16 DEF CreateVersion
<1>17. CASE Reply(r)
  BY <1>17 DEF Reply
<1>18. CASE Crash(r)
  BY <1>18 DEF Crash
<1>19. CASE Retry(r)
  BY <1>19 DEF Retry
<1> QED  BY <1>1, <1>2, <1>3, <1>4, <1>5, <1>6, <1>7, <1>8, <1>9, <1>10, <1>11, <1>12, <1>13,
            <1>14, <1>15, <1>16, <1>17, <1>18, <1>19 DEF Step, Handle, WriteProject, FilePath,
            FileCase, EditCase

\* Versions are written by CommitCase, the first, and CreateVersion, all others.
LEMMA VersionsChange ==
  ASSUME NEW r \in Authors, Step(r)
  PROVE  UNCHANGED versions \/ CommitCase(r) \/ CreateVersion(r)
<1> USE DEF Rollback, db, session, client
<1>1. CASE Begin(r)
  BY <1>1 DEF Begin
<1>2. CASE FindPrefix(r)
  BY <1>2 DEF FindPrefix
<1>3. CASE CreateProject(r)
  BY <1>3 DEF CreateProject
<1>4. CASE LosePrefix(r)
  BY <1>4 DEF LosePrefix
<1>5. CASE CreateSuite(r)
  BY <1>5 DEF CreateSuite
<1>6. CASE Descend(r)
  BY <1>6 DEF Descend
<1>7. CASE InsertPart(r)
  BY <1>7 DEF InsertPart
<1>8. CASE Ambiguous(r)
  BY <1>8 DEF Ambiguous
<1>9. CASE CommitPath(r)
  BY <1>9 DEF CommitPath
<1>10. CASE RejectItem(r)
  BY <1>10 DEF RejectItem
<1>11. CASE BuildExternalId(r)
  BY <1>11 DEF BuildExternalId
<1>12. CASE FlushCase(r)
  BY <1>12 DEF FlushCase
<1>13. CASE LoseNumber(r)
  BY <1>13 DEF LoseNumber
<1>14. CASE CommitCase(r)
  BY <1>14 DEF CommitCase, NextItem
<1>15. CASE LoadVersion(r)
  BY <1>15 DEF LoadVersion
<1>16. CASE CreateVersion(r)
  BY <1>16 DEF CreateVersion
<1>17. CASE Reply(r)
  BY <1>17 DEF Reply
<1>18. CASE Crash(r)
  BY <1>18 DEF Crash
<1>19. CASE Retry(r)
  BY <1>19 DEF Retry
<1> QED  BY <1>1, <1>2, <1>3, <1>4, <1>5, <1>6, <1>7, <1>8, <1>9, <1>10, <1>11, <1>12, <1>13,
            <1>14, <1>15, <1>16, <1>17, <1>18, <1>19 DEF Step, Handle, WriteProject, FilePath,
            FileCase, EditCase

-----------------------------------------------------------------------------
(***************************************************************************)
(* Suites: their ids, and the paths they split                             *)
(***************************************************************************)

Alike(s, t) == s.project = t.project /\ s.parent = t.parent /\ s.name = t.name

\* An uncommitted suite has an id of its own; its request has no other for that place, and
\* one that is committed for it has been since this one was looked for.
Inserted(r, s) ==
  /\ s.id < nextSuite /\ s.looked <= commits /\ s.via = "path"
  /\ \A t \in suites : s.id # t.id /\ (Alike(s, t) => s.looked < t.end)
  /\ \A t \in mine[r] : s.id = t.id \/ Alike(s, t) => s = t
  /\ \A q \in Authors : q # r => \A t \in mine[q] : s.id # t.id

SuiteInv ==
  /\ \A s \in suites : s.id < nextSuite /\ s.end <= commits
  /\ \A s, t \in suites : s.id = t.id => s = t
  /\ PathSplitsNeedARace
  /\ \A r \in Authors : \A s \in mine[r] : Inserted(r, s)

LEMMA SuiteInit == Init => SuiteInv
BY DEF Init, FirstSuite, SuiteInv, PathSplitsNeedARace

LEMMA SuiteStep ==
  ASSUME TypeInv, TypeInv', SuiteInv, NEW r \in Authors, Step(r)
  PROVE  SuiteInv'
<1>0. /\ nextSuite \in Nat /\ commits \in Nat /\ suites \subseteq Suite
      /\ mine \in [Authors -> SUBSET Suite] /\ mine'[r] \subseteq Suite
      /\ commits' \in {commits, commits + 1}
      /\ \A q \in Authors : q # r => mine'[q] = mine[q]
  BY TablesGrow, OthersStay DEF TypeInv, TypeOK
<1>1. \A s \in Suite : s.id \in Nat /\ s.end \in Nat /\ s.looked \in Nat
  BY DEF Suite
<1>2. CASE UNCHANGED <<suites, nextSuite>> /\ mine'[r] \in {mine[r], {}}
  <2>1. \A q \in Authors : mine'[q] \subseteq mine[q]
    BY <1>0, <1>2
  <2>2. \A s \in suites' : s.id < nextSuite' /\ s.end <= commits'
    BY <1>0, <1>1, <1>2 DEF SuiteInv
  <2>3. ASSUME NEW q \in Authors, NEW s \in mine'[q] PROVE Inserted(q, s)'
    <3>1. Inserted(q, s) /\ s \in Suite
      BY <1>0, <2>1, <2>3 DEF SuiteInv
    <3> QED  BY <1>0, <1>1, <1>2, <2>1, <3>1 DEF Inserted
  <2> QED  BY <1>2, <2>2, <2>3 DEF SuiteInv, PathSplitsNeedARace
<1>3. CASE CreateSuite(r)
  <2> DEFINE new == [id |-> nextSuite, project |-> req[r].project, parent |-> req[r].parent,
                     name |-> req[r].path[1], via |-> "suite", looked |-> commits,
                     end |-> commits + 1]
  <2>1. /\ suites' = suites \cup {new} /\ nextSuite' = nextSuite + 1
        /\ commits' = commits + 1 /\ mine' = mine
    BY <1>3 DEF CreateSuite, session
  <2>2. new.id = nextSuite /\ new.end = commits + 1 /\ new.via = "suite"
    OBVIOUS
  <2> HIDE DEF new
  <2>3. \A s \in suites : s.id < nextSuite /\ s.end <= commits /\ s.id \in Nat /\ s.end \in Nat
    BY <1>0, <1>1 DEF SuiteInv
  <2>4. \A s \in suites' : s.id < nextSuite' /\ s.end <= commits'
    BY <1>0, <2>1, <2>2, <2>3
  <2>5. \A s, t \in suites' : s.id = t.id => s = t
    BY <1>0, <2>1, <2>2, <2>3 DEF SuiteInv
  <2>6. PathSplitsNeedARace'
    BY <1>0, <2>1, <2>2, <2>3 DEF SuiteInv, PathSplitsNeedARace
  <2>7. ASSUME NEW q \in Authors, NEW s \in mine'[q] PROVE Inserted(q, s)'
    <3>1. Inserted(q, s) /\ s.id \in Nat /\ s.looked \in Nat
      BY <1>0, <1>1, <2>1 DEF SuiteInv
    <3>2. s.id # new.id /\ s.looked < new.end
      BY <1>0, <2>2, <3>1 DEF Inserted
    <3> QED  BY <1>0, <2>1, <3>1, <3>2 DEF Inserted
  <2> QED  BY <2>4, <2>5, <2>6, <2>7 DEF SuiteInv
<1>4. CASE InsertPart(r)
  <2> DEFINE new == [id |-> nextSuite, project |-> req[r].project, parent |-> at[r],
                     name |-> Part(r), via |-> "path", looked |-> commits, end |-> 0]
  <2>1. /\ Matching(r, Part(r)) = {} /\ mine' = [mine EXCEPT ![r] = @ \cup {new}]
        /\ nextSuite' = nextSuite + 1 /\ UNCHANGED <<suites, commits>>
    BY <1>4 DEF InsertPart
  <2>2. /\ new.id = nextSuite /\ new.looked = commits /\ new.via = "path"
        /\ \A t \in suites \cup mine[r] : ~ Alike(new, t)
    BY <2>1 DEF Matching, Alike
  <2> HIDE DEF new
  <2>3. mine'[r] = mine[r] \cup {new}
    BY <1>0, <2>1
  <2>4. /\ \A s \in suites : s.id < nextSuite /\ s.id \in Nat
        /\ \A q \in Authors : \A s \in mine[q] : /\ Inserted(q, s) /\ s.id < nextSuite
                                                 /\ s.id \in Nat /\ s.looked \in Nat
    BY <1>0, <1>1 DEF SuiteInv, Inserted
  <2>5. ASSUME NEW q \in Authors, NEW s \in mine'[q] PROVE Inserted(q, s)'
    <3>1. CASE s \in mine[q]
      <4>1. /\ Inserted(q, s) /\ s.id # new.id /\ s.id < nextSuite'
        BY <1>0, <2>1, <2>2, <2>4, <3>1
      <4>2. q = r => ~ Alike(s, new)
        BY <2>2, <3>1 DEF Alike
      <4>3. \A t \in mine'[q] : s.id = t.id \/ Alike(s, t) => s = t
        BY <1>0, <2>3, <4>1, <4>2 DEF Inserted
      <4>4. \A p \in Authors : p # q => \A t \in mine'[p] : s.id # t.id
        BY <1>0, <2>3, <4>1 DEF Inserted
      <4> QED  BY <2>1, <4>1, <4>3, <4>4 DEF Inserted
    <3>2. CASE s \notin mine[q]
      <4>1. q = r /\ s = new
        BY <1>0, <2>3, <2>5, <3>2
      <4>2. \A t \in mine'[r] : new.id = t.id \/ Alike(new, t) => new = t
        BY <1>0, <2>2, <2>3, <2>4
      <4>3. \A p \in Authors : p # r => \A t \in mine'[p] : new.id # t.id
        BY <1>0, <2>2, <2>4
      <4>4. \A t \in suites : new.id # t.id /\ ~ Alike(new, t)
        BY <1>0, <2>2, <2>4
      <4> QED  BY <1>0, <2>1, <2>2, <4>1, <4>2, <4>3, <4>4 DEF Inserted
    <3> QED  BY <3>1, <3>2
  <2>6. \A s \in suites' : s.id < nextSuite' /\ s.end <= commits'
    BY <1>0, <1>1, <2>1 DEF SuiteInv
  <2> QED  BY <2>1, <2>5, <2>6 DEF SuiteInv, PathSplitsNeedARace
<1>5. CASE CommitPath(r)
  <2> DEFINE Stamp(s) == [s EXCEPT !.end = commits + 1]
  <2>1. /\ suites' = suites \cup {Stamp(s) : s \in mine[r]}
        /\ mine' = [mine EXCEPT ![r] = {}]
        /\ commits' = commits + 1 /\ UNCHANGED nextSuite
    BY <1>5 DEF CommitPath
  <2>2. \A s \in mine[r] : /\ Stamp(s).id = s.id /\ Stamp(s).end = commits + 1
                           /\ Stamp(s).project = s.project /\ Stamp(s).parent = s.parent
                           /\ Stamp(s).name = s.name /\ Stamp(s).via = s.via
                           /\ Stamp(s).looked = s.looked
    <3>1. \A s \in mine[r] : s \in Suite
      BY <1>0
    <3> QED  BY <1>0, <3>1, StampFacts
  <2> HIDE DEF Stamp
  <2>3. /\ \A s \in suites : s.id \in Nat /\ s.end \in Nat /\ s.id < nextSuite /\ s.end <= commits
        /\ \A q \in Authors : \A s \in mine[q] : /\ Inserted(q, s) /\ s.id < nextSuite
                                                 /\ s.id \in Nat /\ s.looked \in Nat
                                                 /\ s.looked <= commits
    BY <1>0, <1>1 DEF SuiteInv, Inserted
  <2>4. \A s \in suites' : s.id < nextSuite' /\ s.end <= commits'
    BY <1>0, <2>1, <2>2, <2>3
  <2>5. ASSUME NEW s \in suites', NEW t \in suites' PROVE s.id = t.id => s = t
    BY <2>1, <2>2, <2>3 DEF SuiteInv, Inserted
  <2>6. ASSUME NEW s \in suites', NEW t \in suites', Alike(s, t), s.id < t.id, s.end <= t.end
        PROVE  t.via = "suite" \/ t.looked < s.end
    <3>1. CASE t \in suites
      <4>1. s \in suites
        BY <1>0, <2>1, <2>2, <2>3, <2>6, <3>1
      <4> QED  BY <2>6, <3>1, <4>1 DEF SuiteInv, PathSplitsNeedARace, Alike
    <3>2. CASE t \notin suites
      <4>1. PICK y \in mine[r] : t = Stamp(y)
        BY <2>1, <2>6, <3>2
      <4>2. Inserted(r, y) /\ t.looked = y.looked /\ t.id = y.id
        BY <2>2, <2>3, <4>1
      <4>3. CASE s \in suites
        <5>1. Alike(y, s)
          BY <2>2, <2>6, <4>1 DEF Alike
        <5> QED  BY <4>2, <4>3, <5>1 DEF Inserted
      <4>4. CASE s \notin suites
        <5>1. PICK x \in mine[r] : s = Stamp(x)
          BY <2>1, <2>6, <4>4
        <5>2. Alike(y, x) /\ s.id = x.id /\ x.id \in Nat
          BY <2>2, <2>3, <2>6, <4>1, <5>1 DEF Alike
        <5>3. y = x
          BY <4>2, <5>2 DEF Inserted
        <5> QED  BY <2>6, <4>2, <5>2, <5>3
      <4> QED  BY <4>3, <4>4
    <3> QED  BY <3>1, <3>2
  <2>7. PathSplitsNeedARace'
    BY <2>6 DEF PathSplitsNeedARace, Alike
  <2>8. ASSUME NEW q \in Authors, NEW s \in mine'[q] PROVE Inserted(q, s)'
    <3>1. q # r /\ s \in mine[q] /\ Inserted(q, s)
      BY <1>0, <2>1, <2>3, <2>8
    <3>2. ASSUME NEW t \in suites' PROVE s.id # t.id /\ (Alike(s, t) => s.looked < t.end)
      <4>1. CASE t \in suites
        BY <3>1, <4>1 DEF Inserted
      <4>2. CASE t \notin suites
        <5>1. PICK y \in mine[r] : t = Stamp(y)
          BY <2>1, <3>2, <4>2
        <5>2. t.id = y.id /\ t.end = commits + 1
          BY <2>2, <5>1
        <5>3. s.id # y.id
          BY <3>1 DEF Inserted
        <5> QED  BY <1>0, <2>3, <3>1, <5>2, <5>3
      <4> QED  BY <4>1, <4>2
    <3>3. \A t \in mine'[q] : s.id = t.id \/ Alike(s, t) => s = t
      BY <1>0, <3>1 DEF Inserted
    <3>4. \A p \in Authors : p # q => \A t \in mine'[p] : s.id # t.id
      <4>1. \A p \in Authors : mine'[p] \subseteq mine[p]
        BY <1>0, <2>1
      <4> QED  BY <3>1, <4>1 DEF Inserted
    <3>5. s.id < nextSuite' /\ s.looked <= commits' /\ s.via = "path"
      BY <1>0, <2>1, <2>3, <3>1 DEF Inserted
    <3> QED  BY <3>2, <3>3, <3>4, <3>5 DEF Inserted
  <2> QED  BY <2>4, <2>5, <2>7, <2>8 DEF SuiteInv
<1> QED  BY <1>2, <1>3, <1>4, <1>5, SuitesChange

LEMMA SuiteNext ==
  ASSUME TypeInv, TypeInv', SuiteInv, [Next]_vars
  PROVE  SuiteInv'
<1>1. CASE UNCHANGED vars
  BY <1>1 DEF vars, SuiteInv, PathSplitsNeedARace, Inserted
<1>2. ASSUME NEW r \in Authors, Step(r) PROVE SuiteInv'
  BY <1>2, SuiteStep
<1> QED  BY <1>1, <1>2 DEF Next, Step

\* What is always true of types and suites.
LEMMA SuitesAlways == Spec => [](TypeInv /\ SuiteInv)
<1>1. Init => TypeInv /\ SuiteInv
  BY TypeInit, SuiteInit
<1>2. TypeInv /\ SuiteInv /\ [Next]_vars => (TypeInv /\ SuiteInv)'
  BY TypeNext, SuiteNext
<1> QED  BY <1>1, <1>2, PTL DEF Spec

\* A path names two suites only if their creators raced: find_or_create_path looks for each
\* part, its own inserts included, and inserts it when there is none.
THEOREM PathSplitsNeedARaceHolds == Spec => []PathSplitsNeedARace
<1>1. TypeInv /\ SuiteInv => PathSplitsNeedARace
  BY DEF SuiteInv
<1> QED  BY <1>1, SuitesAlways, PTL

-----------------------------------------------------------------------------
(***************************************************************************)
(* Cases and their numbers                                                 *)
(***************************************************************************)

\* Where suites have ids of their own, the id determines the project.
LEMMA ProjectOfId ==
  ASSUME NEW ss, NEW s \in ss, \A a, b \in ss : a.id = b.id => a = b, s.project \in Prefixes
  PROVE  (CHOOSE p \in Prefixes : \E t \in ss : t.id = s.id /\ t.project = p) = s.project
OBVIOUS

\* The project a request numbers its cases in stays the same as long as its suite does.
LEMMA NumberingStays ==
  ASSUME TypeInv, TypeInv', SuiteInv, SuiteInv', suites \subseteq suites', NEW r \in Authors,
         pc[r] \in {"number", "flush", "commit"}, at'[r] = at[r]
  PROVE  Numbering(r)' = Numbering(r)
<1>1. PICK s \in suites : s.id = at[r]
  BY DEF TypeInv, Resolved
<1>2. s.project \in Prefixes /\ s \in suites'
  BY <1>1 DEF TypeInv, TypeOK, Suite
<1>3. Numbering(r) = s.project
  BY <1>1, <1>2, ProjectOfId DEF Numbering, SuiteInv
<1>4. Numbering(r)' = s.project
  <2>1. \A a, b \in suites' : a.id = b.id => a = b
    BY DEF SuiteInv
  <2>2. Numbering(r)' = CHOOSE p \in Prefixes : \E t \in suites' : t.id = s.id /\ t.project = p
    BY <1>1 DEF Numbering
  <2> QED  BY <1>2, <2>1, <2>2, ProjectOfId
<1> QED  BY <1>3, <1>4

\* The cases of project p have the numbers 1 to counter[p], one each.
Dense(p) ==
  /\ \A c \in cases : c.project = p => c.number \in 1..counter[p]
  /\ \A n \in 1..counter[p] : \E c \in cases : c.project = p /\ c.number = n
  /\ \A c, d \in cases : c.project = p /\ d.project = p /\ c.number = d.number => c = d

\* A number that has been built is at most one ahead of the counter, which only grows; and
\* whoever has written one, as nobody had it, holds the row until it is the counter.
Numbered(r) ==
  /\ pc[r] = "flush" => number[r] \in 1..(counter[Numbering(r)] + 1)
  /\ pc[r] = "commit" => /\ number[r] = counter[Numbering(r)] + 1
                         /\ owner[Numbering(r)] = r

NumberInv ==
  /\ \A p \in Prefixes : Dense(p)
  /\ \A r \in Authors : Numbered(r)

LEMMA NumberInit == Init => NumberInv
<1> SUFFICES ASSUME Init PROVE NumberInv
  OBVIOUS
<1>1. PICK k \in 0..Stock :
        /\ counter = [p \in Prefixes |-> IF p = Home THEN k ELSE 0]
        /\ cases = {[project |-> Home, number |-> n, suite |-> 1, by |-> None, attempt |-> 0,
                     item |-> 1] : n \in 1..k}
  BY DEF Init
<1>2. ASSUME NEW p \in Prefixes PROVE Dense(p)
  <2>1. CASE p = Home
    <3>1. \A c \in cases : c.number \in 1..counter[p]
      BY <1>1, <2>1
    <3>2. ASSUME NEW n \in 1..counter[p] PROVE \E c \in cases : c.project = p /\ c.number = n
      <4> DEFINE case == [project |-> Home, number |-> n, suite |-> 1, by |-> None,
                          attempt |-> 0, item |-> 1]
      <4>1. case \in cases
        BY <1>1, <2>1
      <4> QED  BY <2>1, <4>1
    <3>3. \A c, d \in cases : c.number = d.number => c = d
      BY <1>1
    <3> QED  BY <3>1, <3>2, <3>3 DEF Dense
  <2>2. CASE p # Home
    <3>1. \A c \in cases : c.project # p
      BY <1>1, <2>2
    <3>2. counter[p] = 0
      BY <1>1, <2>2
    <3> QED  BY <3>1, <3>2 DEF Dense
  <2> QED  BY <2>1, <2>2
<1> QED  BY <1>2 DEF Init, NumberInv, Numbered

\* Nothing is numbered, and no row the others hold is given up.
LEMMA NumberFrame ==
  ASSUME TypeInv, TypeInv', SuiteInv, SuiteInv', NumberInv, NEW r \in Authors, Step(r),
         UNCHANGED <<cases, counter>>, Numbered(r)',
         \A p \in Prefixes : owner[p] \in Authors \ {r} => owner'[p] = owner[p]
  PROVE  NumberInv'
<1>1. ASSUME NEW q \in Authors, q # r PROVE Numbered(q)'
  <2>1. pc'[q] = pc[q] /\ number'[q] = number[q] /\ at'[q] = at[q] /\ suites \subseteq suites'
    BY <1>1, OthersStay, TablesGrow DEF TypeInv
  <2>2. CASE pc[q] \in {"flush", "commit"}
    <3>1. Numbering(q)' = Numbering(q) /\ Numbering(q) \in Prefixes
      BY <2>1, <2>2, NumberingStays, NumberingType
    <3> QED  BY <1>1, <2>1, <3>1 DEF NumberInv, Numbered
  <2>3. CASE pc[q] \notin {"flush", "commit"}
    BY <2>1, <2>3 DEF Numbered
  <2> QED  BY <2>2, <2>3
<1>2. \A p \in Prefixes : Dense(p)'
  BY DEF NumberInv, Dense
<1> QED  BY <1>1, <1>2 DEF NumberInv

\* Only the requests that file a case number it and lock the project's row.
LEMMA Quiet ==
  ASSUME TypeInv, NEW r \in Authors, Step(r),
         ~ (BuildExternalId(r) \/ FlushCase(r) \/ CommitCase(r))
  PROVE  /\ pc'[r] \notin {"flush", "commit"}
         /\ \A p \in Prefixes : owner[p] \in Authors \ {r} => owner'[p] = owner[p]
<1>0. /\ pc \in [Authors -> {"idle"} \cup Working \cup Final] /\ req[r].kind \in Kinds
      /\ \A p \in Prefixes : owner[p] = owner[p]
  BY RequestFacts DEF TypeInv, TypeOK
<1> USE <1>0 DEF Rollback, Close, Goto, Entry, Kinds, db, session, client
<1>1. CASE Begin(r)
  BY <1>1 DEF Begin
<1>2. CASE FindPrefix(r)
  BY <1>2 DEF FindPrefix
<1>3. CASE CreateProject(r)
  BY <1>3 DEF CreateProject
<1>4. CASE LosePrefix(r)
  BY <1>4 DEF LosePrefix
<1>5. CASE CreateSuite(r)
  BY <1>5 DEF CreateSuite
<1>6. CASE Descend(r)
  BY <1>6 DEF Descend
<1>7. CASE InsertPart(r)
  BY <1>7 DEF InsertPart
<1>8. CASE Ambiguous(r)
  BY <1>8 DEF Ambiguous
<1>9. CASE CommitPath(r)
  BY <1>9 DEF CommitPath
<1>10. CASE RejectItem(r)
  BY <1>10 DEF RejectItem
<1>11. CASE BuildExternalId(r)
  BY <1>11 DEF BuildExternalId
<1>12. CASE FlushCase(r)
  BY <1>12 DEF FlushCase
<1>13. CASE LoseNumber(r)
  BY <1>13 DEF LoseNumber
<1>14. CASE CommitCase(r)
  BY <1>14 DEF CommitCase, NextItem
<1>15. CASE LoadVersion(r)
  BY <1>15 DEF LoadVersion
<1>16. CASE CreateVersion(r)
  BY <1>16 DEF CreateVersion
<1>17. CASE Reply(r)
  BY <1>17 DEF Reply
<1>18. CASE Crash(r)
  BY <1>18 DEF Crash
<1>19. CASE Retry(r)
  BY <1>19 DEF Retry
<1> QED  BY <1>1, <1>2, <1>3, <1>4, <1>5, <1>6, <1>7, <1>8, <1>9, <1>10, <1>11, <1>12, <1>13,
            <1>14, <1>15, <1>16, <1>17, <1>18, <1>19 DEF Step, Handle, WriteProject, FilePath,
            FileCase, EditCase

LEMMA NumberStep ==
  ASSUME TypeInv, TypeInv', SuiteInv, SuiteInv', NumberInv, NEW r \in Authors, Step(r)
  PROVE  NumberInv'
<1>0. /\ counter \in [Prefixes -> Nat] /\ owner \in [Prefixes -> Authors \cup {None}]
      /\ number \in [Authors -> Nat] /\ None \notin Authors /\ cases \subseteq Case
      /\ pc \in [Authors -> {"idle"} \cup Working \cup Final] /\ suites \subseteq suites'
      /\ at \in [Authors -> Nat \cup {None}]
  BY DomainAssumption, TablesGrow DEF TypeInv, TypeOK
<1>1. CASE BuildExternalId(r)
  <2>1. /\ pc[r] = "number" /\ number' = [number EXCEPT ![r] = counter[Numbering(r)] + 1]
        /\ pc' = [pc EXCEPT ![r] = "flush"]
        /\ UNCHANGED <<cases, counter, owner, at>>
    BY <1>1 DEF BuildExternalId, Goto, db
  <2>2. Numbering(r)' = Numbering(r) /\ Numbering(r) \in Prefixes
    BY <1>0, <2>1, NumberingStays, NumberingType
  <2>3. Numbered(r)'
    BY <1>0, <2>1, <2>2 DEF Numbered
  <2> QED  BY <2>1, <2>3, NumberFrame
<1>2. CASE FlushCase(r)
  <2>1. /\ pc[r] = "flush" /\ owner[Numbering(r)] = None
        /\ ~ \E c \in cases : c.project = Numbering(r) /\ c.number = number[r]
        /\ owner' = [owner EXCEPT ![Numbering(r)] = r]
        /\ pc' = [pc EXCEPT ![r] = "commit"]
        /\ UNCHANGED <<cases, counter, at, number>>
    BY <1>2 DEF FlushCase, Goto, session
  <2>2. Numbering(r)' = Numbering(r) /\ Numbering(r) \in Prefixes
    BY <1>0, <2>1, NumberingStays, NumberingType
  <2>3. number[r] \in 1..(counter[Numbering(r)] + 1) /\ Dense(Numbering(r))
    BY <2>1, <2>2 DEF NumberInv, Numbered
  <2>4. number[r] \notin 1..counter[Numbering(r)]
    BY <2>1, <2>3 DEF Dense
  <2>5. number[r] = counter[Numbering(r)] + 1
    BY <1>0, <2>2, <2>3, <2>4
  <2>6. Numbered(r)'
    BY <1>0, <2>1, <2>2, <2>5 DEF Numbered
  <2>7. \A p \in Prefixes : owner[p] \in Authors \ {r} => owner'[p] = owner[p]
    BY <1>0, <2>1
  <2> QED  BY <2>1, <2>6, <2>7, NumberFrame
<1>3. CASE CommitCase(r)
  <2>0. PICK p \in Prefixes : p = Numbering(r)
    <3>1. pc[r] = "commit"
      BY <1>3 DEF CommitCase, NextItem
    <3> QED  BY <3>1, NumberingType
  <2>1. /\ pc[r] = "commit"
        /\ cases' = cases \cup {NewCase(r)}
        /\ counter' = [counter EXCEPT ![p] = number[r]]
        /\ owner' = [owner EXCEPT ![p] = None]
        /\ pc'[r] \in {"reply", "number"}
    BY <1>0, <1>3, <2>0 DEF CommitCase, NextItem, Goto
  <2>2. /\ p \in Prefixes /\ number[r] = counter[p] + 1 /\ owner[p] = r /\ counter[p] \in Nat
    BY <1>0, <2>0, <2>1 DEF NumberInv, Numbered
  <2>3. NewCase(r).project = p /\ NewCase(r).number = counter[p] + 1
    BY <2>0, <2>2 DEF NewCase
  <2>4. NewCase(r) \in Case
    BY <2>1 DEF TypeInv, TypeOK
  <2>5. ASSUME NEW q \in Authors, q # r PROVE Numbered(q)'
    <3>1. pc'[q] = pc[q] /\ number'[q] = number[q] /\ at'[q] = at[q]
      BY <2>5, OthersStay DEF TypeInv
    <3>2. CASE pc[q] \in {"flush", "commit"}
      <4>1. Numbering(q)' = Numbering(q) /\ Numbering(q) \in Prefixes /\ Numbered(q)
        BY <1>0, <3>1, <3>2, NumberingStays, NumberingType DEF NumberInv
      <4>2. CASE Numbering(q) = p
        <5>1. pc[q] = "flush"
          BY <2>2, <2>5, <3>2, <4>1, <4>2 DEF Numbered
        <5>2. counter'[p] = counter[p] + 1
          BY <1>0, <2>1, <2>2
        <5> QED  BY <1>0, <2>2, <3>1, <4>1, <4>2, <5>1, <5>2 DEF Numbered
      <4>3. CASE Numbering(q) # p
        <5>1. counter'[Numbering(q)] = counter[Numbering(q)]
              /\ owner'[Numbering(q)] = owner[Numbering(q)]
          BY <1>0, <2>1, <4>1, <4>3
        <5> QED  BY <3>1, <4>1, <5>1 DEF Numbered
      <4> QED  BY <4>2, <4>3
    <3>3. CASE pc[q] \notin {"flush", "commit"}
      BY <3>1, <3>3 DEF Numbered
    <3> QED  BY <3>2, <3>3
  <2>6. Numbered(r)'
    BY <2>1 DEF Numbered
  <2>7. Dense(p)'
    <3>0. PICK new \in Case : new = NewCase(r)
      BY <2>4
    <3>1. Dense(p) /\ cases' = cases \cup {new} /\ counter'[p] = counter[p] + 1
      BY <1>0, <2>1, <2>2, <3>0 DEF NumberInv
    <3>2. new.project = p /\ new.number = counter[p] + 1
      BY <2>3, <3>0
    <3>3. /\ \A c \in cases' : c.project = p => c.number \in 1..(counter[p] + 1)
          /\ \A m \in 1..(counter[p] + 1) : \E c \in cases' : c.project = p /\ c.number = m
          /\ \A c, d \in cases' : c.project = p /\ d.project = p /\ c.number = d.number => c = d
      <4>1. PICK cs \in SUBSET Case, n \in Nat : cs = cases /\ n = counter[p]
        BY <1>0, <2>2
      <4>2. /\ \A c \in cs : c.project = p => c.number \in 1..n
            /\ \A m \in 1..n : \E c \in cs : c.project = p /\ c.number = m
            /\ \A c, d \in cs : c.project = p /\ d.project = p /\ c.number = d.number => c = d
        BY <3>1, <4>1 DEF Dense
      <4>3. /\ \A c \in cs \cup {new} : c.project = p => c.number \in 1..(n + 1)
            /\ \A m \in 1..(n + 1) : \E c \in cs \cup {new} : c.project = p /\ c.number = m
            /\ \A c, d \in cs \cup {new} :
                 c.project = p /\ d.project = p /\ c.number = d.number => c = d
        <5>1. new.project = p /\ new.number = n + 1 /\ new \in Case
          BY <3>2, <4>1
        <5>2. \A c \in cs \cup {new} : c.project = p => c.number \in 1..(n + 1)
          BY <4>2, <5>1
        <5>3. ASSUME NEW m \in 1..(n + 1)
              PROVE  \E c \in cs \cup {new} : c.project = p /\ c.number = m
          <6>1. CASE m = n + 1
            BY <5>1, <6>1
          <6>2. CASE m # n + 1
            <7>1. m \in 1..n
              BY <6>2
            <7> QED  BY <4>2, <7>1
          <6> QED  BY <6>1, <6>2
        <5>4. \A c, d \in cs \cup {new} :
                c.project = p /\ d.project = p /\ c.number = d.number => c = d
          BY <4>2, <5>1
        <5> QED  BY <5>2, <5>3, <5>4
      <4> QED  BY <3>1, <4>1, <4>3
    <3> QED  BY <3>1, <3>3 DEF Dense
  <2>8. ASSUME NEW k \in Prefixes, k # p PROVE Dense(k)'
    <3>1. /\ Dense(k) /\ counter'[k] = counter[k]
          /\ \A c \in cases' : c.project = k => c \in cases
          /\ cases \subseteq cases'
      BY <1>0, <2>1, <2>3, <2>8 DEF NumberInv
    <3> QED  BY <3>1 DEF Dense
  <2>9. \A k \in Prefixes : Dense(k)'
    BY <2>7, <2>8
  <2> QED  BY <2>5, <2>6, <2>9 DEF NumberInv
<1>4. CASE ~ (BuildExternalId(r) \/ FlushCase(r) \/ CommitCase(r))
  <2>1. UNCHANGED <<cases, counter>>
    BY <1>4, CasesChange
  <2>2. /\ pc'[r] \notin {"flush", "commit"}
        /\ \A p \in Prefixes : owner[p] \in Authors \ {r} => owner'[p] = owner[p]
    BY <1>0, <1>4, Quiet
  <2> QED  BY <2>1, <2>2, NumberFrame DEF Numbered
<1> QED  BY <1>1, <1>2, <1>3, <1>4

LEMMA NumberNext ==
  ASSUME TypeInv, TypeInv', SuiteInv, SuiteInv', NumberInv, [Next]_vars
  PROVE  NumberInv'
<1>1. CASE UNCHANGED vars
  BY <1>1 DEF vars, NumberInv, Dense, Numbered, Numbering
<1>2. ASSUME NEW r \in Authors, Step(r) PROVE NumberInv'
  BY <1>2, NumberStep
<1> QED  BY <1>1, <1>2 DEF Next, Step

LEMMA NumbersAlways == Spec => [](TypeInv /\ SuiteInv /\ NumberInv)
<1>1. Init => TypeInv /\ SuiteInv /\ NumberInv
  BY TypeInit, SuiteInit, NumberInit
<1>2. TypeInv /\ SuiteInv /\ NumberInv /\ [Next]_vars => (TypeInv /\ SuiteInv /\ NumberInv)'
  BY TypeNext, SuiteNext, NumberNext
<1> QED  BY <1>1, <1>2, PTL DEF Spec

\* The cases of a project carry the numbers 1 to tc_counter, each once: the increment of a
\* creation that loses its race is rolled back with its case, and the unique key and the
\* lock on the project's row let one creation at a time through.
THEOREM NumbersAreDenseHolds == Spec => []NumbersAreDense
<1>1. TypeInv /\ NumberInv => NumbersAreDense
  <2> SUFFICES ASSUME TypeInv, NumberInv, NEW p \in Prefixes
               PROVE  /\ {c.number : c \in {d \in cases : d.project = p}} = 1..counter[p]
                      /\ \A c, d \in cases :
                           c.project = p /\ d.project = p /\ c.number = d.number => c = d
    BY DEF NumbersAreDense
  <2>1. Dense(p)
    BY DEF NumberInv
  <2> QED  BY <2>1 DEF Dense
<1> QED  BY <1>1, NumbersAlways, PTL

-----------------------------------------------------------------------------
(***************************************************************************)
(* Trees: parents, and the suites a path spells                            *)
(***************************************************************************)

\* There are suites of project p in ss, from the root down to the one with id i, that have
\* the first n names of the path.
Chained(ss, p, i, path, n) ==
  \E chain \in [1..n -> {s \in ss : s.project = p}] :
    /\ chain[1].parent = None
    /\ chain[n].id = i
    /\ \A k \in 1..n : chain[k].name = path[k]
    /\ \A k \in 2..n : chain[k].parent = chain[k - 1].id

LEMMA ChainGrows ==
  ASSUME NEW ss, NEW tt, ss \subseteq tt, NEW p, NEW i, NEW path, NEW n \in Nat,
         Chained(ss, p, i, path, n)
  PROVE  Chained(tt, p, i, path, n)
<1>1. PICK chain \in [1..n -> {s \in ss : s.project = p}] :
        /\ chain[1].parent = None /\ chain[n].id = i
        /\ \A k \in 1..n : chain[k].name = path[k]
        /\ \A k \in 2..n : chain[k].parent = chain[k - 1].id
  BY DEF Chained
<1>2. chain \in [1..n -> {s \in tt : s.project = p}]
  BY <1>1
<1> QED  BY <1>1, <1>2 DEF Chained

\* A suite at the root is a chain of one; a suite below the end of a chain makes it longer.
LEMMA ChainStarts ==
  ASSUME NEW ss, NEW p, NEW path, NEW s \in ss, s.project = p, s.parent = None,
         s.name = path[1]
  PROVE  Chained(ss, p, s.id, path, 1)
<1> DEFINE chain == [k \in 1..1 |-> s]
<1>1. chain \in [1..1 -> {t \in ss : t.project = p}] /\ chain[1] = s
  OBVIOUS
<1>2. \A k \in 1..1 : chain[k].name = path[k]
  BY <1>1
<1>3. \A k \in 2..1 : chain[k].parent = chain[k - 1].id
  OBVIOUS
<1> HIDE DEF chain
<1> QED  BY <1>1, <1>2, <1>3 DEF Chained

LEMMA ChainExtends ==
  ASSUME NEW ss, NEW p, NEW i, NEW path, NEW n \in Nat \ {0}, Chained(ss, p, i, path, n),
         NEW s \in ss, s.project = p, s.parent = i, s.name = path[n + 1]
  PROVE  Chained(ss, p, s.id, path, n + 1)
<1>1. PICK chain \in [1..n -> {t \in ss : t.project = p}] :
        /\ chain[1].parent = None /\ chain[n].id = i
        /\ \A k \in 1..n : chain[k].name = path[k]
        /\ \A k \in 2..n : chain[k].parent = chain[k - 1].id
  BY DEF Chained
<1> DEFINE longer == [k \in 1..(n + 1) |-> IF k \in 1..n THEN chain[k] ELSE s]
<1>2. /\ longer \in [1..(n + 1) -> {t \in ss : t.project = p}]
      /\ \A k \in 1..n : longer[k] = chain[k]
      /\ longer[n + 1] = s
  BY <1>1
<1> HIDE DEF longer
<1>3. longer[1].parent = None /\ longer[n + 1].id = s.id
  BY <1>1, <1>2
<1>4. \A k \in 1..(n + 1) : longer[k].name = path[k]
  <2>1. \A k \in 1..(n + 1) : k \in 1..n \/ k = n + 1
    OBVIOUS
  <2> QED  BY <1>1, <1>2, <2>1
<1>5. ASSUME NEW k \in 2..(n + 1) PROVE longer[k].parent = longer[k - 1].id
  <2>1. CASE k = n + 1
    <3>1. longer[k] = s /\ longer[k - 1] = chain[n]
      BY <1>2, <2>1
    <3> QED  BY <1>1, <3>1
  <2>2. CASE k # n + 1
    <3>1. k \in 2..n /\ k \in 1..n /\ k - 1 \in 1..n
      BY <2>2
    <3>2. longer[k] = chain[k] /\ longer[k - 1] = chain[k - 1]
      BY <1>2, <3>1
    <3> QED  BY <1>1, <3>1, <3>2
  <2> QED  BY <2>1, <2>2
<1> QED  BY <1>2, <1>3, <1>4, <1>5 DEF Chained

\* A commit stamps the request's suites and leaves the chains they are in.
LEMMA ChainCommits ==
  ASSUME NEW ss \in SUBSET Suite, NEW new \in SUBSET Suite, NEW e \in Nat,
         NEW p, NEW i, NEW path, NEW n \in Nat \ {0}, Chained(ss \cup new, p, i, path, n)
  PROVE  Chained(ss \cup {[s EXCEPT !.end = e] : s \in new}, p, i, path, n)
<1> DEFINE tt == ss \cup {[s EXCEPT !.end = e] : s \in new}
           Now(s) == IF s \in ss THEN s ELSE [s EXCEPT !.end = e]
<1>1. PICK chain \in [1..n -> {t \in ss \cup new : t.project = p}] :
        /\ chain[1].parent = None /\ chain[n].id = i
        /\ \A k \in 1..n : chain[k].name = path[k]
        /\ \A k \in 2..n : chain[k].parent = chain[k - 1].id
  BY DEF Chained
<1>2. \A s \in ss \cup new : /\ Now(s) \in tt /\ Now(s).id = s.id /\ Now(s).name = s.name
                             /\ Now(s).project = s.project /\ Now(s).parent = s.parent
  BY StampFacts
<1> HIDE DEF tt, Now
<1> DEFINE moved == [k \in 1..n |-> Now(chain[k])]
<1>3. \A k \in 1..n : chain[k] \in ss \cup new /\ chain[k].project = p
  BY <1>1
<1>4. /\ moved \in [1..n -> {t \in tt : t.project = p}]
      /\ \A k \in 1..n : /\ moved[k].id = chain[k].id /\ moved[k].name = chain[k].name
                         /\ moved[k].parent = chain[k].parent
  BY <1>2, <1>3
<1> HIDE DEF moved
<1>5. moved[1].parent = None /\ moved[n].id = i
  BY <1>1, <1>4
<1>6. \A k \in 1..n : moved[k].name = path[k]
  BY <1>1, <1>4
<1>7. \A k \in 2..n : moved[k].parent = moved[k - 1].id
  <2>1. \A k \in 2..n : k \in 1..n /\ k - 1 \in 1..n
    OBVIOUS
  <2> QED  BY <1>1, <1>4, <2>1
<1>8. Chained(tt, p, i, path, n)
  BY <1>4, <1>5, <1>6, <1>7 DEF Chained
<1> QED  BY <1>8 DEF tt

\* A suite's parent is an older suite of its project.
Rooted(s, ss) ==
  s.parent # None => \E t \in ss : t.id = s.parent /\ t.project = s.project /\ t.id < s.id

\* What the request has resolved of its path spells it so far, and all of it once the cases
\* are filed.
Walking(r) ==
  /\ \A s \in mine[r] : Rooted(s, suites \cup mine[r])
  /\ pc[r] = "resolve" /\ depth[r] # 0
       => Chained(suites \cup mine[r], req[r].project, at[r], req[r].path, depth[r])
  /\ req[r].kind = "path" /\ pc[r] \in {"number", "flush", "commit"}
       => Chained(suites, req[r].project, at[r], req[r].path, Len(req[r].path))

\* A case is in a suite of its project; one a tool filed, in the suite its path spells.
Shelved(c) ==
  /\ Exists(c.suite, c.project, suites)
  /\ c.by # None /\ req[c.by].kind = "path"
       => Chained(suites, c.project, c.suite, req[c.by].path, Len(req[c.by].path))

TreeInv ==
  /\ \A s \in suites : Rooted(s, suites)
  /\ \A r \in Authors : Walking(r)
  /\ \A c \in cases : Shelved(c)

LEMMA TreeInit == Init => TreeInv
<1> SUFFICES ASSUME Init PROVE TreeInv
  OBVIOUS
<1>1. \A c \in cases : c.suite = 1 /\ c.project = Home /\ c.by = None
  BY DEF Init
<1>2. \A c \in cases : Shelved(c)
  BY <1>1 DEF Init, FirstSuite, Shelved, Exists
<1>3. \A s \in suites : Rooted(s, suites)
  BY DEF Init, FirstSuite, Rooted
<1>4. \A r \in Authors : Walking(r)
  BY DEF Init, Walking
<1> QED  BY <1>2, <1>3, <1>4 DEF TreeInv

\* What is true of a tree stays true when suites are added.
LEMMA TreeFrame ==
  ASSUME TypeInv, TreeInv, NEW r \in Authors, Step(r),
         \A s \in suites' : s \in suites \/ Rooted(s, suites'),
         \A c \in cases' : c \in cases \/ Shelved(c)',
         Walking(r)'
  PROVE  TreeInv'
<1>0. req' = req /\ suites \subseteq suites'
  BY RequestStays, TablesGrow
<1>1. ASSUME NEW s, NEW ss, NEW tt, ss \subseteq tt, Rooted(s, ss) PROVE Rooted(s, tt)
  BY <1>1 DEF Rooted
<1>2. \A s \in suites' : Rooted(s, suites')
  BY <1>0, <1>1 DEF TreeInv
<1>3. ASSUME NEW q \in Authors, q # r PROVE Walking(q)'
  <2>1. /\ pc'[q] = pc[q] /\ at'[q] = at[q] /\ depth'[q] = depth[q] /\ mine'[q] = mine[q]
        /\ depth[q] \in Nat /\ Len(req[q].path) \in Nat /\ Walking(q)
    BY <1>3, OthersStay, RequestFacts, PathFacts DEF TypeInv, TypeOK, TreeInv
  <2>2. \A s \in mine'[q] : Rooted(s, suites' \cup mine'[q])
    <3>1. suites \cup mine[q] \subseteq suites' \cup mine'[q]
      BY <1>0, <2>1
    <3> QED  BY <1>1, <2>1, <3>1 DEF Walking
  <2>3. ASSUME pc[q] = "resolve", depth[q] # 0
        PROVE  Chained(suites' \cup mine[q], req[q].project, at[q], req[q].path, depth[q])
    <3>1. Chained(suites \cup mine[q], req[q].project, at[q], req[q].path, depth[q])
      BY <2>1, <2>3 DEF Walking
    <3>2. suites \cup mine[q] \subseteq suites' \cup mine[q]
      BY <1>0
    <3> QED  BY <2>1, <3>1, <3>2, ChainGrows
  <2>4. ASSUME req[q].kind = "path", pc[q] \in {"number", "flush", "commit"}
        PROVE  Chained(suites', req[q].project, at[q], req[q].path, Len(req[q].path))
    BY <1>0, <2>1, <2>4, ChainGrows DEF Walking
  <2> QED  BY <1>0, <2>1, <2>2, <2>3, <2>4 DEF Walking
<1>4. ASSUME NEW c \in cases, Shelved(c) PROVE Shelved(c)'
  <2>1. Exists(c.suite, c.project, suites')
    BY <1>0, <1>4 DEF Shelved, Exists
  <2>2. ASSUME c.by # None, req[c.by].kind = "path"
        PROVE  Chained(suites', c.project, c.suite, req[c.by].path, Len(req[c.by].path))
    <3>1. Len(req[c.by].path) \in Nat
      <4>1. c.by \in Authors
        BY <1>4, <2>2 DEF TypeInv, TypeOK, Case
      <4> QED  BY <4>1, RequestFacts, PathFacts DEF TypeInv
    <3> QED  BY <1>0, <1>4, <2>2, <3>1, ChainGrows DEF Shelved
  <2> QED  BY <1>0, <2>1, <2>2 DEF Shelved
<1>5. \A c \in cases' : Shelved(c)'
  BY <1>4 DEF TreeInv
<1> QED  BY <1>2, <1>3, <1>5 DEF TreeInv

\* The part that is found, or inserted, makes what has been resolved longer.
LEMMA Longer ==
  ASSUME TypeInv, TreeInv, NEW r \in Authors, pc[r] = "resolve", NEW s \in suites \cup mine[r],
         s.project = req[r].project, s.parent = at[r], s.name = req[r].path[depth[r] + 1]
  PROVE  Chained(suites \cup mine[r], req[r].project, s.id, req[r].path, depth[r] + 1)
<1>1. depth[r] \in Nat /\ Resolved(r) /\ Walking(r)
  BY DEF TypeInv, TypeOK, TreeInv
<1>2. CASE depth[r] = 0
  <2>1. s.parent = None /\ s.name = req[r].path[1]
    BY <1>1, <1>2 DEF Resolved
  <2>2. Chained(suites \cup mine[r], req[r].project, s.id, req[r].path, 1)
    BY <2>1, ChainStarts
  <2> QED  BY <1>2, <2>2
<1>3. CASE depth[r] # 0
  <2>1. Chained(suites \cup mine[r], req[r].project, at[r], req[r].path, depth[r])
    BY <1>1, <1>3 DEF Walking
  <2>2. depth[r] \in Nat \ {0}
    BY <1>1, <1>3
  <2> QED  BY <2>1, <2>2, ChainExtends
<1> QED  BY <1>2, <1>3

\* Where the steps that neither resolve a path nor file a case lead.
LEMMA Strolling ==
  ASSUME TypeInv, NEW r \in Authors, Step(r),
         ~ (CreateSuite(r) \/ Descend(r) \/ InsertPart(r) \/ CommitPath(r) \/ CommitCase(r))
  PROVE  \/ pc'[r] \notin {"resolve", "number", "flush", "commit"}
         \/ pc'[r] = "resolve" /\ depth'[r] = 0
         \/ pc'[r] = "number" /\ req[r].kind # "path"
         \/ /\ pc[r] \in {"number", "flush"} /\ pc'[r] \in {"flush", "commit"}
            /\ at'[r] = at[r]
<1>0. /\ pc \in [Authors -> {"idle"} \cup Working \cup Final] /\ req[r].kind \in Kinds
      /\ (pc[r] = "idle" => depth[r] = 0)
  BY RequestFacts DEF TypeInv, TypeOK, Holds
<1> USE <1>0 DEF Rollback, Close, Goto, Entry, Kinds, db, session, client
<1>1. CASE Begin(r)
  BY <1>1 DEF Begin
<1>2. CASE FindPrefix(r)
  BY <1>2 DEF FindPrefix
<1>3. CASE CreateProject(r)
  BY <1>3 DEF CreateProject
<1>4. CASE LosePrefix(r)
  BY <1>4 DEF LosePrefix
<1>5. CASE CreateSuite(r)
  BY <1>5 DEF CreateSuite
<1>6. CASE Descend(r)
  BY <1>6 DEF Descend
<1>7. CASE InsertPart(r)
  BY <1>7 DEF InsertPart
<1>8. CASE Ambiguous(r)
  BY <1>8 DEF Ambiguous
<1>9. CASE CommitPath(r)
  BY <1>9 DEF CommitPath
<1>10. CASE RejectItem(r)
  BY <1>10 DEF RejectItem
<1>11. CASE BuildExternalId(r)
  BY <1>11 DEF BuildExternalId
<1>12. CASE FlushCase(r)
  BY <1>12 DEF FlushCase
<1>13. CASE LoseNumber(r)
  BY <1>13 DEF LoseNumber
<1>14. CASE CommitCase(r)
  BY <1>14 DEF CommitCase, NextItem
<1>15. CASE LoadVersion(r)
  BY <1>15 DEF LoadVersion
<1>16. CASE CreateVersion(r)
  BY <1>16 DEF CreateVersion
<1>17. CASE Reply(r)
  BY <1>17 DEF Reply
<1>18. CASE Crash(r)
  BY <1>18 DEF Crash
<1>19. CASE Retry(r)
  BY <1>19 DEF Retry
<1> QED  BY <1>1, <1>2, <1>3, <1>4, <1>5, <1>6, <1>7, <1>8, <1>9, <1>10, <1>11, <1>12, <1>13,
            <1>14, <1>15, <1>16, <1>17, <1>18, <1>19 DEF Step, Handle, WriteProject, FilePath,
            FileCase, EditCase

LEMMA TreeStep ==
  ASSUME TypeInv, TypeInv', SuiteInv, SuiteInv', TreeInv, NEW r \in Authors, Step(r)
  PROVE  TreeInv'
<1>0. /\ pc \in [Authors -> {"idle"} \cup Working \cup Final] /\ suites \subseteq Suite
      /\ mine \in [Authors -> SUBSET Suite] /\ depth \in [Authors -> Nat]
      /\ at \in [Authors -> Nat \cup {None}] /\ nextSuite \in Nat /\ None \notin Nat
      /\ commits \in Nat /\ Walking(r) /\ Resolved(r) /\ Holds(r) /\ Placed(r)
      /\ req[r].kind \in Kinds
      /\ Len(req[r].path) \in Nat /\ (req[r].path # << >> => Len(req[r].path) # 0)
      /\ req' = req /\ suites \subseteq suites'
  BY DomainAssumption, RequestFacts, PathFacts, RequestStays, TablesGrow
     DEF TypeInv, TypeOK, TreeInv
<1>1. \A s \in Suite : s.id \in Nat
  BY DEF Suite
<1>2. CASE CreateSuite(r)
  <2> DEFINE new == [id |-> nextSuite, project |-> req[r].project, parent |-> req[r].parent,
                     name |-> req[r].path[1], via |-> "suite", looked |-> commits,
                     end |-> commits + 1]
  <2>1. /\ suites' = suites \cup {new} /\ pc[r] = "insert" /\ pc' = [pc EXCEPT ![r] = "reply"]
        /\ UNCHANGED <<cases, mine>>
    BY <1>2 DEF CreateSuite, Goto, session
  <2>2. /\ new.id = nextSuite /\ new.project = req[r].project /\ new.parent = req[r].parent
    OBVIOUS
  <2> HIDE DEF new
  <2>3. new.parent = None \/ \E t \in suites : t.id = new.parent /\ t.project = new.project
    BY <1>0, <2>1, <2>2 DEF Resolved, Exists
  <2>4. \A t \in suites : t.id < nextSuite
    BY DEF SuiteInv
  <2>5. Rooted(new, suites')
    BY <2>1, <2>2, <2>3, <2>4 DEF Rooted
  <2>6. mine[r] = {}
    BY <1>0, <2>1 DEF Holds
  <2>7. Walking(r)'
    BY <1>0, <2>1, <2>6 DEF Walking
  <2> QED  BY <2>1, <2>5, <2>7, TreeFrame
<1>3. CASE Descend(r)
  <2>1. /\ pc[r] = "resolve" /\ depth[r] < Len(req[r].path)
        /\ depth' = [depth EXCEPT ![r] = @ + 1]
        /\ UNCHANGED <<suites, cases, mine, pc>>
    BY <1>3 DEF Descend, db
  <2>2. PICK s \in suites \cup mine[r] : /\ s.project = req[r].project /\ s.parent = at[r]
                                         /\ s.name = req[r].path[depth[r] + 1]
                                         /\ at' = [at EXCEPT ![r] = s.id]
    BY <1>3 DEF Descend, Matching, Part
  <2>3. Chained(suites \cup mine[r], req[r].project, s.id, req[r].path, depth[r] + 1)
    BY <1>0, <2>1, <2>2, Longer
  <2>4. Walking(r)'
    BY <1>0, <2>1, <2>2, <2>3 DEF Walking
  <2> QED  BY <2>1, <2>4, TreeFrame
<1>4. CASE InsertPart(r)
  <2> DEFINE new == [id |-> nextSuite, project |-> req[r].project, parent |-> at[r],
                     name |-> Part(r), via |-> "path", looked |-> commits, end |-> 0]
  <2>1. /\ pc[r] = "resolve" /\ depth[r] < Len(req[r].path)
        /\ mine' = [mine EXCEPT ![r] = @ \cup {new}]
        /\ at' = [at EXCEPT ![r] = nextSuite]
        /\ depth' = [depth EXCEPT ![r] = @ + 1]
        /\ UNCHANGED <<suites, cases, pc>>
    BY <1>4 DEF InsertPart
  <2>2. /\ new.id = nextSuite /\ new.project = req[r].project /\ new.parent = at[r]
        /\ new.name = req[r].path[depth[r] + 1]
    BY DEF Part
  <2> HIDE DEF new
  <2>3. mine'[r] = mine[r] \cup {new}
    BY <1>0, <2>1
  <2>4. \A t \in suites \cup mine[r] : t.id < nextSuite
    BY DEF SuiteInv, Inserted
  <2>5. Rooted(new, suites \cup mine'[r])
    <3>1. CASE depth[r] = 0
      BY <1>0, <2>1, <2>2, <3>1 DEF Resolved, Rooted
    <3>2. CASE depth[r] # 0
      <4>1. Exists(at[r], req[r].project, suites \cup mine[r])
        BY <1>0, <2>1, <3>2 DEF Resolved
      <4> QED  BY <2>2, <2>3, <2>4, <4>1 DEF Exists, Rooted
    <3> QED  BY <3>1, <3>2
  <2>6. \A s \in mine'[r] : Rooted(s, suites \cup mine'[r])
    <3>1. \A s \in mine[r] : Rooted(s, suites \cup mine[r])
      BY <1>0 DEF Walking
    <3>2. \A s \in mine[r] : Rooted(s, suites \cup mine'[r])
      BY <2>3, <3>1 DEF Rooted
    <3> QED  BY <2>3, <2>5, <3>2
  <2>7. Chained(suites \cup mine'[r], req[r].project, nextSuite, req[r].path, depth[r] + 1)
    <3>1. CASE depth[r] = 0
      <4>1. new.parent = None /\ new.name = req[r].path[1]
        BY <1>0, <2>1, <2>2, <3>1 DEF Resolved
      <4>2. Chained(suites \cup mine'[r], req[r].project, new.id, req[r].path, 1)
        BY <2>2, <2>3, <4>1, ChainStarts
      <4> QED  BY <2>2, <3>1, <4>2
    <3>2. CASE depth[r] # 0
      <4>1. Chained(suites \cup mine[r], req[r].project, at[r], req[r].path, depth[r])
        BY <1>0, <2>1, <3>2 DEF Walking
      <4>2. depth[r] \in Nat \ {0} /\ suites \cup mine[r] \subseteq suites \cup mine'[r]
        BY <1>0, <2>3, <3>2
      <4>3. Chained(suites \cup mine'[r], req[r].project, at[r], req[r].path, depth[r])
        BY <4>1, <4>2, ChainGrows
      <4>4. Chained(suites \cup mine'[r], req[r].project, new.id, req[r].path, depth[r] + 1)
        BY <2>2, <2>3, <4>2, <4>3, ChainExtends
      <4> QED  BY <2>2, <4>4
    <3> QED  BY <3>1, <3>2
  <2>8. Walking(r)'
    BY <1>0, <2>1, <2>6, <2>7 DEF Walking
  <2> QED  BY <2>1, <2>8, TreeFrame
<1>5. CASE CommitPath(r)
  <2> DEFINE Stamp(s) == [s EXCEPT !.end = commits + 1]
  <2>1. /\ pc[r] = "resolve" /\ depth[r] = Len(req[r].path)
        /\ suites' = suites \cup {Stamp(s) : s \in mine[r]}
        /\ mine' = [mine EXCEPT ![r] = {}]
        /\ pc'[r] \in {"reply", "number"}
        /\ UNCHANGED <<cases, at, depth>>
    BY <1>0, <1>5 DEF CommitPath, Goto
  <2>2. commits + 1 \in Nat /\ mine[r] \subseteq Suite
    BY <1>0
  <2>3. \A s \in mine[r] : /\ Stamp(s).id = s.id /\ Stamp(s).project = s.project
                           /\ Stamp(s).parent = s.parent
    BY <2>2, StampFacts
  <2>4. ASSUME NEW s \in mine[r] PROVE Rooted(Stamp(s), suites')
    <3>1. Rooted(s, suites \cup mine[r])
      BY <1>0 DEF Walking
    <3>2. CASE s.parent = None
      BY <2>3, <3>2 DEF Rooted
    <3>3. CASE s.parent # None
      <4>1. PICK t \in suites \cup mine[r] : t.id = s.parent /\ t.project = s.project /\ t.id < s.id
        BY <3>1, <3>3 DEF Rooted
      <4>2. \E u \in suites' : u.id = t.id /\ u.project = t.project
        BY <2>1, <2>3
      <4> HIDE DEF Stamp
      <4> QED  BY <2>3, <4>1, <4>2 DEF Rooted
    <3> QED  BY <3>2, <3>3
  <2>5. \A s \in suites' : s \in suites \/ Rooted(s, suites')
    BY <2>1, <2>4
  <2>6. req[r].kind = "path"
    <3>1. pc[r] = "resolve" /\ Placed(r) /\ req[r].kind \in Kinds
      BY <1>0, <2>1
    <3> QED  BY <3>1 DEF Placed, PlacesOf, Kinds, Final
  <2>7. depth[r] \in Nat \ {0}
    BY <1>0, <2>1, <2>6 DEF Resolved
  <2>8. Chained(suites', req[r].project, at[r], req[r].path, Len(req[r].path))
    <3>1. Chained(suites \cup mine[r], req[r].project, at[r], req[r].path, depth[r])
      BY <1>0, <2>1, <2>7 DEF Walking
    <3>2. suites \in SUBSET Suite /\ mine[r] \in SUBSET Suite
      BY <1>0
    <3>3. Chained(suites', req[r].project, at[r], req[r].path, depth[r])
      BY <2>1, <2>2, <2>7, <3>1, <3>2, ChainCommits
    <3> QED  BY <2>1, <3>3
  <2>9. Walking(r)'
    BY <1>0, <2>1, <2>8 DEF Walking
  <2> QED  BY <2>1, <2>5, <2>9, TreeFrame
<1>6. CASE CommitCase(r)
  <2>1. /\ pc[r] = "commit" /\ cases' = cases \cup {NewCase(r)}
        /\ pc'[r] \in {"reply", "number"} /\ UNCHANGED <<suites, mine, at>>
    BY <1>0, <1>6 DEF CommitCase, NextItem, Goto
  <2>2. /\ NewCase(r).suite = at[r] /\ NewCase(r).project = Numbering(r)
        /\ NewCase(r).by = r
    BY DEF NewCase
  <2>3. Exists(at[r], Numbering(r), suites)
    BY <2>1, NumberingType
  <2>4. ASSUME req[r].kind = "path"
        PROVE  Chained(suites, Numbering(r), at[r], req[r].path, Len(req[r].path))
    <3>1. Exists(at[r], req[r].project, suites)
      BY <1>0, <2>1, <2>4 DEF Resolved
    <3>2. Numbering(r) = req[r].project
      BY <2>3, <3>1 DEF Exists, SuiteInv
    <3> QED  BY <1>0, <2>1, <2>4, <3>2 DEF Walking
  <2>5. PICK c : c = NewCase(r)
    OBVIOUS
  <2>6. Shelved(c)'
    BY <1>0, <2>1, <2>2, <2>3, <2>4, <2>5 DEF Shelved
  <2>7. mine[r] = {}
    BY <1>0, <2>1 DEF Holds
  <2>8. Walking(r)'
    BY <1>0, <2>1, <2>7 DEF Walking
  <2> QED  BY <2>1, <2>5, <2>6, <2>8, TreeFrame
<1>7. CASE ~ (CreateSuite(r) \/ Descend(r) \/ InsertPart(r) \/ CommitPath(r) \/ CommitCase(r))
  <2>1. UNCHANGED <<suites, cases>> /\ mine'[r] \in {mine[r], {}}
    BY <1>7, SuitesChange, CasesChange
  <2>2. \/ pc'[r] \notin {"resolve", "number", "flush", "commit"}
        \/ pc'[r] = "resolve" /\ depth'[r] = 0
        \/ pc'[r] = "number" /\ req[r].kind # "path"
        \/ /\ pc[r] \in {"number", "flush"} /\ pc'[r] \in {"flush", "commit"}
           /\ at'[r] = at[r]
    BY <1>0, <1>7, Strolling
  <2>3. \A s \in mine'[r] : Rooted(s, suites' \cup mine'[r])
    BY <1>0, <2>1 DEF Walking
  <2>4. Walking(r)'
    BY <1>0, <2>1, <2>2, <2>3 DEF Walking
  <2> QED  BY <2>1, <2>4, TreeFrame
<1> QED  BY <1>2, <1>3, <1>4, <1>5, <1>6, <1>7

LEMMA TreeNext ==
  ASSUME TypeInv, TypeInv', SuiteInv, SuiteInv', TreeInv, [Next]_vars
  PROVE  TreeInv'
<1>1. CASE UNCHANGED vars
  BY <1>1 DEF vars, TreeInv, Walking, Shelved, Exists
<1>2. ASSUME NEW r \in Authors, Step(r) PROVE TreeInv'
  BY <1>2, TreeStep
<1> QED  BY <1>1, <1>2 DEF Next, Step

\* The suites form trees get_tree can draw, and every case is in one of its project's
\* suites, the one its path spells if a tool filed it: the path a tool has committed is the
\* one its cases go to, whatever happens in between.
THEOREM CasesAreFiledHolds == Spec => []CasesAreFiled
<1>1. TreeInv => CasesAreFiled
  <2> SUFFICES ASSUME TreeInv PROVE CasesAreFiled
    OBVIOUS
  <2>1. Orphans = {}
    BY DEF TreeInv, Rooted, Orphans
  <2>2. ASSUME NEW c \in cases
        PROVE  /\ \E s \in suites : s.id = c.suite /\ s.project = c.project
               /\ c.by # None /\ req[c.by].kind = "path"
                    => Spells(c.project, c.suite, req[c.by].path)
    BY DEF TreeInv, Shelved, Exists, Chained, Spells
  <2> QED  BY <2>1, <2>2 DEF CasesAreFiled
<1>2. Init => TreeInv
  BY TreeInit
<1>3. TypeInv /\ SuiteInv /\ TreeInv /\ (TypeInv /\ SuiteInv)' /\ [Next]_vars => TreeInv'
  BY TreeNext
<1> QED  BY <1>1, <1>2, <1>3, SuitesAlways, PTL DEF Spec

-----------------------------------------------------------------------------
(***************************************************************************)
(* Lists of cases                                                          *)
(***************************************************************************)

\* The cases the current attempt of a request has committed.
ThisTime(r) == {c \in cases : c.by = r /\ c.attempt = attempts[r]}

\* An attempt has committed none of its list before the first is numbered, and then the
\* first filed[r] items, in one project.
Filing(r) ==
  /\ \A c \in cases : c.by = r => c.attempt <= attempts[r]
  /\ pc[r] \in {"found", "insert", "load", "write", "resolve"} => ThisTime(r) = {}
  /\ pc[r] \in {"number", "flush", "commit"} =>
       /\ \A c \in ThisTime(r) : c.item \in 1..filed[r] /\ c.project = Numbering(r)
       /\ \A i \in 1..filed[r] : \E c \in ThisTime(r) : c.item = i
  /\ pc[r] \in {"reply", "done"} =>
       ThisTime(r) = {} \/ \E c \in ThisTime(r) : c.item = req[r].items

Kin(c, d) == c.by = d.by /\ c.attempt = d.attempt

\* An item of a list is filed once, and after the one before it.
Listed(c) ==
  /\ c.item > 1 => \E d \in cases : Kin(c, d) /\ d.item = c.item - 1 /\ d.number < c.number
  /\ \A d \in cases : Kin(c, d) /\ c.item = d.item => c = d

ListInv ==
  /\ \A c \in cases : c.by # None => Listed(c)
  /\ \A r \in Authors : Filing(r)

LEMMA ListInit == Init => ListInv
<1> SUFFICES ASSUME Init PROVE ListInv
  OBVIOUS
<1>1. \A c \in cases : c.by = None
  BY DEF Init
<1> QED  BY <1>1, DomainAssumption DEF Init, ListInv, Filing, ThisTime

\* How a request that commits no case gets from one place to the next.
LEMMA Course ==
  ASSUME TypeInv, NEW r \in Authors, Step(r), ~ CommitCase(r)
  PROVE  \/ /\ pc[r] = "idle" /\ pc'[r] \notin {"flush", "commit", "reply", "done"}
            /\ attempts'[r] = attempts[r] + 1 /\ filed'[r] = 0
         \/ attempts'[r] = attempts[r] /\ pc'[r] \in {"idle", "failed", "rejected"}
         \/ /\ attempts'[r] = attempts[r]
            /\ pc[r] \in {"found", "insert", "load", "write", "resolve"}
            /\ pc'[r] \in {"found", "insert", "load", "write", "resolve", "reply"}
         \/ /\ attempts'[r] = attempts[r]
            /\ pc[r] = "resolve" /\ pc'[r] = "number" /\ filed'[r] = 0
         \/ /\ attempts'[r] = attempts[r] /\ filed'[r] = filed[r] /\ at'[r] = at[r]
            /\ pc[r] \in {"number", "flush"} /\ pc'[r] \in {"flush", "commit"}
         \/ attempts'[r] = attempts[r] /\ pc[r] = "reply" /\ pc'[r] = "done"
<1>0. /\ pc \in [Authors -> {"idle"} \cup Working \cup Final] /\ req[r].kind \in Kinds
      /\ attempts \in [Authors -> 0..MaxAttempts]
      /\ (pc[r] \in {"idle", "resolve"} => filed[r] = 0)
  BY RequestFacts DEF TypeInv, TypeOK, Holds
<1> USE <1>0 DEF Rollback, Close, Goto, Entry, Kinds, db, session, client
<1>1. CASE Begin(r)
  BY <1>1 DEF Begin
<1>2. CASE FindPrefix(r)
  BY <1>2 DEF FindPrefix
<1>3. CASE CreateProject(r)
  BY <1>3 DEF CreateProject
<1>4. CASE LosePrefix(r)
  BY <1>4 DEF LosePrefix
<1>5. CASE CreateSuite(r)
  BY <1>5 DEF CreateSuite
<1>6. CASE Descend(r)
  BY <1>6 DEF Descend
<1>7. CASE InsertPart(r)
  BY <1>7 DEF InsertPart
<1>8. CASE Ambiguous(r)
  BY <1>8 DEF Ambiguous
<1>9. CASE CommitPath(r)
  BY <1>9 DEF CommitPath
<1>10. CASE RejectItem(r)
  BY <1>10 DEF RejectItem
<1>11. CASE BuildExternalId(r)
  BY <1>11 DEF BuildExternalId
<1>12. CASE FlushCase(r)
  BY <1>12 DEF FlushCase
<1>13. CASE LoseNumber(r)
  BY <1>13 DEF LoseNumber
<1>14. CASE CommitCase(r)
  BY <1>14 DEF CommitCase, NextItem
<1>15. CASE LoadVersion(r)
  BY <1>15 DEF LoadVersion
<1>16. CASE CreateVersion(r)
  BY <1>16 DEF CreateVersion
<1>17. CASE Reply(r)
  BY <1>17 DEF Reply
<1>18. CASE Crash(r)
  BY <1>18 DEF Crash
<1>19. CASE Retry(r)
  BY <1>19 DEF Retry
<1> QED  BY <1>1, <1>2, <1>3, <1>4, <1>5, <1>6, <1>7, <1>8, <1>9, <1>10, <1>11, <1>12, <1>13,
            <1>14, <1>15, <1>16, <1>17, <1>18, <1>19 DEF Step, Handle, WriteProject, FilePath,
            FileCase, EditCase

\* A request whose cases no step changes keeps its invariant.
LEMMA FilingStays ==
  ASSUME TypeInv, TypeInv', SuiteInv, SuiteInv', suites \subseteq suites', ListInv,
         NEW q \in Authors, UNCHANGED req, \A c \in cases' : c.by = q => c \in cases,
         cases \subseteq cases',
         pc'[q] = pc[q], at'[q] = at[q], filed'[q] = filed[q], attempts'[q] = attempts[q]
  PROVE  Filing(q)'
<1>1. Filing(q) /\ ThisTime(q)' = ThisTime(q)
  BY DEF ListInv, ThisTime
<1>2. CASE pc[q] \in {"number", "flush", "commit"}
  <2>1. Numbering(q)' = Numbering(q)
    BY <1>2, NumberingStays
  <2> QED  BY <1>1, <1>2, <2>1 DEF Filing
<1>3. CASE pc[q] \notin {"number", "flush", "commit"}
  BY <1>1, <1>3 DEF Filing
<1> QED  BY <1>2, <1>3

LEMMA ListStep ==
  ASSUME TypeInv, TypeInv', SuiteInv, SuiteInv', NumberInv, ListInv, NEW r \in Authors, Step(r)
  PROVE  ListInv'
<1>0. /\ req' = req /\ cases \subseteq Case /\ cases \subseteq cases' /\ suites \subseteq suites'
      /\ attempts \in [Authors -> Nat] /\ filed \in [Authors -> Nat] /\ None \notin Authors
      /\ pc \in [Authors -> {"idle"} \cup Working \cup Final] /\ Filing(r)
  BY RequestStays, TablesGrow, DomainAssumption DEF TypeInv, TypeOK, ListInv
<1>1. \A c \in Case : c.attempt \in Nat /\ c.item \in Nat /\ c.number \in Nat
  BY DEF Case
<1>2. CASE CommitCase(r)
  <2>0. PICK new \in Case, p \in Prefixes : new = NewCase(r) /\ p = Numbering(r)
    <3>1. pc[r] = "commit" /\ NewCase(r) \in cases'
      BY <1>2 DEF CommitCase, NextItem
    <3>2. NewCase(r) \in Case
      BY <3>1 DEF TypeInv, TypeOK
    <3> QED  BY <3>1, <3>2, NumberingType
  <2>1. /\ pc[r] = "commit" /\ cases' = cases \cup {new}
        /\ pc' = [pc EXCEPT ![r] = IF filed[r] + 1 = req[r].items THEN "reply" ELSE "number"]
        /\ filed' = [filed EXCEPT ![r] = @ + 1]
        /\ UNCHANGED <<suites, at, attempts>>
    BY <1>2, <2>0 DEF CommitCase, NextItem, Goto, client
  <2>2. /\ new.by = r /\ new.attempt = attempts[r] /\ new.item = filed[r] + 1
        /\ new.project = p /\ new.number = number[r]
    BY <2>0 DEF NewCase
  <2>3. /\ \A c \in ThisTime(r) : c.item \in 1..filed[r] /\ c.project = p
        /\ \A i \in 1..filed[r] : \E c \in ThisTime(r) : c.item = i
    BY <1>0, <2>0, <2>1 DEF Filing
  <2>4. \A c \in cases : c.project = p => c.number < number[r]
    <3>1. number[r] = counter[p] + 1 /\ Dense(p) /\ counter[p] \in Nat
      BY <2>0, <2>1 DEF NumberInv, Numbered, TypeInv, TypeOK
    <3> QED  BY <3>1 DEF Dense
  <2>5. ThisTime(r)' = ThisTime(r) \cup {new}
    BY <2>1, <2>2 DEF ThisTime
  <2>6. Listed(new)'
    <3>1. ASSUME new.item > 1
          PROVE  \E d \in cases : Kin(new, d) /\ d.item = new.item - 1 /\ d.number < new.number
      <4>1. filed[r] \in 1..filed[r] /\ new.item - 1 = filed[r]
        BY <1>0, <2>2, <3>1
      <4>2. PICK d \in ThisTime(r) : d.item = filed[r]
        BY <2>3, <4>1
      <4>3. d.number < new.number
        BY <2>2, <2>3, <2>4, <4>2 DEF ThisTime
      <4> QED  BY <2>2, <4>1, <4>2, <4>3 DEF ThisTime, Kin
    <3>2. ASSUME NEW d \in cases, Kin(new, d), new.item = d.item PROVE FALSE
      <4>1. d \in ThisTime(r)
        BY <2>2, <3>2 DEF ThisTime, Kin
      <4> QED  BY <1>0, <2>2, <2>3, <3>2, <4>1
    <3> QED  BY <2>1, <3>1, <3>2 DEF Listed
  <2>7. ASSUME NEW c \in cases, c.by # None PROVE Listed(c)'
    <3>1. Listed(c)
      BY <2>7 DEF ListInv
    <3>2. Kin(c, new) => c.item # new.item
      <4>1. ASSUME Kin(c, new) PROVE c \in ThisTime(r)
        BY <2>2, <4>1 DEF ThisTime, Kin
      <4> QED  BY <1>0, <2>2, <2>3, <4>1
    <3> QED  BY <2>1, <3>1, <3>2 DEF Listed
  <2>8. ASSUME NEW q \in Authors, q # r PROVE Filing(q)'
    <3>1. /\ pc'[q] = pc[q] /\ at'[q] = at[q] /\ filed'[q] = filed[q]
          /\ attempts'[q] = attempts[q]
      BY <2>8, OthersStay DEF TypeInv
    <3>2. \A c \in cases' : c.by = q => c \in cases
      BY <2>1, <2>2, <2>8
    <3> QED  BY <1>0, <3>1, <3>2, FilingStays
  <2>9. Filing(r)'
    <3>1. \A c \in cases' : c.by = r => c.attempt <= attempts[r]
      BY <1>0, <2>1, <2>2 DEF Filing
    <3>2. CASE filed[r] + 1 = req[r].items
      <4>1. pc'[r] = "reply" /\ new.item = req[r].items
        BY <1>0, <2>1, <2>2, <3>2
      <4> QED  BY <1>0, <2>1, <2>5, <3>1, <4>1 DEF Filing
    <3>3. CASE filed[r] + 1 # req[r].items
      <4>1. pc'[r] = "number" /\ filed'[r] = filed[r] + 1
        BY <1>0, <2>1, <3>3
      <4>2. Numbering(r)' = p
        BY <2>0, <2>1 DEF Numbering
      <4>3. \A c \in ThisTime(r)' : c.item \in 1..filed'[r] /\ c.project = p
        BY <1>0, <2>2, <2>3, <2>5, <4>1
      <4>4. ASSUME NEW i \in 1..filed'[r] PROVE \E c \in ThisTime(r)' : c.item = i
        <5>1. CASE i = filed[r] + 1
          BY <2>2, <2>5, <5>1
        <5>2. CASE i # filed[r] + 1
          <6>1. i \in 1..filed[r]
            BY <1>0, <4>1, <5>2
          <6> QED  BY <2>3, <2>5, <6>1
        <5> QED  BY <5>1, <5>2
      <4> QED  BY <2>1, <3>1, <4>1, <4>2, <4>3, <4>4 DEF Filing
    <3> QED  BY <3>2, <3>3
  <2>10. \A q \in Authors : Filing(q)'
    BY <2>8, <2>9
  <2>11. \A c \in cases' : c.by # None => Listed(c)'
    BY <2>1, <2>6, <2>7
  <2> QED  BY <2>10, <2>11 DEF ListInv
<1>3. CASE ~ CommitCase(r)
  <2>1. cases' = cases
    BY <1>3, CasesChange
  <2>2. \A c \in cases' : c.by # None => Listed(c)'
    BY <2>1 DEF ListInv, Listed
  <2>3. ASSUME NEW q \in Authors, q # r PROVE Filing(q)'
    <3>1. /\ pc'[q] = pc[q] /\ at'[q] = at[q] /\ filed'[q] = filed[q]
          /\ attempts'[q] = attempts[q]
      BY <2>3, OthersStay DEF TypeInv
    <3> QED  BY <1>0, <2>1, <3>1, FilingStays
  <2>4. Filing(r)'
    <3>1. CASE /\ pc[r] = "idle" /\ pc'[r] \notin {"flush", "commit", "reply", "done"}
               /\ attempts'[r] = attempts[r] + 1 /\ filed'[r] = 0
      <4>1. \A c \in cases : c.by = r => c.attempt <= attempts[r] /\ c.attempt # attempts'[r]
        BY <1>0, <1>1, <3>1 DEF Filing
      <4>2. ThisTime(r)' = {} /\ \A c \in cases' : c.by = r => c.attempt <= attempts'[r]
        BY <1>0, <1>1, <2>1, <3>1, <4>1 DEF ThisTime
      <4>3. 1..filed'[r] = {}
        BY <3>1
      <4> QED  BY <3>1, <4>2, <4>3 DEF Filing
    <3>2. CASE attempts'[r] = attempts[r]
      <4>1. ThisTime(r)' = ThisTime(r) /\ \A c \in cases' : c.by = r => c.attempt <= attempts'[r]
        BY <1>0, <2>1, <3>2 DEF ThisTime, Filing
      <4>2. CASE pc'[r] \in {"idle", "failed", "rejected"}
        BY <4>1, <4>2 DEF Filing
      <4>3. CASE /\ pc[r] \in {"found", "insert", "load", "write", "resolve"}
                 /\ pc'[r] \in {"found", "insert", "load", "write", "resolve", "reply"}
        BY <1>0, <4>1, <4>3 DEF Filing
      <4>4. CASE pc[r] = "resolve" /\ pc'[r] = "number" /\ filed'[r] = 0
        <5>1. ThisTime(r)' = {} /\ 1..filed'[r] = {}
          BY <1>0, <4>1, <4>4 DEF Filing
        <5> QED  BY <4>1, <4>4, <5>1 DEF Filing
      <4>5. CASE /\ filed'[r] = filed[r] /\ at'[r] = at[r]
                 /\ pc[r] \in {"number", "flush"} /\ pc'[r] \in {"flush", "commit"}
        <5>1. Numbering(r)' = Numbering(r)
          BY <1>0, <4>5, NumberingStays
        <5> QED  BY <1>0, <4>1, <4>5, <5>1 DEF Filing
      <4>6. CASE pc[r] = "reply" /\ pc'[r] = "done"
        BY <1>0, <4>1, <4>6 DEF Filing
      <4> QED  BY <1>0, <1>3, <3>2, <4>2, <4>3, <4>4, <4>5, <4>6, Course
    <3> QED  BY <1>3, <3>1, <3>2, Course
  <2> QED  BY <2>2, <2>3, <2>4 DEF ListInv
<1> QED  BY <1>2, <1>3

LEMMA ListNext ==
  ASSUME TypeInv, TypeInv', SuiteInv, SuiteInv', NumberInv, ListInv, [Next]_vars
  PROVE  ListInv'
<1>1. CASE UNCHANGED vars
  BY <1>1 DEF vars, ListInv, Listed, Filing, ThisTime, Numbering
<1>2. ASSUME NEW r \in Authors, Step(r) PROVE ListInv'
  BY <1>2, ListStep
<1> QED  BY <1>1, <1>2 DEF Next, Step

\* An attempt of bulk_create_test_cases files its list from the head: each case commits on
\* its own, so that a failure leaves the first ones, and what is answered is complete.
THEOREM ListsAreFiledInOrderHolds == Spec => []ListsAreFiledInOrder
<1>1. TypeInv /\ ListInv => ListsAreFiledInOrder
  <2> SUFFICES ASSUME TypeInv, ListInv, NEW c \in cases, c.by # None
               PROVE  /\ c.item > 1 => \E d \in cases : /\ d.by = c.by /\ d.attempt = c.attempt
                                                        /\ d.item = c.item - 1
                                                        /\ d.number < c.number
                      /\ \A d \in cases :
                           d.by = c.by /\ d.attempt = c.attempt /\ d.item = c.item => c = d
                      /\ pc[c.by] \in {"reply", "done"} /\ c.attempt = attempts[c.by] =>
                           \E d \in cases : /\ d.by = c.by /\ d.attempt = c.attempt
                                            /\ d.item = req[c.by].items
    BY DEF ListsAreFiledInOrder
  <2>1. Listed(c)
    BY DEF ListInv
  <2>2. c.by \in Authors
    BY DEF TypeInv, TypeOK, Case
  <2>3. Filing(c.by)
    BY <2>2 DEF ListInv
  <2>4. c.attempt = attempts[c.by] => c \in ThisTime(c.by)
    BY DEF ThisTime
  <2>5. pc[c.by] \in {"reply", "done"} /\ c.attempt = attempts[c.by] =>
          \E d \in ThisTime(c.by) : d.item = req[c.by].items
    BY <2>3, <2>4 DEF Filing
  <2>6. c.item > 1 => \E d \in cases : /\ d.by = c.by /\ d.attempt = c.attempt
                                       /\ d.item = c.item - 1 /\ d.number < c.number
    BY <2>1 DEF Listed, Kin
  <2>7. \A d \in cases : d.by = c.by /\ d.attempt = c.attempt /\ d.item = c.item => c = d
    BY <2>1 DEF Listed, Kin
  <2> QED  BY <2>5, <2>6, <2>7 DEF ThisTime
<1>2. Init => ListInv
  BY ListInit
<1>3. TypeInv /\ SuiteInv /\ NumberInv /\ ListInv /\ (TypeInv /\ SuiteInv)'
         /\ [Next]_vars => ListInv'
  BY ListNext
<1> QED  BY <1>1, <1>2, <1>3, NumbersAlways, PTL DEF Spec

-----------------------------------------------------------------------------
(***************************************************************************)
(* Versions and edits                                                      *)
(***************************************************************************)

SameCase(v, w) == v.project = w.project /\ v.number = w.number

\* The version a request builds on was the newest when it looked.
Editing(r) ==
  req[r].kind = "version" /\ pc[r] = "write" =>
    /\ looked[r] <= commits /\ read[r].end <= looked[r]
    /\ \A w \in versions : SameCase(w, read[r]) /\ w.end <= looked[r]
                             => w.version <= read[r].version

\* What v has set in field f, version u shows, or another that came after v has set, or
\* some version overlapped v.
Lasts(v, f, u) ==
  \/ u.content[f] = v.content[f]
  \/ \E w \in versions : /\ SameCase(v, w) /\ w # v
                         /\ (f \in w.supplied /\ w.looked >= v.end) \/ Overlap(v, w)

\* Versions are of cases that are there, and one that rests on a read that came after
\* another's commit has a greater number than it and keeps what it has set.
VersionInv ==
  /\ \A v \in versions : /\ v.number \in 1..counter[v.project]
                         /\ v.looked <= v.end /\ v.end <= commits
  /\ VersionsForkOnlyInARace
  /\ \A v, w \in versions : SameCase(v, w) /\ v # w /\ w.end <= v.looked
                              => w.version < v.version
  /\ \A v, u \in versions : SameCase(v, u) /\ v # u /\ v.end <= u.looked
                              => \A f \in v.supplied : Lasts(v, f, u)
  /\ \A r \in Authors : Editing(r)

LEMMA VersionInit == Init => VersionInv
<1> SUFFICES ASSUME Init PROVE VersionInv
  OBVIOUS
<1>1. PICK k \in 0..Stock :
        /\ counter = [p \in Prefixes |-> IF p = Home THEN k ELSE 0]
        /\ versions = {[project |-> Home, number |-> n, version |-> 1,
                        content |-> [f \in Fields |-> None], supplied |-> Fields,
                        looked |-> 0, end |-> 0] : n \in 1..k}
  BY DEF Init
<1>2. counter[Home] = k
  BY <1>1, DomainAssumption
<1>3. \A v \in versions : /\ v.number \in 1..k /\ v.project = Home /\ v.version = 1
                          /\ v.looked = 0 /\ v.end = 0
  BY <1>1
<1>4. \A v, w \in versions : SameCase(v, w) => v = w
  BY <1>1 DEF SameCase
<1>5. VersionsForkOnlyInARace
  BY <1>3, <1>4 DEF VersionsForkOnlyInARace, SameCase
<1>6. \A r \in Authors : Editing(r)
  BY DEF Init, Editing
<1>7. commits = 0
  BY DEF Init
<1> QED  BY <1>2, <1>3, <1>4, <1>5, <1>6, <1>7 DEF VersionInv

\* Only a version that has been loaded is written.
LEMMA Unloaded ==
  ASSUME TypeInv, NEW r \in Authors, Step(r), ~ LoadVersion(r), req[r].kind = "version"
  PROVE  pc'[r] # "write"
<1>0. pc \in [Authors -> {"idle"} \cup Working \cup Final] /\ Placed(r)
  BY DEF TypeInv, TypeOK
<1>1. pc[r] # "found"
  BY <1>0 DEF Placed, PlacesOf, Final
<1> USE <1>0, <1>1 DEF Rollback, Close, Goto, Entry, db, session, client
<1>2. CASE Begin(r)
  BY <1>2 DEF Begin
<1>3. CASE FindPrefix(r)
  BY <1>3 DEF FindPrefix
<1>4. CASE CreateProject(r)
  BY <1>4 DEF CreateProject
<1>5. CASE LosePrefix(r)
  BY <1>5 DEF LosePrefix
<1>6. CASE CreateSuite(r)
  BY <1>6 DEF CreateSuite
<1>7. CASE Descend(r)
  BY <1>7 DEF Descend
<1>8. CASE InsertPart(r)
  BY <1>8 DEF InsertPart
<1>9. CASE Ambiguous(r)
  BY <1>9 DEF Ambiguous
<1>10. CASE CommitPath(r)
  BY <1>10 DEF CommitPath
<1>11. CASE RejectItem(r)
  BY <1>11 DEF RejectItem
<1>12. CASE BuildExternalId(r)
  BY <1>12 DEF BuildExternalId
<1>13. CASE FlushCase(r)
  BY <1>13 DEF FlushCase
<1>14. CASE LoseNumber(r)
  BY <1>14 DEF LoseNumber
<1>15. CASE CommitCase(r)
  BY <1>15 DEF CommitCase, NextItem
<1>16. CASE LoadVersion(r)
  BY <1>16 DEF LoadVersion
<1>17. CASE CreateVersion(r)
  BY <1>17 DEF CreateVersion
<1>18. CASE Reply(r)
  BY <1>18 DEF Reply
<1>19. CASE Crash(r)
  BY <1>19 DEF Crash
<1>20. CASE Retry(r)
  BY <1>20 DEF Retry
<1> QED  BY <1>2, <1>3, <1>4, <1>5, <1>6, <1>7, <1>8, <1>9, <1>10, <1>11, <1>12, <1>13, <1>14,
            <1>15, <1>16, <1>17, <1>18, <1>19, <1>20 DEF Step, Handle, WriteProject, FilePath,
            FileCase, EditCase

\* A version is added: it comes from the commit, and is the first of its case or the next
\* of the one its request had read.
Added(r, new) ==
  /\ versions' = versions \cup {new} /\ commits' = commits + 1 /\ new \in Version
  /\ new.end = commits + 1 /\ new.looked <= commits
  /\ \/ /\ new.version = 1 /\ new.looked = commits
        /\ \A w \in versions : ~ SameCase(new, w)
        /\ new.number \in 1..counter'[new.project]
     \/ /\ new.version = read[r].version + 1 /\ new.looked = looked[r]
        /\ req[r].kind = "version" /\ pc[r] = "write"
        /\ read[r] \in versions /\ SameCase(new, read[r])
        /\ \A f \in Fields \ new.supplied : new.content[f] = read[r].content[f]
  /\ \A p \in Prefixes : counter[p] <= counter'[p]

LEMMA VersionAdded ==
  ASSUME TypeInv, TypeInv', NumberInv, VersionInv, NEW r \in Authors,
         CommitCase(r) \/ CreateVersion(r)
  PROVE  \E new \in Version : Added(r, new)
<1>0. /\ counter \in [Prefixes -> Nat] /\ commits \in Nat /\ versions' \subseteq Version
      /\ looked \in [Authors -> Nat] /\ Resolved(r) /\ Editing(r)
  BY DEF TypeInv, TypeOK, VersionInv
<1>1. CASE CommitCase(r)
  <2>1. PICK p \in Prefixes : p = Numbering(r)
    <3>1. pc[r] = "commit"
      BY <1>1 DEF CommitCase, NextItem
    <3> QED  BY <3>1, NumberingType
  <2>2. /\ pc[r] = "commit" /\ versions' = versions \cup {FirstVersion(r)}
        /\ counter' = [counter EXCEPT ![p] = number[r]] /\ commits' = commits + 1
    BY <1>1, <2>1 DEF CommitCase, NextItem
  <2>3. PICK new \in Version : new = FirstVersion(r)
    BY <1>0, <2>2
  <2>4. /\ new.project = p /\ new.number = number[r] /\ new.version = 1
        /\ new.looked = commits /\ new.end = commits + 1
    BY <2>1, <2>3 DEF FirstVersion
  <2>5. number[r] = counter[p] + 1 /\ counter[p] \in Nat
    BY <1>0, <2>1, <2>2 DEF NumberInv, Numbered
  <2>6. \A w \in versions : ~ SameCase(new, w)
    <3>1. \A w \in versions : w.number \in 1..counter[w.project]
      BY DEF VersionInv
    <3> QED  BY <2>4, <2>5, <3>1 DEF SameCase
  <2>7. new.number \in 1..counter'[new.project] /\ \A k \in Prefixes : counter[k] <= counter'[k]
    BY <1>0, <2>2, <2>4, <2>5
  <2> QED  BY <1>0, <2>2, <2>3, <2>4, <2>6, <2>7 DEF Added
<1>2. CASE CreateVersion(r)
  <2>1. /\ pc[r] = "write" /\ req[r].kind = "version"
        /\ versions' = versions \cup {NextVersion(r)} /\ commits' = commits + 1
        /\ UNCHANGED counter
    BY <1>2 DEF CreateVersion
  <2>2. PICK new \in Version : new = NextVersion(r)
    BY <1>0, <2>1
  <2>3. /\ new.project = req[r].project /\ new.number = req[r].number
        /\ new.version = read[r].version + 1 /\ new.looked = looked[r] /\ new.end = commits + 1
        /\ new.supplied = {f \in Fields : req[r].content[f] # None}
        /\ new.content = Merged(r)
    BY <2>2 DEF NextVersion
  <2>4. /\ read[r] \in versions /\ SameCase(new, read[r])
    BY <1>0, <2>1, <2>3 DEF Resolved, SameCase
  <2>5. \A f \in Fields \ new.supplied : new.content[f] = read[r].content[f]
    BY <2>3 DEF Merged
  <2>6. new.looked <= commits /\ \A k \in Prefixes : counter[k] <= counter'[k]
    BY <1>0, <2>1, <2>3 DEF Editing
  <2> QED  BY <2>1, <2>2, <2>3, <2>4, <2>5, <2>6 DEF Added
<1> QED  BY <1>1, <1>2

\* The new version is later than those it knew of, and overlaps those it did not.
LEMMA NewOrder ==
  ASSUME TypeInv, VersionInv, NEW r \in Authors, NEW new \in Version, Added(r, new),
         NEW w \in versions, SameCase(new, w)
  PROVE  /\ w # new
         /\ w.end <= new.looked => w.version < new.version
         /\ w.version = new.version => Overlap(new, w) /\ Overlap(w, new)
         /\ ~ new.end <= w.looked
<1>1. /\ commits \in Nat /\ w \in Version /\ w.end \in Nat /\ w.looked \in Nat /\ w.version \in Nat
      /\ new.end \in Nat /\ new.looked \in Nat
  BY DEF TypeInv, TypeOK, Version
<1>2. w.looked <= w.end /\ w.end <= commits /\ new.end = commits + 1
  BY DEF VersionInv, Added
<1>3. /\ read[r] \in versions /\ SameCase(w, read[r]) /\ new.version = read[r].version + 1
      /\ new.looked = looked[r] /\ req[r].kind = "version" /\ pc[r] = "write"
  BY DEF Added, SameCase
<1>4. read[r].version \in Nat
  BY <1>3 DEF TypeInv, TypeOK, Version
<1>5. w.end <= new.looked => w.version <= read[r].version
  BY <1>3 DEF VersionInv, Editing
<1>6. w.version = new.version => new.looked < w.end
  BY <1>1, <1>3, <1>4, <1>5
<1> QED  BY <1>1, <1>2, <1>3, <1>4, <1>5, <1>6 DEF Overlap

\* The new version shows what an earlier one has set, as the one it was built on did.
LEMMA NewLasts ==
  ASSUME TypeInv, VersionInv, NEW r \in Authors, NEW new \in Version, Added(r, new),
         NEW v \in versions, SameCase(v, new), v.end <= new.looked, NEW f \in v.supplied
  PROVE  Lasts(v, f, new)'
<1>0. /\ v \in Version /\ v.end \in Nat /\ v.looked \in Nat /\ v.version \in Nat /\ f \in Fields
      /\ new.looked \in Nat
  BY DEF TypeInv, TypeOK, Version
<1>1. /\ read[r] \in versions /\ SameCase(v, read[r]) /\ new.looked = looked[r]
      /\ req[r].kind = "version" /\ pc[r] = "write"
      /\ \A g \in Fields \ new.supplied : new.content[g] = read[r].content[g]
  BY DEF Added, SameCase
<1>2. new \in versions' /\ versions \subseteq versions' /\ new # v
  BY NewOrder DEF Added, SameCase
<1>3. CASE f \in new.supplied
  BY <1>0, <1>2, <1>3 DEF Lasts
<1>4. CASE f \notin new.supplied
  <2>1. PICK b \in versions : b = read[r]
    BY <1>1
  <2>2. new.content[f] = b.content[f] /\ SameCase(v, b)
    BY <1>0, <1>1, <1>4, <2>1
  <2>3. CASE b = v
    BY <2>2, <2>3 DEF Lasts
  <2>4. CASE b # v /\ Overlap(v, b)
    BY <1>2, <2>2, <2>4 DEF Lasts
  <2>5. CASE b # v /\ ~ Overlap(v, b)
    <3>1. b.end \in Nat /\ b.looked \in Nat /\ b.version \in Nat
      BY DEF TypeInv, TypeOK, Version
    <3>2. v.version <= b.version
      BY <1>1, <2>1 DEF VersionInv, Editing
    <3>3. ~ b.end <= v.looked
      BY <1>0, <2>2, <2>5, <3>1, <3>2 DEF VersionInv
    <3>4. v.end <= b.looked
      BY <1>0, <2>5, <3>1, <3>3 DEF Overlap
    <3>5. Lasts(v, f, b)
      BY <2>2, <2>5, <3>4 DEF VersionInv
    <3> QED  BY <1>2, <2>2, <3>5 DEF Lasts
  <2> QED  BY <2>3, <2>4, <2>5
<1> QED  BY <1>3, <1>4

LEMMA VersionStep ==
  ASSUME TypeInv, TypeInv', NumberInv, VersionInv, NEW r \in Authors, Step(r)
  PROVE  VersionInv'
<1>0. /\ versions \subseteq Version /\ versions' \subseteq Version /\ commits \in Nat
      /\ looked \in [Authors -> Nat] /\ counter \in [Prefixes -> Nat]
      /\ counter' \in [Prefixes -> Nat] /\ pc \in [Authors -> {"idle"} \cup Working \cup Final]
      /\ commits' \in {commits, commits + 1} /\ req' = req /\ versions \subseteq versions'
  BY RequestStays, TablesGrow DEF TypeInv, TypeOK
<1>1. \A v \in Version : /\ v.number \in Nat /\ v.project \in Prefixes /\ v.version \in Nat
                         /\ v.looked \in Nat /\ v.end \in Nat
  BY DEF Version
<1>2. CASE CommitCase(r) \/ CreateVersion(r)
  <2>1. PICK new \in Version : Added(r, new)
    BY <1>2, VersionAdded
  <2>2. /\ versions' = versions \cup {new} /\ commits' = commits + 1
        /\ new.end = commits + 1 /\ new.looked <= commits
        /\ \A p \in Prefixes : counter[p] <= counter'[p]
    BY <2>1 DEF Added
  <2>3. /\ \A w \in versions : SameCase(new, w) =>
             /\ w # new
             /\ w.end <= new.looked => w.version < new.version
             /\ w.version = new.version => Overlap(new, w) /\ Overlap(w, new)
             /\ ~ new.end <= w.looked
    BY <2>1, NewOrder
  <2>4. ASSUME NEW v \in versions'
        PROVE  v.number \in 1..counter'[v.project] /\ v.looked <= v.end /\ v.end <= commits'
    <3>1. CASE v = new
      <4>1. new.number \in 1..counter'[new.project]
        <5>1. CASE \E w \in versions : SameCase(new, w)
          <6>1. PICK w \in versions : SameCase(new, w) /\ w.number \in 1..counter[w.project]
            BY <5>1 DEF VersionInv
          <6> QED  BY <1>0, <1>1, <2>2, <6>1 DEF SameCase
        <5>2. CASE \A w \in versions : ~ SameCase(new, w)
          BY <2>1, <5>2 DEF Added
        <5> QED  BY <5>1, <5>2
      <4> QED  BY <1>0, <1>1, <2>2, <3>1, <4>1
    <3>2. CASE v \in versions
      <4>1. v.number \in 1..counter[v.project] /\ v.looked <= v.end /\ v.end <= commits
        BY <3>2 DEF VersionInv
      <4> QED  BY <1>0, <1>1, <2>2, <3>2, <4>1
    <3> QED  BY <2>2, <3>1, <3>2
  <2>5. ASSUME NEW v \in versions', NEW w \in versions', SameCase(v, w), v # w,
               v.version = w.version
        PROVE  Overlap(v, w)
    <3>1. CASE v \in versions /\ w \in versions
      BY <2>5, <3>1 DEF VersionInv, VersionsForkOnlyInARace, SameCase
    <3>2. CASE v = new /\ w \in versions
      BY <2>3, <2>5, <3>2
    <3>3. CASE w = new /\ v \in versions
      BY <2>3, <2>5, <3>3 DEF SameCase
    <3> QED  BY <2>2, <2>5, <3>1, <3>2, <3>3
  <2>6. ASSUME NEW v \in versions', v.version > 1
        PROVE  \E w \in versions' : /\ SameCase(v, w) /\ w.version = v.version - 1
                                    /\ w.end <= v.looked
    <3>1. CASE v \in versions
      <4>1. PICK w \in versions : SameCase(v, w) /\ w.version = v.version - 1 /\ w.end <= v.looked
        BY <2>6, <3>1 DEF VersionInv, VersionsForkOnlyInARace, VersionsOf, SameCase
      <4> QED  BY <1>0, <4>1
    <3>2. CASE v = new
      <4>1. /\ read[r] \in versions /\ SameCase(new, read[r]) /\ new.looked = looked[r]
            /\ new.version = read[r].version + 1 /\ req[r].kind = "version" /\ pc[r] = "write"
        BY <2>1, <2>6, <3>2 DEF Added
      <4>2. read[r].end <= looked[r] /\ read[r].version \in Nat
        BY <1>0, <1>1, <4>1 DEF VersionInv, Editing
      <4> QED  BY <1>0, <3>2, <4>1, <4>2
    <3> QED  BY <2>2, <3>1, <3>2
  <2>7. VersionsForkOnlyInARace'
    BY <2>5, <2>6 DEF VersionsForkOnlyInARace, VersionsOf, SameCase, Overlap
  <2>8. ASSUME NEW v \in versions', NEW w \in versions', SameCase(v, w), v # w,
               w.end <= v.looked
        PROVE  w.version < v.version
    <3>1. CASE v \in versions /\ w \in versions
      BY <2>8, <3>1 DEF VersionInv
    <3>2. CASE v = new /\ w \in versions
      BY <2>3, <2>8, <3>2
    <3>3. CASE w = new /\ v \in versions
      BY <2>3, <2>8, <3>3 DEF SameCase
    <3> QED  BY <2>2, <2>8, <3>1, <3>2, <3>3
  <2>9. ASSUME NEW v \in versions', NEW u \in versions', SameCase(v, u), v # u,
               v.end <= u.looked, NEW f \in v.supplied
        PROVE  Lasts(v, f, u)'
    <3>1. CASE v \in versions /\ u \in versions
      <4>1. Lasts(v, f, u)
        BY <2>9, <3>1 DEF VersionInv
      <4> QED  BY <1>0, <4>1 DEF Lasts
    <3>2. CASE u = new /\ v \in versions
      BY <2>1, <2>9, <3>2, NewLasts
    <3>3. CASE v = new /\ u \in versions
      BY <2>3, <2>9, <3>3
    <3> QED  BY <2>2, <2>9, <3>1, <3>2, <3>3
  <2>10. ASSUME NEW q \in Authors, req[q].kind = "version", pc'[q] = "write"
         PROVE  /\ looked'[q] <= commits' /\ read'[q].end <= looked'[q]
                /\ \A w \in versions' : SameCase(w, read'[q]) /\ w.end <= looked'[q]
                                          => w.version <= read'[q].version
    <3>1. q # r
      <4>1. ~ LoadVersion(r)
        BY <1>2 DEF LoadVersion, CommitCase, CreateVersion
      <4> QED  BY <2>10, <4>1, Unloaded
    <3>2. pc[q] = "write" /\ looked'[q] = looked[q] /\ read'[q] = read[q]
      BY <2>10, <3>1, OthersStay DEF TypeInv
    <3>3. /\ looked[q] <= commits /\ read[q].end <= looked[q]
          /\ \A w \in versions : SameCase(w, read[q]) /\ w.end <= looked[q]
                                   => w.version <= read[q].version
      BY <2>10, <3>2 DEF VersionInv, Editing
    <3>4. ~ new.end <= looked[q] /\ looked[q] \in Nat
      BY <1>0, <2>2, <3>3
    <3> QED  BY <1>0, <2>2, <3>2, <3>3, <3>4
  <2>11. \A q \in Authors : Editing(q)'
    BY <1>0, <2>10 DEF Editing
  <2> QED  BY <2>4, <2>7, <2>8, <2>9, <2>11 DEF VersionInv
<1>3. CASE ~ (CommitCase(r) \/ CreateVersion(r))
  <2>1. UNCHANGED <<versions, counter>>
    BY <1>3, CasesChange, VersionsChange
  <2>2. \A v \in versions' : /\ v.number \in 1..counter'[v.project]
                             /\ v.looked <= v.end /\ v.end <= commits'
    BY <1>0, <1>1, <2>1 DEF VersionInv
  <2>3. ASSUME NEW q \in Authors PROVE Editing(q)'
    <3>1. CASE q # r
      <4>1. /\ pc'[q] = pc[q] /\ looked'[q] = looked[q] /\ read'[q] = read[q]
            /\ looked[q] \in Nat /\ Editing(q)
        BY <1>0, <3>1, OthersStay DEF TypeInv, VersionInv
      <4> QED  BY <1>0, <2>1, <4>1 DEF Editing
    <3>2. CASE q = r /\ LoadVersion(r)
      <4>1. PICK v \in Current(req[r].project, req[r].number) : read' = [read EXCEPT ![r] = v]
        BY <3>2 DEF LoadVersion
      <4>2. looked'[r] = commits /\ commits' = commits /\ read'[r] = v
        BY <1>0, <3>2, <4>1 DEF LoadVersion, db, TypeInv, TypeOK
      <4>3. v \in versions /\ \A w \in versions : SameCase(w, v) => w.version <= v.version
        BY DEF Current, VersionsOf, SameCase
      <4>4. v.end <= commits
        BY <4>3 DEF VersionInv
      <4> QED  BY <1>0, <2>1, <3>2, <4>2, <4>3, <4>4 DEF Editing
    <3>3. CASE q = r /\ ~ LoadVersion(r)
      BY <1>0, <3>3, Unloaded DEF Editing
    <3> QED  BY <3>1, <3>2, <3>3
  <2>4. VersionsForkOnlyInARace'
    BY <2>1 DEF VersionInv, VersionsForkOnlyInARace, VersionsOf
  <2>5. \A v, u \in versions' : SameCase(v, u) /\ v # u /\ v.end <= u.looked
                                  => \A f \in v.supplied : Lasts(v, f, u)'
    BY <2>1 DEF VersionInv, Lasts
  <2> QED  BY <2>1, <2>2, <2>3, <2>4, <2>5 DEF VersionInv
<1> QED  BY <1>2, <1>3

LEMMA VersionNext ==
  ASSUME TypeInv, TypeInv', NumberInv, VersionInv, [Next]_vars
  PROVE  VersionInv'
<1>1. CASE UNCHANGED vars
  BY <1>1 DEF vars, VersionInv, VersionsForkOnlyInARace, VersionsOf, Editing, Lasts
<1>2. ASSUME NEW r \in Authors, Step(r) PROVE VersionInv'
  BY <1>2, VersionStep
<1> QED  BY <1>1, <1>2 DEF Next, Step

LEMMA VersionsAlways == Spec => [](TypeInv /\ VersionInv)
<1>1. Init => VersionInv
  BY VersionInit
<1>2. TypeInv /\ NumberInv /\ VersionInv /\ TypeInv' /\ [Next]_vars => VersionInv'
  BY VersionNext
<1> QED  BY <1>1, <1>2, NumbersAlways, PTL DEF Spec

\* The history of a case is a line but where two create_version calls overlapped: each
\* builds on a version that was the newest when it looked.
THEOREM VersionsForkOnlyInARaceHolds == Spec => []VersionsForkOnlyInARace
<1>1. TypeInv /\ VersionInv => VersionsForkOnlyInARace
  BY DEF VersionInv
<1> QED  BY <1>1, VersionsAlways, PTL

\* What an edit has set, the current version shows, unless a later edit set it anew or some
\* edit overlapped it: create_version copies what is not supplied from the version it read.
THEOREM EditsSurviveHolds == Spec => []EditsSurvive
<1>1. TypeInv /\ VersionInv => EditsSurvive
  <2> SUFFICES ASSUME TypeInv, VersionInv, NEW v \in versions, NEW f \in v.supplied,
                      NEW cur \in Current(v.project, v.number)
               PROVE  \/ cur.content[f] = v.content[f]
                      \/ \E w \in VersionsOf(v.project, v.number) \ {v} :
                           (f \in w.supplied /\ w.looked >= v.end) \/ Overlap(v, w)
    BY DEF EditsSurvive
  <2>1. /\ cur \in versions /\ SameCase(v, cur)
        /\ \A w \in versions : SameCase(v, w) => w.version <= cur.version
    BY DEF Current, VersionsOf, SameCase
  <2>2. /\ v.end \in Nat /\ v.looked \in Nat /\ v.version \in Nat
        /\ cur.end \in Nat /\ cur.looked \in Nat /\ cur.version \in Nat
    BY <2>1 DEF TypeInv, TypeOK, Version
  <2>3. CASE cur = v
    BY <2>3
  <2>4. CASE cur # v /\ Overlap(v, cur)
    BY <2>1, <2>4 DEF VersionsOf, SameCase
  <2>5. CASE cur # v /\ ~ Overlap(v, cur)
    <3>1. v.version <= cur.version
      BY <2>1 DEF SameCase
    <3>2. ~ cur.end <= v.looked
      BY <2>1, <2>2, <2>5, <3>1 DEF VersionInv
    <3>3. v.end <= cur.looked
      BY <2>2, <2>5, <3>2 DEF Overlap
    <3>4. Lasts(v, f, cur)
      BY <2>1, <2>5, <3>3 DEF VersionInv
    <3> QED  BY <3>4 DEF Lasts, VersionsOf, SameCase
  <2> QED  BY <2>3, <2>4, <2>5
<1> QED  BY <1>1, VersionsAlways, PTL

-----------------------------------------------------------------------------
(***************************************************************************)
(* Progress: nobody waits in a circle, and no step undoes progress, so     *)
(* that a server that keeps running answers every request.                 *)
(***************************************************************************)

\* A project's row is locked only by a request at its commit, which numbered its case there.
LockInv ==
  \A p \in Prefixes :
    owner[p] # None => pc[owner[p]] = "commit" /\ Numbering(owner[p]) = p

\* The guards of r's handler steps: the lookup of a part finds none, one or several suites,
\* there is a current version to load, and only the write of a counter can be made to wait.
Ready(r) ==
  \/ pc[r] \in {"idle", "found", "insert", "number", "commit", "reply"}
  \/ /\ pc[r] = "resolve"
     /\ \/ depth[r] = Len(req[r].path)
        \/ /\ depth[r] < Len(req[r].path)
           /\ \/ Matching(r, Part(r)) = {}
              \/ \E s \in Matching(r, Part(r)) : Matching(r, Part(r)) = {s}
              \/ Cardinality(Matching(r, Part(r))) > 1
  \/ pc[r] = "flush" /\ owner[Numbering(r)] = None
  \/ pc[r] = "load" /\ Current(req[r].project, req[r].number) # {}
  \/ pc[r] = "write" /\ req[r].kind \in {"project", "version"}

\* A request that is not settled can take a step, or waits for one that can.
NeverStuck ==
  \A r \in Authors :
    pc[r] \notin Final =>
      Ready(r) \/ \E s \in Authors \ {r} : owner[Numbering(r)] = s /\ Ready(s)

\* How far a place is from the end of the client's attempt; the cases of a list are filed in
\* one stage.
Stage(p) ==
  CASE p \in {"found", "resolve", "insert", "load"} -> 5 [] p = "write" -> 4
    [] p \in {"number", "flush", "commit"} -> 3 [] p = "reply" -> 2
    [] p \in Final -> 1 [] p = "idle" -> 0

\* r uses up an attempt, gets to a later stage of one, resolves a part of its path, files an
\* item of its list, or gets on with one.
Advances(r) ==
  \/ attempts[r] < attempts'[r]
  \/ /\ attempts'[r] = attempts[r]
     /\ \/ Stage(pc'[r]) < Stage(pc[r])
        \/ /\ pc[r] = "resolve" /\ pc'[r] = pc[r]
           /\ depth[r] < depth'[r] /\ depth'[r] <= Len(req[r].path)
        \/ /\ pc[r] = "commit" /\ pc'[r] = "number"
           /\ filed[r] < filed'[r] /\ filed'[r] < req[r].items
        \/ /\ <<pc[r], pc'[r]>> \in {<<"number", "flush">>, <<"flush", "commit">>}
           /\ filed'[r] = filed[r]

\* Nothing of that changes for s.
StaysPut(s) ==
  attempts'[s] = attempts[s] /\ pc'[s] = pc[s] /\ depth'[s] = depth[s] /\ filed'[s] = filed[s]

\* Every step takes one request further, and none further back.
EveryStepAdvances ==
  [][\E r \in Authors : Advances(r) /\ \A s \in Authors \ {r} : StaysPut(s)]_vars

\* A list that is being filed has items left.
Unfinished ==
  \A r \in Authors : pc[r] \in {"number", "flush", "commit"} => filed[r] < req[r].items

\* Tables and sessions hold finitely many suites, and a version's number is bounded by the
\* time of its commit.
Finite == IsFiniteSet(suites) /\ \A r \in Authors : IsFiniteSet(mine[r])

Aged == \A v \in versions : v.version <= v.end + 1

ProgressInv == LockInv /\ Unfinished /\ Finite /\ Aged

LEMMA ProgressInit == Init => ProgressInv
<1> SUFFICES ASSUME Init PROVE ProgressInv
  OBVIOUS
<1>1. LockInv /\ Unfinished
  BY DEF Init, LockInv, Unfinished
<1>2. Finite
  BY FS_EmptySet, FS_Singleton DEF Init, Finite
<1>3. Aged
  BY DEF Init, Aged
<1> QED  BY <1>1, <1>2, <1>3 DEF ProgressInv

\* A lock is taken on the way to the commit, and given up on the way out.
LEMMA OwnersChange ==
  ASSUME TypeInv, NEW r \in Authors, Step(r), ~ FlushCase(r), ~ CommitCase(r)
  PROVE  \/ owner' = owner /\ pc[r] # "commit"
         \/ \A p \in Prefixes : owner'[p] = IF owner[p] = r THEN None ELSE owner[p]
<1>0. pc \in [Authors -> {"idle"} \cup Working \cup Final]
  BY DEF TypeInv, TypeOK
<1> USE <1>0 DEF Rollback, Close, db
<1>1. CASE Begin(r) \/ FindPrefix(r) \/ CreateProject(r) \/ CreateSuite(r) \/ Descend(r)
  BY <1>1 DEF Begin, FindPrefix, CreateProject, CreateSuite, Descend
<1>2. CASE InsertPart(r) \/ CommitPath(r) \/ BuildExternalId(r) \/ LoadVersion(r)
  BY <1>2 DEF InsertPart, CommitPath, BuildExternalId, LoadVersion
<1>3. CASE CreateVersion(r) \/ Reply(r) \/ Retry(r)
  BY <1>3 DEF CreateVersion, Reply, Retry
<1>4. CASE LosePrefix(r) \/ Ambiguous(r) \/ RejectItem(r) \/ LoseNumber(r) \/ Crash(r)
  BY <1>4 DEF LosePrefix, Ambiguous, RejectItem, LoseNumber, Crash
<1> QED  BY <1>1, <1>2, <1>3, <1>4 DEF Step, Handle, WriteProject, FilePath, FileCase, EditCase

LEMMA LockStep ==
  ASSUME TypeInv, TypeInv', SuiteInv, SuiteInv', LockInv, NEW r \in Authors, Step(r)
  PROVE  LockInv'
<1>0. /\ owner \in [Prefixes -> Authors \cup {None}] /\ None \notin Authors
      /\ owner' \in [Prefixes -> Authors \cup {None}]
      /\ pc \in [Authors -> {"idle"} \cup Working \cup Final]
      /\ suites \subseteq suites'
  BY DomainAssumption, TablesGrow DEF TypeInv, TypeOK
<1>1. ASSUME NEW p \in Prefixes, NEW q \in Authors \ {r}, owner[p] = q
      PROVE  pc'[q] = "commit" /\ Numbering(q)' = p
  <2>1. pc[q] = "commit" /\ Numbering(q) = p
    BY <1>0, <1>1 DEF LockInv
  <2>2. pc'[q] = pc[q] /\ at'[q] = at[q]
    BY OthersStay DEF TypeInv
  <2> QED  BY <1>0, <2>1, <2>2, NumberingStays
<1>2. CASE FlushCase(r)
  <2>1. /\ pc[r] = "flush" /\ pc'[r] = "commit" /\ at' = at
        /\ owner' = [owner EXCEPT ![Numbering(r)] = r]
    BY <1>0, <1>2 DEF FlushCase, Goto, session
  <2>2. Numbering(r)' = Numbering(r)
    BY <1>0, <2>1, NumberingStays
  <2>3. pc[r] # "commit"
    BY <2>1
  <2> QED  BY <1>0, <1>1, <2>1, <2>2, <2>3 DEF LockInv
<1>3. CASE CommitCase(r)
  <2>1. owner' = [owner EXCEPT ![Numbering(r)] = None]
    BY <1>3 DEF CommitCase, NextItem
  <2>2. \A p \in Prefixes : owner[p] = r => p = Numbering(r)
    BY <1>0 DEF LockInv
  <2> QED  BY <1>0, <1>1, <2>1, <2>2 DEF LockInv
<1>4. CASE ~ FlushCase(r) /\ ~ CommitCase(r)
  <2>1. CASE owner' = owner /\ pc[r] # "commit"
    <3>1. \A p \in Prefixes : owner[p] # r
      BY <1>0, <2>1 DEF LockInv
    <3> QED  BY <1>0, <1>1, <2>1, <3>1 DEF LockInv
  <2>2. CASE \A p \in Prefixes : owner'[p] = IF owner[p] = r THEN None ELSE owner[p]
    BY <1>0, <1>1, <2>2 DEF LockInv
  <2> QED  BY <1>4, <2>1, <2>2, OwnersChange
<1> QED  BY <1>2, <1>3, <1>4

\* A list is begun with items to file, and goes on while there are more.
LEMMA UnfinishedStep ==
  ASSUME TypeInv, Unfinished, NEW r \in Authors, Step(r)
  PROVE  Unfinished'
<1>0. /\ pc \in [Authors -> {"idle"} \cup Working \cup Final] /\ filed \in [Authors -> Nat]
      /\ req[r].items \in Nat /\ (req[r].kind = "case" => req[r].items = 1)
      /\ req[r].kind \in Kinds /\ Holds(r) /\ Placed(r) /\ req' = req
      /\ (pc[r] \in {"number", "flush", "commit"} => filed[r] < req[r].items)
  BY RequestFacts, RequestStays DEF TypeInv, TypeOK, Unfinished
<1>1. \A q \in Authors \ {r} : pc'[q] = pc[q] /\ filed'[q] = filed[q]
  BY OthersStay DEF TypeInv
<1>2. pc'[r] \in {"number", "flush", "commit"} => filed'[r] < req[r].items
  <2> USE <1>0 DEF Rollback, Close, Goto, Holds, db, session, client
  <2>1. CASE Begin(r)
    BY <2>1 DEF Begin, Entry, Kinds
  <2>2. CASE FindPrefix(r) \/ CreateProject(r) \/ CreateSuite(r) \/ Reply(r) \/ Retry(r)
    BY <2>2 DEF FindPrefix, CreateProject, CreateSuite, Reply, Retry
  <2>3. CASE LosePrefix(r) \/ Ambiguous(r) \/ RejectItem(r) \/ LoseNumber(r) \/ Crash(r)
    BY <2>3 DEF LosePrefix, Ambiguous, RejectItem, LoseNumber, Crash
  <2>4. CASE Descend(r) \/ InsertPart(r)
    BY <2>4 DEF Descend, InsertPart
  <2>5. CASE CommitPath(r)
    BY <2>5 DEF CommitPath
  <2>6. CASE BuildExternalId(r) \/ FlushCase(r)
    BY <2>6 DEF BuildExternalId, FlushCase
  <2>7. CASE CommitCase(r)
    BY <2>7 DEF CommitCase, NextItem
  <2>8. CASE LoadVersion(r) \/ CreateVersion(r)
    BY <2>8 DEF LoadVersion, CreateVersion
  <2> QED  BY <2>1, <2>2, <2>3, <2>4, <2>5, <2>6, <2>7, <2>8
           DEF Step, Handle, WriteProject, FilePath, FileCase, EditCase
<1> QED  BY <1>0, <1>1, <1>2 DEF Unfinished

\* Suites are added one at a time, and a path's when it is committed.
LEMMA FiniteStep ==
  ASSUME TypeInv, Finite, NEW r \in Authors, Step(r)
  PROVE  Finite'
<1>0. mine \in [Authors -> SUBSET Suite] /\ (pc[r] # "resolve" => mine[r] = {})
  BY DEF TypeInv, TypeOK, Holds
<1>1. \A q \in Authors \ {r} : IsFiniteSet(mine'[q])
  BY OthersStay DEF TypeInv, Finite
<1>2. CASE CreateSuite(r)
  <2>1. PICK s : suites' = suites \cup {s} /\ mine' = mine
    BY <1>2 DEF CreateSuite, session
  <2> QED  BY <2>1, FS_AddElement DEF Finite
<1>3. CASE InsertPart(r)
  <2>1. PICK s : suites' = suites /\ mine' = [mine EXCEPT ![r] = @ \cup {s}]
    BY <1>3 DEF InsertPart
  <2>2. mine'[r] = mine[r] \cup {s}
    BY <1>0, <2>1
  <2>3. IsFiniteSet(mine'[r])
    BY <2>2, FS_AddElement DEF Finite
  <2> QED  BY <1>1, <2>1, <2>3 DEF Finite
<1>4. CASE CommitPath(r)
  <2> DEFINE stamped == {[s EXCEPT !.end = commits + 1] : s \in mine[r]}
  <2>1. suites' = suites \cup stamped /\ mine'[r] = {}
    BY <1>0, <1>4 DEF CommitPath
  <2>2. IsFiniteSet(stamped)
    <3> DEFINE stamp == [s \in mine[r] |-> [s EXCEPT !.end = commits + 1]]
    <3>1. stamp \in Surjection(mine[r], stamped)
      BY DEF Surjection
    <3> QED  BY <3>1, FS_Surjection DEF Finite
  <2> HIDE DEF stamped
  <2> QED  BY <1>1, <2>1, <2>2, FS_Union, FS_EmptySet DEF Finite
<1>5. CASE ~ (CreateSuite(r) \/ InsertPart(r) \/ CommitPath(r))
  <2>1. suites' = suites /\ mine'[r] \in {mine[r], {}}
    <3> USE <1>0 DEF Rollback, Close, db, session, client
    <3>1. CASE Begin(r) \/ FindPrefix(r) \/ CreateProject(r) \/ Descend(r) \/ BuildExternalId(r)
      BY <3>1 DEF Begin, FindPrefix, CreateProject, Descend, BuildExternalId
    <3>2. CASE LosePrefix(r) \/ Ambiguous(r) \/ RejectItem(r) \/ LoseNumber(r) \/ Crash(r)
      BY <3>2 DEF LosePrefix, Ambiguous, RejectItem, LoseNumber, Crash
    <3>3. CASE FlushCase(r) \/ CommitCase(r) \/ LoadVersion(r) \/ CreateVersion(r)
      BY <3>3 DEF FlushCase, CommitCase, LoadVersion, CreateVersion
    <3>4. CASE Reply(r) \/ Retry(r)
      BY <3>4 DEF Reply, Retry
    <3> QED  BY <1>5, <3>1, <3>2, <3>3, <3>4
             DEF Step, Handle, WriteProject, FilePath, FileCase, EditCase
  <2> QED  BY <1>1, <2>1, FS_EmptySet DEF Finite
<1> QED  BY <1>2, <1>3, <1>4, <1>5

\* A version is one above one that was committed before it.
LEMMA AgedStep ==
  ASSUME TypeInv, TypeInv', NumberInv, VersionInv, Aged, NEW r \in Authors, Step(r)
  PROVE  Aged'
<1>0. versions \subseteq Version /\ commits \in Nat /\ \A v \in versions : v.end <= commits
  BY DEF TypeInv, TypeOK, VersionInv
<1>1. \A v \in Version : v.version \in Nat /\ v.end \in Nat
  BY DEF Version
<1>2. CASE CommitCase(r) \/ CreateVersion(r)
  <2>1. PICK new \in Version : Added(r, new)
    BY <1>2, VersionAdded
  <2>2. /\ versions' = versions \cup {new} /\ new.end = commits + 1
        /\ \/ new.version = 1
           \/ new.version = read[r].version + 1 /\ read[r] \in versions
    BY <2>1 DEF Added
  <2>3. new.version <= new.end + 1
    <3>1. CASE new.version = 1
      BY <1>0, <2>2, <3>1
    <3>2. CASE new.version = read[r].version + 1 /\ read[r] \in versions
      <4>1. read[r].version <= read[r].end + 1 /\ read[r].end <= commits
            /\ read[r].version \in Nat /\ read[r].end \in Nat
        BY <1>0, <1>1, <3>2 DEF Aged
      <4> QED  BY <1>0, <2>2, <3>2, <4>1
    <3> QED  BY <2>2, <3>1, <3>2
  <2> QED  BY <2>2, <2>3 DEF Aged
<1>3. CASE ~ (CommitCase(r) \/ CreateVersion(r))
  BY <1>3, VersionsChange DEF Aged
<1> QED  BY <1>2, <1>3

LEMMA ProgressNext ==
  ASSUME TypeInv, TypeInv', SuiteInv, SuiteInv', NumberInv, VersionInv, ProgressInv, [Next]_vars
  PROVE  ProgressInv'
<1>1. CASE UNCHANGED vars
  BY <1>1 DEF vars, ProgressInv, LockInv, Numbering, Unfinished, Finite, Aged
<1>2. ASSUME NEW r \in Authors, Step(r) PROVE ProgressInv'
  BY <1>2, LockStep, UnfinishedStep, FiniteStep, AgedStep DEF ProgressInv
<1> QED  BY <1>1, <1>2 DEF Next, Step

LEMMA ProgressAlways == Spec => [](TypeInv /\ VersionInv /\ ProgressInv)
<1>1. Init => ProgressInv
  BY ProgressInit
<1>2. /\ TypeInv /\ SuiteInv /\ NumberInv /\ VersionInv /\ ProgressInv
      /\ (TypeInv /\ SuiteInv)' /\ [Next]_vars
      => ProgressInv'
  BY ProgressNext
<1> QED  BY <1>1, <1>2, NumbersAlways, VersionsAlways, PTL DEF Spec

\* Of finitely many versions' numbers one is the greatest.
LEMMA Greatest ==
  ASSUME NEW N \in Nat, NEW T \in SUBSET Nat, T # {}, \A k \in T : k <= N
  PROVE  \E m \in T : \A k \in T : k <= m
<1> DEFINE D == {N - k : k \in T}
<1>1. \A k \in T : k \in Nat /\ k <= N /\ N - k \in Nat
  OBVIOUS
<1>2. D \subseteq Nat /\ D # {}
  BY <1>1
<1>3. PICK d \in D : \A e \in D : ~ (<<e, d>> \in OpToRel(<, Nat))
  BY <1>2, WFMin, NatLessThanWellFounded
<1>4. \A i, j \in Nat : i < j => <<i, j>> \in OpToRel(<, Nat)
  BY Zenon DEF OpToRel
<1>5. \A e \in D : ~ (e < d)
  BY <1>2, <1>3, <1>4, Zenon
<1>6. PICK m \in T : d = N - m
  OBVIOUS
<1>7. ASSUME NEW k \in T PROVE k <= m
  <2>1. ~ (N - k < N - m)
    BY <1>5, <1>6
  <2>2. k \in Nat /\ m \in Nat
    BY <1>1
  <2> QED  BY <2>1, <2>2
<1> QED  BY <1>7

\* A case that has a version has a current one.
LEMMA CurrentIsThere ==
  ASSUME TypeInv, VersionInv, Aged, NEW p, NEW n, VersionsOf(p, n) # {}
  PROVE  Current(p, n) # {}
<1>0. /\ versions \subseteq Version /\ commits \in Nat
      /\ \A v \in Version : v.version \in Nat /\ v.end \in Nat
  BY DEF TypeInv, TypeOK, Version
<1> DEFINE T == {v.version : v \in VersionsOf(p, n)}
<1>1. \A v \in VersionsOf(p, n) : v.version \in 0..(commits + 1)
  <2> SUFFICES ASSUME NEW v \in VersionsOf(p, n) PROVE v.version \in 0..(commits + 1)
    OBVIOUS
  <2>1. /\ v \in versions /\ v.version <= v.end + 1 /\ v.end <= commits
        /\ v.version \in Nat /\ v.end \in Nat
    BY <1>0 DEF VersionsOf, VersionInv, Aged
  <2> QED  BY <1>0, <2>1
<1>2. T \in SUBSET Nat /\ T # {} /\ commits + 1 \in Nat /\ \A k \in T : k <= commits + 1
  BY <1>0, <1>1
<1> HIDE DEF T
<1>3. PICK m \in T : \A k \in T : k <= m
  BY <1>2, Greatest
<1>4. PICK v \in VersionsOf(p, n) : v.version = m
  BY DEF T
<1>5. \A w \in VersionsOf(p, n) : w.version <= v.version
  BY <1>3, <1>4 DEF T
<1> QED  BY <1>5 DEF Current

\* Whoever waits waits for a project's row, that is for a request about to commit a case,
\* which waits for nobody: the lock on the counter never makes a circle, and every lookup
\* (a part found twice, too) has an outcome.
THEOREM NobodyWaitsInACircle == Spec => [](LockInv /\ NeverStuck)
<1>1. TypeInv /\ VersionInv /\ ProgressInv => LockInv /\ NeverStuck
  <2> SUFFICES ASSUME TypeInv, VersionInv, ProgressInv, NEW r \in Authors, pc[r] \notin Final,
                      ~ Ready(r)
               PROVE  \E s \in Authors \ {r} : owner[Numbering(r)] = s /\ Ready(s)
    BY DEF ProgressInv, NeverStuck
  <2>0. /\ pc[r] \in {"idle"} \cup Working \cup Final /\ Placed(r) /\ Resolved(r)
        /\ req[r].kind \in Kinds /\ Len(req[r].path) \in Nat /\ depth[r] \in Nat
        /\ owner \in [Prefixes -> Authors \cup {None}] /\ None \notin Authors
    BY RequestFacts, PathFacts, DomainAssumption DEF TypeInv, TypeOK
  <2>1. pc[r] # "resolve"
    <3> DEFINE M == Matching(r, Part(r))
    <3>1. IsFiniteSet(M)
      <4>1. IsFiniteSet(suites \cup mine[r])
        BY FS_Union DEF ProgressInv, Finite
      <4> QED  BY <4>1, FS_Subset DEF Matching
    <3> HIDE DEF M
    <3>2. Cardinality(M) \in Nat /\ (Cardinality(M) = 0 <=> M = {})
          /\ (Cardinality(M) = 1 <=> \E s : M = {s})
      BY <3>1, FS_CardinalityType, FS_EmptySet, FS_Singleton
    <3>3. M = {} \/ (\E s \in M : M = {s}) \/ Cardinality(M) > 1
      BY <3>2
    <3> QED  BY <2>0, <3>3 DEF M, Ready, Resolved
  <2>2. pc[r] # "load"
    <3> SUFFICES ASSUME pc[r] = "load" PROVE FALSE
      OBVIOUS
    <3>1. req[r].kind = "version"
      BY <2>0 DEF Placed, PlacesOf, Kinds, Final
    <3>2. VersionsOf(req[r].project, req[r].number) # {}
      BY <2>0, <3>1 DEF Resolved, VersionsOf
    <3> QED  BY <3>2, CurrentIsThere DEF Ready, ProgressInv
  <2>3. pc[r] # "write"
    BY <2>0 DEF Placed, PlacesOf, Kinds, Final, Ready
  <2>4. pc[r] = "flush" /\ owner[Numbering(r)] # None
    BY <2>0, <2>1, <2>2, <2>3 DEF Ready, Working
  <2>5. Numbering(r) \in Prefixes
    BY <2>4, NumberingType
  <2>6. owner[Numbering(r)] \in Authors /\ pc[owner[Numbering(r)]] = "commit"
    BY <2>0, <2>4, <2>5 DEF ProgressInv, LockInv
  <2> QED  BY <2>4, <2>6 DEF Ready
<1> QED  BY <1>1, ProgressAlways, PTL

\* Each step uses up something there is only so much of: the client's attempts, the stages of
\* one, the parts of the path, the items of the list.  Races and crashes only ever end an
\* attempt, so requests cannot keep each other going for ever.
THEOREM EveryStepAdvancesHolds == Spec => EveryStepAdvances
<1> DEFINE A == \E r \in Authors : Advances(r) /\ \A s \in Authors \ {r} : StaysPut(s)
<1>1. ASSUME TypeInv, Unfinished, NEW r \in Authors, Step(r)
      PROVE  Advances(r)
  <2>0. /\ pc \in [Authors -> {"idle"} \cup Working \cup Final] /\ filed \in [Authors -> Nat]
        /\ depth \in [Authors -> Nat] /\ attempts \in [Authors -> 0..MaxAttempts]
        /\ req[r].items \in Nat /\ req[r].kind \in Kinds /\ Len(req[r].path) \in Nat
        /\ (pc[r] \in {"number", "flush", "commit"} => filed[r] < req[r].items)
    BY <1>1, RequestFacts, PathFacts DEF TypeInv, TypeOK, Unfinished
  <2> USE <2>0 DEF Rollback, Close, Goto, Final, Advances, Stage, db, session, client
  <2>1. CASE Begin(r)
    BY <2>1 DEF Begin
  <2>2. CASE FindPrefix(r) \/ CreateProject(r) \/ CreateSuite(r)
    BY <2>2 DEF FindPrefix, CreateProject, CreateSuite
  <2>3. CASE LosePrefix(r) \/ Ambiguous(r) \/ RejectItem(r) \/ LoseNumber(r)
    BY <2>3 DEF LosePrefix, Ambiguous, RejectItem, LoseNumber
  <2>4. CASE Crash(r)
    BY <2>4 DEF Crash, Working
  <2>5. CASE Descend(r) \/ InsertPart(r)
    BY <2>5 DEF Descend, InsertPart
  <2>6. CASE CommitPath(r)
    BY <2>6 DEF CommitPath
  <2>7. CASE BuildExternalId(r) \/ FlushCase(r)
    BY <2>7 DEF BuildExternalId, FlushCase
  <2>8. CASE CommitCase(r)
    BY <2>8 DEF CommitCase, NextItem
  <2>9. CASE LoadVersion(r) \/ CreateVersion(r)
    BY <2>9 DEF LoadVersion, CreateVersion
  <2>10. CASE Reply(r) \/ Retry(r)
    BY <2>10 DEF Reply, Retry
  <2> QED  BY <1>1, <2>1, <2>2, <2>3, <2>4, <2>5, <2>6, <2>7, <2>8, <2>9, <2>10
           DEF Step, Handle, WriteProject, FilePath, FileCase, EditCase
<1>2. ASSUME TypeInv, NEW r \in Authors, Step(r), NEW s \in Authors \ {r}
      PROVE  StaysPut(s)
  BY <1>2, OthersStay DEF TypeInv, StaysPut
<1>3. TypeInv /\ ProgressInv /\ [Next]_vars => [A]_vars
  BY <1>1, <1>2 DEF Next, Step, ProgressInv
<1> QED  BY <1>3, ProgressAlways, PTL DEF EveryStepAdvances, Spec

=============================================================================
