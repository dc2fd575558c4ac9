------------------------------ MODULE Authoring ------------------------------
(***************************************************************************)
(* Authoring: projects, suites, test cases and their versions, written by  *)
(* concurrent requests (app/services/projects.py, suites.py, testcases.py  *)
(* and the tools of app/mcp_server/server.py that call them).              *)
(*                                                                         *)
(* A request is a sequence of statements; what it writes is invisible to   *)
(* the others until it commits.  Nothing but (project, external id) and    *)
(* the project's prefix is unique, and the row of the project a case is    *)
(* numbered in is locked from its UPDATE to the commit.  A tool that files *)
(* cases under a path commits the path first and then each case on its     *)
(* own.  No request deletes anything.                                      *)
(***************************************************************************)
EXTENDS Naturals, Sequences, FiniteSets

CONSTANTS
  Prefixes,     \* the projects there may be, named by their unique prefix
  Home,         \* the one that exists at first
  Names,        \* suite names
  Root,         \* the name of the suite Home has at first
  Stock,        \* how many cases, at most, it holds at first
  Fields,       \* what a version carries: summary, preconditions, steps ...
  Values,       \* what may be supplied for them
  Authors,      \* the clients, each with one request to get done
  Requests,     \* the requests they may have
  MaxAttempts,  \* bound: how often a client sends its request
  MaxCrashes,   \* bound: how many requests die on the way
  None          \* SQL NULL

Kinds == {"project", "path", "suite", "case", "version"}
Content == [Fields -> Values \cup {None}]

(***************************************************************************)
(* What a request asks for, by kind:                                       *)
(*   project   a new project                                               *)
(*   path      a suite path, and that many cases in it: none for the tool  *)
(*             create_test_suite, one for create_test_case, any number for *)
(*             bulk_create_test_cases; item `bad` of the list is malformed *)
(*   suite     a suite of a given name under a given parent (REST)         *)
(*   case      a case in a given suite (REST)                              *)
(*   version   a new version of a case, with the fields supplied           *)
(***************************************************************************)
ASSUME RequestsAssumption ==
  \A q \in Requests : /\ q.kind \in Kinds
                      /\ q.path \in Seq(Names)
                      /\ q.items \in Nat
                      /\ q.bad \in Nat
                      /\ q.number \in Nat
                      /\ q.content \in Content
                      /\ q.kind = "case" => q.items = 1
                      /\ q.kind = "project" => q.project \in Prefixes
                      /\ q.kind = "suite" => q.path # << >>

ASSUME DomainAssumption ==
  /\ Home \in Prefixes
  /\ Root \in Names
  /\ None \notin Nat \cup Authors \cup Values \cup Prefixes
  /\ Stock \in Nat
  /\ MaxAttempts \in Nat \ {0}
  /\ MaxCrashes \in Nat

VARIABLES
  projects,   \* committed projects
  suites,     \* committed suites
  cases,      \* committed test cases
  versions,   \* committed versions of them
  counter,    \* each project's tc_counter
  owner,      \* the request whose uncommitted UPDATE locks a project row
  nextSuite,  \* the sequence suite ids come from
  commits,    \* how many transactions have committed: the history's clock
  pc, req,    \* each request's place in the handler, and its body
  at,         \* the suite it has resolved, None above the root
  depth,      \* how many parts of the path it has resolved
  mine,       \* suites it has inserted, uncommitted
  number,     \* the external id it has built for its next case
  filed,      \* how many cases of its list it has committed
  read,       \* the version create_version builds on
  looked,     \* the clock when it read that version
  crashes,    \* requests that have died
  attempts    \* how often the client has sent the request

db == <<projects, suites, cases, versions, counter, owner, nextSuite, commits>>
session == <<at, depth, mine, number, filed, read, looked>>
client == <<req, crashes, attempts>>
vars == <<projects, suites, cases, versions, counter, owner, nextSuite, commits, pc, req,
          at, depth, mine, number, filed, read, looked, crashes, attempts>>

Working == {"found", "resolve", "insert", "number", "flush", "commit", "load", "write", "reply"}
Final == {"done", "rejected", "failed"}

Suite == [id: Nat, project: Prefixes, parent: Nat \cup {None}, name: Names,
          via: {"path", "suite"}, looked: Nat, end: Nat]
Case == [project: Prefixes, number: Nat, suite: Nat, by: Authors \cup {None},
         attempt: Nat, item: Nat]
Version == [project: Prefixes, number: Nat, version: Nat, content: Content,
            supplied: SUBSET Fields, looked: Nat, end: Nat]

-----------------------------------------------------------------------------
(***************************************************************************)
(* Operators                                                               *)
(***************************************************************************)

Ids(ss) == {s.id : s \in ss}

\* Mutant: the parent of a part below the root is not compared.
Matching_NameOnly(r, n) ==
  {s \in suites \cup mine[r] : s.project = req[r].project /\ s.parent = None /\ s.name = n}

\* The SELECT for one part of a path: the request's own inserts are visible to it.
Matching(r, n) ==
  {s \in suites \cup mine[r] : s.project = req[r].project /\ s.parent = at[r] /\ s.name = n}

VersionsOf(p, n) == {v \in versions : v.project = p /\ v.number = n}

\* Mutant: the first version is taken for the current one.
Current_First(p, n) ==
  {v \in VersionsOf(p, n) : \A w \in VersionsOf(p, n) : v.version <= w.version}

\* _current_version: a version with the greatest number; no code deactivates one.  Which
\* one, when several have it, is the order the rows happen to come in.
Current(p, n) ==
  {v \in VersionsOf(p, n) : \A w \in VersionsOf(p, n) : w.version <= v.version}

\* Mutant: the project is not looked up.
Unresolved_NoProject(q) ==
  \/ q.kind = "path" /\ q.path = << >>
  \/ q.kind = "suite" /\ q.parent # None /\ q.parent \notin Ids(suites)
  \/ q.kind = "case" /\ q.parent \notin Ids(suites)
  \/ q.kind = "version" /\ VersionsOf(q.project, q.number) = {}

\* What the lookups ahead of any write turn away with NotFound.
Unresolved(q) ==
  \/ q.kind \in {"path", "suite"} /\ q.project \notin projects
  \/ q.kind = "path" /\ q.path = << >>
  \/ q.kind = "suite" /\ q.parent # None
       /\ ~ \E s \in suites : s.id = q.parent /\ s.project = q.project
  \/ q.kind = "case" /\ q.parent \notin Ids(suites)
  \/ q.kind = "version" /\ VersionsOf(q.project, q.number) = {}

\* Where a request that is not turned away starts.
Entry == [project |-> "found", path |-> "resolve", suite |-> "insert", case |-> "number",
          version |-> "load"]

\* The project a request's cases are numbered in: its suite's.
Numbering(r) == CHOOSE p \in Prefixes : \E s \in suites : s.id = at[r] /\ s.project = p

\* The versions a write adds carry the clock of the read they rest on and of their commit.
NewCase(r) == [project |-> Numbering(r), number |-> number[r], suite |-> at[r], by |-> r,
               attempt |-> attempts[r], item |-> filed[r] + 1]

FirstVersion(r) == [project |-> Numbering(r), number |-> number[r], version |-> 1,
                    content |-> req[r].content, supplied |-> Fields,
                    looked |-> commits, end |-> commits + 1]

\* Mutant: what is not supplied is lost.
Merged_Supplied(r) == req[r].content

\* create_version: a field that is not supplied is taken from the version it read.
Merged(r) == [f \in Fields |-> IF req[r].content[f] # None THEN req[r].content[f]
                                                           ELSE read[r].content[f]]

NextVersion(r) == [project |-> req[r].project, number |-> req[r].number,
                   version |-> read[r].version + 1, content |-> Merged(r),
                   supplied |-> {f \in Fields : req[r].content[f] # None},
                   looked |-> looked[r], end |-> commits + 1]

Goto(r, place) == pc' = [pc EXCEPT ![r] = place]

\* The end of r's session: its row lock goes, and what it remembered of the database.
Close(r) ==
  /\ owner' = [p \in Prefixes |-> IF owner[p] = r THEN None ELSE owner[p]]
  /\ at' = [at EXCEPT ![r] = None]
  /\ depth' = [depth EXCEPT ![r] = 0]
  /\ mine' = [mine EXCEPT ![r] = {}]
  /\ number' = [number EXCEPT ![r] = 0]
  /\ filed' = [filed EXCEPT ![r] = 0]
  /\ read' = [read EXCEPT ![r] = None]
  /\ looked' = [looked EXCEPT ![r] = 0]

Rollback(r) ==
  /\ Close(r)
  /\ UNCHANGED <<projects, suites, cases, versions, counter, nextSuite, commits>>

-----------------------------------------------------------------------------
(***************************************************************************)
(* Projects                                                                *)
(***************************************************************************)

\* The client sends its request, and the rows it names are looked up.
Begin(r) ==
  /\ pc[r] = "idle"
  /\ attempts' = [attempts EXCEPT ![r] = @ + 1]
  /\ IF Unresolved(req[r])
       THEN Goto(r, "rejected") /\ UNCHANGED at
       ELSE /\ Goto(r, Entry[req[r].kind])
            /\ at' = [at EXCEPT ![r] = IF req[r].kind = "case" THEN req[r].parent ELSE None]
  /\ UNCHANGED <<db, depth, mine, number, filed, read, looked, req, crashes>>

\* The SELECT on the prefix: a project that has it is a Conflict.
FindPrefix(r) ==
  /\ pc[r] = "found"
  /\ Goto(r, IF req[r].project \in projects THEN "rejected" ELSE "write")
  /\ UNCHANGED <<db, session, client>>

\* The insert, and its commit.
CreateProject(r) ==
  /\ pc[r] = "write" /\ req[r].kind = "project" /\ req[r].project \notin projects
  /\ projects' = projects \cup {req[r].project}
  /\ commits' = commits + 1
  /\ Goto(r, "reply")
  /\ UNCHANGED <<suites, cases, versions, counter, owner, nextSuite, session, client>>

\* Another request has committed the prefix since: IntegrityError, a 500.
LosePrefix(r) ==
  /\ pc[r] = "write" /\ req[r].kind = "project" /\ req[r].project \in projects
  /\ Rollback(r)
  /\ Goto(r, "failed")
  /\ UNCHANGED client

-----------------------------------------------------------------------------
(***************************************************************************)
(* Suites                                                                  *)
(***************************************************************************)

\* create_suite inserts without looking for a suite of that name.
CreateSuite(r) ==
  /\ pc[r] = "insert"
  /\ suites' = suites \cup {[id |-> nextSuite, project |-> req[r].project,
                             parent |-> req[r].parent, name |-> req[r].path[1],
                             via |-> "suite", looked |-> commits, end |-> commits + 1]}
  /\ nextSuite' = nextSuite + 1
  /\ commits' = commits + 1
  /\ Goto(r, "reply")
  /\ UNCHANGED <<projects, cases, versions, counter, owner, session, client>>

Part(r) == req[r].path[depth[r] + 1]

\* Mutant: the parent stays what it was when a part is found.
Descend_StaysPut(r) ==
  /\ pc[r] = "resolve" /\ depth[r] < Len(req[r].path)
  /\ Cardinality(Matching(r, Part(r))) = 1
  /\ depth' = [depth EXCEPT ![r] = @ + 1]
  /\ at' = IF at[r] = None
             THEN [at EXCEPT ![r] = CHOOSE i \in Ids(Matching(r, Part(r))) : TRUE] ELSE at
  /\ UNCHANGED <<db, pc, mine, number, filed, read, looked, client>>

\* One part of the path exists: the next is looked for under it.
Descend(r) ==
  /\ pc[r] = "resolve" /\ depth[r] < Len(req[r].path)
  /\ \E s \in Matching(r, Part(r)) :
       /\ Matching(r, Part(r)) = {s}
       /\ at' = [at EXCEPT ![r] = s.id]
  /\ depth' = [depth EXCEPT ![r] = @ + 1]
  /\ UNCHANGED <<db, pc, mine, number, filed, read, looked, client>>

\* Mutant: each part of a path is committed on its own.
InsertPart_Commits(r) ==
  /\ pc[r] = "resolve" /\ depth[r] < Len(req[r].path)
  /\ Matching(r, Part(r)) = {}
  /\ suites' = suites \cup
       {[id |-> nextSuite, project |-> req[r].project, parent |-> at[r], name |-> Part(r),
         via |-> "path", looked |-> commits, end |-> commits + 1]}
  /\ at' = [at EXCEPT ![r] = nextSuite]
  /\ nextSuite' = nextSuite + 1
  /\ commits' = commits + 1
  /\ depth' = [depth EXCEPT ![r] = @ + 1]
  /\ UNCHANGED <<projects, cases, versions, counter, owner, pc, mine, number, filed, read,
                 looked, client>>

\* It does not: the suite is inserted, and becomes visible with the whole path.
InsertPart(r) ==
  /\ pc[r] = "resolve" /\ depth[r] < Len(req[r].path)
  /\ Matching(r, Part(r)) = {}
  /\ mine' = [mine EXCEPT ![r] = @ \cup
       {[id |-> nextSuite, project |-> req[r].project, parent |-> at[r], name |-> Part(r),
         via |-> "path", looked |-> commits, end |-> 0]}]
  /\ at' = [at EXCEPT ![r] = nextSuite]
  /\ nextSuite' = nextSuite + 1
  /\ depth' = [depth EXCEPT ![r] = @ + 1]
  /\ UNCHANGED <<projects, suites, cases, versions, counter, owner, commits, pc, number,
                 filed, read, looked, client>>

\* Two suites answer to it: scalar_one_or_none raises, now and on every later lookup.
Ambiguous(r) ==
  /\ pc[r] = "resolve" /\ depth[r] < Len(req[r].path)
  /\ Cardinality(Matching(r, Part(r))) > 1
  /\ Rollback(r)
  /\ Goto(r, "failed")
  /\ UNCHANGED client

\* The path is committed ahead of the cases that go into it.
CommitPath(r) ==
  /\ pc[r] = "resolve" /\ depth[r] = Len(req[r].path)
  /\ suites' = suites \cup {[s EXCEPT !.end = commits + 1] : s \in mine[r]}
  /\ mine' = [mine EXCEPT ![r] = {}]
  /\ commits' = commits + 1
  /\ Goto(r, IF req[r].items = 0 THEN "reply" ELSE "number")
  /\ UNCHANGED <<projects, cases, versions, counter, owner, nextSuite, at, depth, number,
                 filed, read, looked, client>>

-----------------------------------------------------------------------------
(***************************************************************************)
(* Test cases                                                              *)
(***************************************************************************)

\* Where an item that is filed leads: to the next one of its list, or to the answer.
NextItem(r) == IF filed[r] + 1 = req[r].items THEN "reply" ELSE "number"

\* The list's next item does not make a TestCaseCreate: the tool raises, and the items
\* before it stay.
RejectItem(r) ==
  /\ pc[r] = "number" /\ filed[r] + 1 = req[r].bad
  /\ Rollback(r)
  /\ Goto(r, "rejected")
  /\ UNCHANGED client

\* The project is read, and its counter incremented in memory.
BuildExternalId(r) ==
  /\ pc[r] = "number" /\ filed[r] + 1 # req[r].bad
  /\ number' = [number EXCEPT ![r] = counter[Numbering(r)] + 1]
  /\ Goto(r, "flush")
  /\ UNCHANGED <<db, at, depth, mine, filed, read, looked, client>>

\* Mutant: external ids are not unique.
FlushCase_NoKey(r) ==
  /\ pc[r] = "flush" /\ owner[Numbering(r)] = None
  /\ owner' = [owner EXCEPT ![Numbering(r)] = r]
  /\ Goto(r, "commit")
  /\ UNCHANGED <<projects, suites, cases, versions, counter, nextSuite, commits, session,
                 client>>

\* The flush writes the counter, waiting for the row, and inserts the case.
FlushCase(r) ==
  /\ pc[r] = "flush" /\ owner[Numbering(r)] = None
  /\ ~ \E c \in cases : c.project = Numbering(r) /\ c.number = number[r]
  /\ owner' = [owner EXCEPT ![Numbering(r)] = r]
  /\ Goto(r, "commit")
  /\ UNCHANGED <<projects, suites, cases, versions, counter, nextSuite, commits, session,
                 client>>

\* Mutant: the loser of a race goes on with the next item of its list.
LoseNumber_Skips(r) ==
  /\ pc[r] = "flush" /\ owner[Numbering(r)] = None
  /\ \E c \in cases : c.project = Numbering(r) /\ c.number = number[r]
  /\ filed' = [filed EXCEPT ![r] = @ + 1]
  /\ Goto(r, NextItem(r))
  /\ UNCHANGED <<db, at, depth, mine, number, read, looked, client>>

\* The id was taken since the counter was read: IntegrityError, a 500.
LoseNumber(r) ==
  /\ pc[r] = "flush" /\ owner[Numbering(r)] = None
  /\ \E c \in cases : c.project = Numbering(r) /\ c.number = number[r]
  /\ Rollback(r)
  /\ Goto(r, "failed")
  /\ UNCHANGED client

\* The case, its first version and steps, and the counter become visible together.
CommitCase(r) ==
  /\ pc[r] = "commit"
  /\ cases' = cases \cup {NewCase(r)}
  /\ versions' = versions \cup {FirstVersion(r)}
  /\ counter' = [counter EXCEPT ![Numbering(r)] = number[r]]
  /\ owner' = [owner EXCEPT ![Numbering(r)] = None]
  /\ commits' = commits + 1
  /\ filed' = [filed EXCEPT ![r] = @ + 1]
  /\ Goto(r, NextItem(r))
  /\ UNCHANGED <<projects, suites, nextSuite, at, depth, mine, number, read, looked, client>>

-----------------------------------------------------------------------------
(***************************************************************************)
(* Versions                                                                *)
(***************************************************************************)

\* create_version loads the case with its versions and picks the current one.
LoadVersion(r) ==
  /\ pc[r] = "load"
  /\ \E v \in Current(req[r].project, req[r].number) : read' = [read EXCEPT ![r] = v]
  /\ looked' = [looked EXCEPT ![r] = commits]
  /\ Goto(r, "write")
  /\ UNCHANGED <<db, at, depth, mine, number, filed, client>>

\* The new version, and its steps.
CreateVersion(r) ==
  /\ pc[r] = "write" /\ req[r].kind = "version"
  /\ versions' = versions \cup {NextVersion(r)}
  /\ commits' = commits + 1
  /\ Goto(r, "reply")
  /\ UNCHANGED <<projects, suites, cases, counter, owner, nextSuite, session, client>>

-----------------------------------------------------------------------------
(***************************************************************************)
(* The client                                                              *)
(***************************************************************************)

Reply(r) ==
  /\ pc[r] = "reply"
  /\ Goto(r, "done")
  /\ UNCHANGED <<db, session, client>>

\* The worker or the connection dies: the open transaction is rolled back.
Crash(r) ==
  /\ pc[r] \in Working
  /\ crashes < MaxCrashes /\ crashes' = crashes + 1
  /\ Rollback(r)
  /\ Goto(r, "failed")
  /\ UNCHANGED <<req, attempts>>

\* A client that saw an error may send the same request again.
Retry(r) ==
  /\ pc[r] = "failed" /\ attempts[r] < MaxAttempts
  /\ Goto(r, "idle")
  /\ UNCHANGED <<db, session, client>>

-----------------------------------------------------------------------------
FirstSuite == [id |-> 1, project |-> Home, parent |-> None, name |-> Root, via |-> "path",
               looked |-> 0, end |-> 0]

Init ==
  /\ projects = {Home}
  /\ suites = {FirstSuite}
  /\ \E k \in 0..Stock :
       /\ counter = [p \in Prefixes |-> IF p = Home THEN k ELSE 0]
       /\ cases = {[project |-> Home, number |-> n, suite |-> 1, by |-> None, attempt |-> 0,
                    item |-> 1] : n \in 1..k}
       /\ versions = {[project |-> Home, number |-> n, version |-> 1,
                       content |-> [f \in Fields |-> None], supplied |-> Fields,
                       looked |-> 0, end |-> 0] : n \in 1..k}
  /\ owner = [p \in Prefixes |-> None]
  /\ nextSuite = 2
  /\ commits = 0
  /\ pc = [r \in Authors |-> "idle"]
  /\ req \in [Authors -> Requests]
  /\ at = [r \in Authors |-> None]
  /\ depth = [r \in Authors |-> 0]
  /\ mine = [r \in Authors |-> {}]
  /\ number = [r \in Authors |-> 0]
  /\ filed = [r \in Authors |-> 0]
  /\ read = [r \in Authors |-> None]
  /\ looked = [r \in Authors |-> 0]
  /\ crashes = 0
  /\ attempts = [r \in Authors |-> 0]

WriteProject(r) == FindPrefix(r) \/ CreateProject(r) \/ LosePrefix(r)

FilePath(r) == Descend(r) \/ InsertPart(r) \/ Ambiguous(r) \/ CommitPath(r)

FileCase(r) == \/ RejectItem(r) \/ BuildExternalId(r)
               \/ FlushCase(r) \/ LoseNumber(r) \/ CommitCase(r)

EditCase(r) == LoadVersion(r) \/ CreateVersion(r)

Handle(r) == \/ Begin(r) \/ WriteProject(r) \/ CreateSuite(r) \/ FilePath(r)
             \/ FileCase(r) \/ EditCase(r) \/ Reply(r)

Next == \E r \in Authors : Handle(r) \/ Crash(r) \/ Retry(r)

Spec == Init /\ [][Next]_vars

-----------------------------------------------------------------------------
(***************************************************************************)
(* Properties                                                              *)
(***************************************************************************)

TypeOK ==
  /\ projects \subseteq Prefixes
  /\ suites \subseteq Suite
  /\ {s.project : s \in suites} \subseteq projects
  /\ cases \subseteq Case
  /\ versions \subseteq Version
  /\ counter \in [Prefixes -> Nat]
  /\ owner \in [Prefixes -> Authors \cup {None}]
  /\ nextSuite \in Nat
  /\ commits \in Nat
  /\ pc \in [Authors -> {"idle"} \cup Working \cup Final]
  /\ req \in [Authors -> Requests]
  /\ at \in [Authors -> Nat \cup {None}]
  /\ depth \in [Authors -> Nat]
  /\ mine \in [Authors -> SUBSET Suite]
  /\ number \in [Authors -> Nat]
  /\ filed \in [Authors -> Nat]
  /\ read \in [Authors -> Version \cup {None}]
  /\ looked \in [Authors -> Nat]
  /\ crashes \in 0..MaxCrashes
  /\ attempts \in [Authors -> 0..MaxAttempts]

\* The cases of a project carry the numbers 1 to tc_counter, each exactly once, however
\* creations race, crash and are retried: the increment is lost with its case, the loser
\* of a race leaves neither a case nor a gap, and no two cases share an external id.
NumbersAreDense ==
  \A p \in Prefixes :
    /\ {c.number : c \in {d \in cases : d.project = p}} = 1..counter[p]
    /\ \A c, d \in cases : c.project = p /\ d.project = p /\ c.number = d.number => c = d

\* A path names one suite unless its creators raced: two suites of one parent and name
\* mean that the later one's lookup ran before the earlier one was committed, or that
\* create_suite, which looks for none, made it.
PathSplitsNeedARace ==
  \A s, t \in suites :
    /\ s.project = t.project /\ s.parent = t.parent /\ s.name = t.name /\ s.id < t.id
    /\ s.end <= t.end
    => t.via = "suite" \/ t.looked < s.end

\* get_tree files a suite under its parent's node: the KeyError of a parent that is missing
\* or lies in another project.
Orphans == {s \in suites : s.parent # None /\
              ~ \E t \in suites : t.id = s.parent /\ t.project = s.project /\ t.id < s.id}

\* The names from the root down to suite i of project p are those of the path.
Spells(p, i, path) ==
  \E chain \in [1..Len(path) -> {s \in suites : s.project = p}] :
    /\ chain[1].parent = None
    /\ chain[Len(path)].id = i
    /\ \A k \in 1..Len(path) : chain[k].name = path[k]
    /\ \A k \in 2..Len(path) : chain[k].parent = chain[k - 1].id

\* Every case a tool filed under a path is in a suite of its own project that the path
\* spells, and the suites form trees get_tree can draw: no crash, race or rollback
\* between a path and its cases files one elsewhere.
CasesAreFiled ==
  /\ Orphans = {}
  /\ \A c \in cases :
       /\ \E s \in suites : s.id = c.suite /\ s.project = c.project
       /\ c.by # None /\ req[c.by].kind = "path" => Spells(c.project, c.suite, req[c.by].path)

\* Each attempt of a list of cases commits a beginning of the list, in its order: item i
\* once, after item i - 1, and all of them when the client is answered.  What a failure in
\* the middle leaves is the head of the list, never a hole.
ListsAreFiledInOrder ==
  \A c \in cases : c.by # None =>
    /\ c.item > 1 => \E d \in cases : /\ d.by = c.by /\ d.attempt = c.attempt
                                      /\ d.item = c.item - 1 /\ d.number < c.number
    /\ \A d \in cases : d.by = c.by /\ d.attempt = c.attempt /\ d.item = c.item => c = d
    /\ pc[c.by] \in {"reply", "done"} /\ c.attempt = attempts[c.by] =>
         \E d \in cases : d.by = c.by /\ d.attempt = c.attempt /\ d.item = req[c.by].items

\* The two versions' read and commit crossed.
Overlap(v, w) == v.looked < w.end /\ w.looked < v.end

\* Two versions of a case share a number only if their creations overlapped, and every
\* number below a version's has been given: the history of a case that is edited by one
\* client at a time is a line.
VersionsForkOnlyInARace ==
  \A v \in versions :
    /\ \A w \in versions :
         /\ v.project = w.project /\ v.number = w.number /\ v.version = w.version /\ v # w
         => Overlap(v, w)
    /\ v.version > 1 => \E w \in VersionsOf(v.project, v.number) :
                          w.version = v.version - 1 /\ w.end <= v.looked

\* An edit survives: the current version of a case shows each field an edit supplied, or
\* what a later edit supplied for it, unless some edit overlapped it (create_version takes
\* the other fields from the version it read, which may be stale when it commits).
EditsSurvive ==
  \A p \in Prefixes : \A v \in {w \in versions : w.project = p} : \A f \in v.supplied :
    \A cur \in Current(p, v.number) :
      \/ cur.content[f] = v.content[f]
      \/ \E w \in VersionsOf(p, v.number) \ {v} :
           (f \in w.supplied /\ w.looked >= v.end) \/ Overlap(v, w)

\* How far a request got, as far as anyone but the server can tell.
Standing(r) == CASE pc[r] \in {"number", "flush", "commit"} /\ req[r].kind = "path" -> "filing"
                 [] pc[r] = "reply" -> "settled"
                 [] pc[r] = "done" -> "answered"
                 [] pc[r] = "rejected" -> "refused"
                 [] pc[r] = "failed" -> "error"
                 [] OTHER -> "pending"

Promise == INSTANCE Catalog WITH standing <- [r \in Authors |-> Standing(r)]

\* Whatever the interleaving, crashes and retries, a path of suites, a case with its number
\* and a version appear in one step each and whole: no half of a path, no case out of its
\* list's order and no number out of turn is ever seen.
ImplementsCatalog == Promise!Spec

=============================================================================
