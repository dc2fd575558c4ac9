------------------------------- MODULE Catalog -------------------------------
(***************************************************************************)
(* What authoring promises, without transactions, row locks, sequences or  *)
(* a clock: a project, a path of suites, a suite, a version and each case  *)
(* of a list appears in one step and whole, or not at all.                 *)
(* Authoring implements this module; the mapping is there.                 *)
(***************************************************************************)
EXTENDS Naturals, Sequences

CONSTANTS Prefixes, Home, Fields, Authors, Requests, None

VARIABLES
  projects, suites, cases, versions,   \* what everyone can see
  counter,                             \* the number of each project's newest case
  req,                                 \* the request each author has to get done
  filed,                               \* how many cases of its list are in
  standing                             \* how far it got

tables == <<projects, suites, cases, versions, counter>>
vars == <<tables, req, filed, standing>>

Moves(r, from, to) ==
  /\ standing[r] \in from
  /\ standing' = [standing EXCEPT ![r] = to]
  /\ UNCHANGED req

\* The suites of a chain hang under each other from the root down and bear the path's names.
Hangs(chain, p, path) ==
  /\ chain[1].parent = None
  /\ \A k \in 1..Len(path) : chain[k].project = p /\ chain[k].name = path[k]
  /\ \A k \in 2..Len(path) : chain[k].parent = chain[k - 1].id

\* Suites are only added, under ids that no other suite has.
Grown == /\ suites \subseteq suites'
         /\ \A s \in suites' \ suites : \A t \in suites' : t.id = s.id => t = s

CreateProject(r) ==
  /\ req[r].kind = "project" /\ Moves(r, {"pending"}, "settled")
  /\ req[r].project \notin projects
  /\ projects' = projects \cup {req[r].project}
  /\ UNCHANGED <<suites, cases, versions, counter, filed>>

\* A path appears with all its suites, and with no suite that is not on it.
CreatePath(r) ==
  /\ req[r].kind = "path"
  /\ Moves(r, {"pending"}, IF req[r].items = 0 THEN "settled" ELSE "filing")
  /\ req[r].project \in projects
  /\ Grown
  /\ \E chain \in [1..Len(req[r].path) -> suites'] :
       /\ Hangs(chain, req[r].project, req[r].path)
       /\ \A s \in suites' \ suites : \E k \in 1..Len(req[r].path) : chain[k] = s
  /\ UNCHANGED <<projects, cases, versions, counter, filed>>

CreateSuite(r) ==
  /\ req[r].kind = "suite" /\ Moves(r, {"pending"}, "settled")
  /\ Grown
  /\ \E s \in suites' \ suites :
       /\ suites' = suites \cup {s}
       /\ s.project = req[r].project /\ s.parent = req[r].parent /\ s.name = req[r].path[1]
       /\ s.parent # None => \E t \in suites : t.id = s.parent /\ t.project = s.project
  /\ UNCHANGED <<projects, cases, versions, counter, filed>>

\* The suite case c goes to: the end of the request's path, or the one it names.
Files(r, c) ==
  IF req[r].kind = "path"
  THEN \E chain \in [1..Len(req[r].path) -> suites] :
         Hangs(chain, req[r].project, req[r].path) /\ c.suite = chain[Len(req[r].path)].id
  ELSE c.suite = req[r].parent

\* The next case of the list appears with its number, its first version and the counter.
FileCase(r) ==
  /\ \/ req[r].kind = "path" /\ standing[r] = "filing"
     \/ req[r].kind = "case" /\ standing[r] = "pending"
  /\ Moves(r, {"pending", "filing"}, IF filed[r] + 1 = req[r].items THEN "settled" ELSE "filing")
  /\ filed[r] + 1 # req[r].bad
  /\ filed' = [filed EXCEPT ![r] = @ + 1]
  /\ \E c \in cases' \ cases, v \in versions' \ versions :
       /\ cases' = cases \cup {c} /\ versions' = versions \cup {v}
       /\ c.by = r /\ c.item = filed[r] + 1
       /\ Files(r, c) /\ \E s \in suites : s.id = c.suite /\ s.project = c.project
       /\ c.number = counter[c.project] + 1
       /\ counter' = [counter EXCEPT ![c.project] = c.number]
       /\ v.project = c.project /\ v.number = c.number
       /\ v.version = 1 /\ v.content = req[r].content
  /\ UNCHANGED <<projects, suites>>

\* A version is one above some version the case has, and keeps what the edit leaves alone.
CreateVersion(r) ==
  /\ req[r].kind = "version" /\ Moves(r, {"pending"}, "settled")
  /\ \E old \in versions, v \in versions' \ versions :
       /\ versions' = versions \cup {v}
       /\ v.project = req[r].project /\ v.number = req[r].number
       /\ old.project = v.project /\ old.number = v.number /\ v.version = old.version + 1
       /\ v.content = [f \in Fields |-> IF req[r].content[f] # None THEN req[r].content[f]
                                                                   ELSE old.content[f]]
  /\ UNCHANGED <<projects, suites, cases, counter, filed>>

\* A request is refused before it has written anything, or at the malformed item.
Refuse(r) ==
  /\ Moves(r, {"pending", "filing"}, "refused")
  /\ standing[r] = "filing" => filed[r] + 1 = req[r].bad
  /\ filed' = [filed EXCEPT ![r] = 0]
  /\ UNCHANGED tables

\* An error leaves what is there, there.
Fail(r) ==
  /\ Moves(r, {"pending", "filing", "settled"}, "error")
  /\ filed' = [filed EXCEPT ![r] = 0]
  /\ UNCHANGED tables

Answer(r) == Moves(r, {"settled"}, "answered") /\ UNCHANGED <<tables, filed>>

Resend(r) == Moves(r, {"error"}, "pending") /\ UNCHANGED <<tables, filed>>

Init ==
  /\ projects = {Home}
  /\ \A s \in suites : s.project = Home /\ s.parent = None
  /\ \A p \in Prefixes : {c.number : c \in {d \in cases : d.project = p}} = 1..counter[p]
  /\ \A v \in versions : v.version = 1
  /\ req \in [Authors -> Requests]
  /\ filed = [r \in Authors |-> 0]
  /\ standing = [r \in Authors |-> "pending"]

Next ==
  \E r \in Authors :
    \/ CreateProject(r) \/ CreatePath(r) \/ CreateSuite(r) \/ FileCase(r) \/ CreateVersion(r)
    \/ Refuse(r) \/ Fail(r) \/ Answer(r) \/ Resend(r)

Spec == Init /\ [][Next]_vars

=============================================================================
