----------------------------- MODULE MCAuthoring -----------------------------
(***************************************************************************)
(* Two authors, each with one of thirteen requests, over a project with a  *)
(* suite "A" that holds one case or none.  They meet on a path, on an      *)
(* external id, on a version and on the prefix of a new project.           *)
(***************************************************************************)
EXTENDS Authoring, TLC

CONSTANTS w1, w2

Ask(kind, project, path, items, bad) ==
  [kind |-> kind, project |-> project, path |-> path, items |-> items, bad |-> bad,
   parent |-> None, number |-> 0, content |-> [f \in Fields |-> None]]

Edit(number_, summary, steps) ==
  [Ask("version", Home, << >>, 0, 0) EXCEPT !.number = number_,
     !.content = [summary |-> summary, steps |-> steps]]

MCFields == {"summary", "steps"}

MCRequests == {
  Ask("project", "Q", << >>, 0, 0),
  Ask("path", Home, <<"B", "A">>, 0, 0),
  Ask("path", Home, <<"B", "A">>, 2, 0),
  Ask("path", Home, <<"A", "B">>, 2, 2),
  Ask("path", "Q", <<"A">>, 1, 0),
  Ask("suite", Home, <<"B">>, 0, 0),
  [Ask("suite", "Q", <<"B">>, 0, 0) EXCEPT !.parent = 1],
  [Ask("case", Home, << >>, 1, 0) EXCEPT !.parent = 1],
  [Ask("case", Home, << >>, 1, 0) EXCEPT !.parent = 2],
  Ask("path", Home, << >>, 1, 0),
  Edit(1, "v1", None),
  Edit(1, None, "v2"),
  Edit(1, "v2", None) }

AuthorSymmetry == Permutations(Authors)

=============================================================================
