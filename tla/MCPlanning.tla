----------------------------- MODULE MCPlanning -----------------------------
(***************************************************************************)
(* Two planners over a plan with one build and two cases of its project,   *)
(* and a case of another project.                                          *)
(***************************************************************************)
EXTENDS Planning, TLC

CONSTANTS w1, w2

MCPlanOf == [b \in Builds |-> "plan"]
MCProjectOf == [x \in {"a", "b", "x", "spec"} |-> IF x = "x" THEN "Q" ELSE "P"]

Ask(kind, on, cases) == [kind |-> kind, on |-> on, cases |-> cases, platform |-> None]

MCRequests == {
  Ask("add", "plan", <<"a", "b">>),
  Ask("add", "plan", <<"b", "ghost">>),
  [Ask("add", "plan", <<"a">>) EXCEPT !.platform = "linux"],
  Ask("add", "ghost", <<"a">>),
  Ask("remove", "plan", <<"a">>),
  Ask("remove", "plan", <<"ghost">>),
  Ask("bump", "plan", <<"a">>),
  Ask("require", "spec", <<"a", "b">>),
  Ask("require", "spec", <<"a", "x">>),
  Ask("cover", FirstReq, <<"a", "a">>),
  Ask("cover", FirstReq, <<"x">>),
  Ask("rerun", "b1", << >>),
  Ask("rerun", "b1", <<"a">>),
  Ask("rerun", "b1", <<"ghost">>),
  Ask("assign", "b1", <<"a">>),
  Ask("assign", None, <<"a">>),
  Ask("assign", "b1", <<"ghost">>),
  Ask("assign", "ghost", <<"a">>),
  Ask("close", "b1", <<"a">>),
  Ask("reopen", "b1", <<"a">>) }

PlannerSymmetry == Permutations(Planners)

=============================================================================
