----------------------------- MODULE MCRecording -----------------------------
(***************************************************************************)
(* Recording on a plan of three cases a, c and d.  b (not in the plan) and *)
(* d depend on a, and c on b, so the cascade from a crosses a case the     *)
(* plan does not hold.                                                     *)
(***************************************************************************)
EXTENDS Recording, TLC

CONSTANTS r1, r2

MCCases == {"a", "b", "c", "d"}
MCDependsOn == {<<"b", "a">>, <<"c", "b">>, <<"d", "a">>}
MCMembers == [b \in Builds |-> {"a", "c", "d"}]

Meta(commit, branch) == [commit_id |-> commit, branch |-> branch]
NoMeta == Meta(None, None)

Record(case, build, status, metadata, flags) ==
  [kind |-> "record", case |-> case, build |-> build, status |-> status,
   meta |-> metadata, flags |-> flags]

Register(build, metadata) ==
  [kind |-> "register", case |-> None, build |-> build, status |-> "not_run",
   meta |-> metadata, flags |-> {}]

\* Cascades from a failing prerequisite and from below it, real results of a downstream case.
CascadeRequests == {
  Record("a", "b1", "fail", NoMeta, {"cascade"}),
  Record("b", "b1", "blocked", NoMeta, {"cascade"}),
  Record("c", "b1", "pass", NoMeta, {"cascade"}) }

\* Requests that race to create or complete one build.
BuildRequests == {
  Record("a", "b1", "pass", Meta("v1", None), {}),
  Record("c", "b1", "pass", Meta("v2", None), {}),
  Register("b1", Meta("v1", "v2")) }

\* Both at once, with results in another build and outside any plan, one turned away late
\* and one that names no case.
RaceRequests == {
  Record("a", "b1", "fail", Meta("v2", "v1"), {"cascade"}),
  Record("b", "b1", "blocked", NoMeta, {"cascade"}),
  Record("c", "b1", "pass", Meta("v1", None), {"cascade"}),
  Record("c", "b2", "pass", NoMeta, {}),
  Record("d", "b1", "pass", Meta("v2", None), {"bad_step"}),
  Register("b1", Meta("v1", "v2")),
  Record("a", None, "fail", NoMeta, {"cascade"}),
  Record("ghost", "b1", "pass", NoMeta, {}) }

RecorderSymmetry == Permutations(Recorders)

=============================================================================
