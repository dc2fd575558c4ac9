----------------------------- MODULE MCCampaign -----------------------------
(***************************************************************************)
(* Two agents and a plan of one or two of three cases.  The first waits    *)
(* for the second, and later perhaps for the case outside the plan; the    *)
(* second waits for nothing or, round a cycle, for the first.              *)
(***************************************************************************)
EXTENDS Campaign

MCPlans == {<<"a">>, <<"a", "b">>}
MCDeps == {{<<"a", "b">>}, {<<"a", "b">>, <<"b", "a">>}}
MCEdits == {
  [kind |-> "depend", case |-> "a", on |-> "x"],
  [kind |-> "add", case |-> "b", on |-> "b"],
  [kind |-> "add", case |-> "ghost", on |-> "b"],
  [kind |-> "remove", case |-> "b", on |-> "b"],
  [kind |-> "fail", case |-> "b", on |-> "b"] }

=============================================================================
