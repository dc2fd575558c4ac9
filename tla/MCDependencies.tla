--------------------------- MODULE MCDependencies ---------------------------
(***************************************************************************)
(* Dependencies on three cases of one project, one of another, and a case  *)
(* that does not exist.                                                    *)
(***************************************************************************)
EXTENDS Dependencies, TLC

CONSTANTS k1, k2

MCCases == {"a", "b", "c", "x"}
MCProject == [t \in MCCases |-> IF t = "x" THEN "P2" ELSE "P1"]

\* Both directions of a pair, a longer cycle, and the three kinds of refusal: enough for a
\* race to commit a cycle, and for a later request to walk it.
MCPairs == {<<"a", "b">>, <<"b", "a">>, <<"b", "c">>, <<"c", "a">>,
            <<"a", "a">>, <<"a", "x">>, <<"a", "ghost">>}

ClientSymmetry == Permutations(Clients)

=============================================================================
