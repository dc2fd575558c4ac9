------------------------------ MODULE MCLineage ------------------------------
(***************************************************************************)
(* Small projects: one or two plans, a handful of builds of the default    *)
(* branch, of a branch and of none.                                        *)
(***************************************************************************)
EXTENDS Lineage, TLC

CONSTANTS p1, p2, n1, n2, n3, n4, c1, c2

MCPlans == {p1, p2}
MCNames == {n1, n2}
Three == {n1, n2, n3}
Four == {n1, n2, n3, n4}

Meta(br, k, base) == [branch |-> br, commit |-> k, base |-> base]

\* The default branch, a branch that records its merge base, and a recorder that supplies
\* nothing: a build of no branch until another recorder supplies one.
BranchMetas == {Meta("main", "k1", None), Meta("dev", "k2", "k1"), Meta(None, None, None)}

\* Branches play no part in the history of a case.
HistoryMetas == {Meta("main", "k1", None)}

OneLink == {<<p1, c1>>}

\* One case, which passes or is blocked.
VerdictReports == {c1} \X {"pass", "blocked"}

\* One case breaks, is fixed and is left unfinished; another only passes.
HistoryReports == {<<c1, "pass">>, <<c1, "blocked">>, <<c1, "in_progress">>, <<c2, "pass">>}

PlanSymmetry == Permutations(MCPlans) \cup Permutations(MCNames)
ThreeSymmetry == Permutations(Three)
NameSymmetry == Permutations(Four)

=============================================================================
