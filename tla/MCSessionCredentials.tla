------------------------ MODULE MCSessionCredentials ------------------------
(* Constants and symmetry for model checking the session. *)
EXTENDS SessionCredentials, TLC

CONSTANTS r1, r2, t1, t2

MCOne == {r1}
MCTwo == {r1, r2}
MCRuns == {t1, t2}

Symmetry == Permutations(Requests) \cup Permutations(Runs)
=============================================================================
