---------------------------- MODULE MCGeneration ----------------------------
(* Values of the constants of Generation for model checking. *)
EXTENDS Generation, TLC

CONSTANTS m1, m2, m3

MCChain == {<<m1>>, <<m1, m2, m3>>}
MCPairs == {<<m1>>, <<m2>>, <<m1, m2>>, <<m2, m1>>}

MCSymmetry == Permutations(Models) \cup Permutations(Calls)
=============================================================================
