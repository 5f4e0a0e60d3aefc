---------------------------- MODULE MCAppendLoop ----------------------------
(* Model values for AppendLoop. *)
EXTENDS AppendLoop, TLC

CONSTANTS w1, w2, w3

MCWriters == {w1, w2, w3}
MCPair == {w1, w2}

(* Writers are interchangeable in every safety property. *)
Symmetry == Permutations(MCWriters)
=============================================================================
