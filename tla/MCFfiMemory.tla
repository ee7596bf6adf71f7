----------------------------- MODULE MCFfiMemory -----------------------------
(***************************************************************************)
(* Model of FfiMemory for TLC: two responses served at once, each with up *)
(* to three writes or ends, so that a tag can be withheld over two chunks *)
(* and one response can clean up while the other holds a result.         *)
(***************************************************************************)
EXTENDS FfiMemory

CONSTANTS r1, r2

MCRequests == {r1, r2}
MCMaxCalls == 3
MCSymmetry == Permutations(MCRequests)
=============================================================================
