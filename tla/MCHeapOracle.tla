---------------------------- MODULE MCHeapOracle ----------------------------
(* Small instances of HeapOracle. *)
EXTENDS HeapOracle

(* No operator of HeapOracle names a particular address or orders them. *)
Symmetry == Permutations(Addr)
=============================================================================
