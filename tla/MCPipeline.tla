----------------------------- MODULE MCPipeline -----------------------------
(* Small instances of Pipeline. *)
EXTENDS Pipeline, TLC

(* No block is older than the tracing, or one is.                          *)
FewPriors == {{}} \cup {{a} : a \in Addr}

Symmetry == Permutations(Thread) \cup Permutations(Process) \cup Permutations(Addr)
=============================================================================
