----------------------------- MODULE MCBufCache -----------------------------
(* Processes and blocks are interchangeable for safety. *)
EXTENDS BufCache, TLC

Symmetry == Permutations(Procs) \cup Permutations(Blocks)

=============================================================================
