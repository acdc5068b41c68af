------------------------------- MODULE MCLog --------------------------------
(* Processes and blocks are interchangeable for the safety of the log. *)
EXTENDS Log, TLC

Symmetry == Permutations(Procs) \cup Permutations(Blocks)

=============================================================================
