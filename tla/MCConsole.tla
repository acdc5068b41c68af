----------------------------- MODULE MCConsole -----------------------------
EXTENDS Console, TLC

\* More than a row of the screen, and a newline.
Lines == {<<"x", "x", "x", "\n">>}

Symmetry == Permutations(Procs)
=============================================================================
