--------------------------- MODULE MCPassthroughIO ---------------------------
(* PassthroughIO on a small file; the processes are interchangeable.        *)
EXTENDS PassthroughIO, TLC

Symmetry == Permutations(Procs)
=============================================================================
