--------------------------- MODULE MCPassthrough ---------------------------
(* Passthrough on small sets; the names, nodes and descriptors are model    *)
(* values.                                                                  *)
EXTENDS Passthrough, TLC

(* Descriptors, nodes, programs and applications are interchangeable: used  *)
(* where only safety is checked.                                            *)
Symmetry ==
  Permutations(Fds) \cup Permutations(Nodes) \cup Permutations(VideoTees)
    \cup Permutations(Apps)
=============================================================================
