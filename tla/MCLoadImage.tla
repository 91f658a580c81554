---------------------------- MODULE MCLoadImage ----------------------------
(* LoadImage on images with one, two and three bytes of padding to a row.   *)
EXTENDS LoadImage

SmallDims == {<<1, 2>>, <<3, 2>>, <<2, -2>>}

(* The hypothesis of the theorem on whole images holds of these. *)
ASSUME SizesFitAssumption == SizesFit
=============================================================================
