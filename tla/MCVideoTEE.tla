----------------------------- MODULE MCVideoTEE -----------------------------
(* VideoTEE with three images, two of which begin with the same pixel.      *)
EXTENDS VideoTEE, TLC

CONSTANTS white, whiteTop, black, dWhite, dBlack

MCImages  == {white, whiteTop, black}
MCDigests == {dWhite, dBlack}

HashOfFirstPixel ==
  [i \in MCImages |-> IF i = black THEN dBlack ELSE dWhite]
=============================================================================
