----------------------------- MODULE Processing -----------------------------
(***************************************************************************)
(* The programs under src/processing, which share nothing: a behaviour is  *)
(* one of the grey-scale converter (GreyKernel) or one of the frame        *)
(* extraction (ExtractFrames).                                             *)
(***************************************************************************)
EXTENDS GreyKernel

CONSTANTS MaxFrames, MaxPackets, MaxStreams

ASSUME BlockAssumption == Block \in Nat \ {0}
ASSUME BoundAssumption ==
  {MaxFrames, MaxPackets, MaxStreams, MaxRows, MaxCols} \subseteq Nat

VARIABLES
  program, streams, step, result, output, reported, stream, packets, held, frames,
  accepted, rejected, starved, leaked,   \* those of ExtractFrames, whose pc is step
  runs                       \* which of the two runs

E == INSTANCE ExtractFrames WITH pc <- step

extractVars == <<program, streams, step, result, output, reported, stream, packets, held,
                 frames, accepted, rejected, starved, leaked>>
allVars == <<vars, extractVars, runs>>

PInit == Init /\ E!Init /\ runs = "none"

Convert == runs # "extract" /\ Next /\ runs' = "convert" /\ UNCHANGED extractVars

Extract == runs # "convert" /\ E!Next /\ runs' = "extract" /\ UNCHANGED vars

PNext == Convert \/ Extract

PSpec == PInit /\ [][PNext]_allVars

-----------------------------------------------------------------------------
(* The variables of both programs keep their types. *)
PTypeOK == TypeOK /\ E!TypeOK

(* extract_frames.c and video.c: the frames that are lost are those beyond *)
(* one for each accepted packet, and those the decoder was late with.      *)
LostFramesAccounted == E!LostFramesAccounted

(* extract_frames.c and video.c: a packet leaks for each refusal and for   *)
(* each time the decoder had no frame to give, and no other does.          *)
LeaksAccounted == E!LeaksAccounted

(* The inductive invariant behind these two. *)
ExtractInv == E!IInv
=============================================================================
