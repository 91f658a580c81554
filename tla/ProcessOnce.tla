---------------------------- MODULE ProcessOnce ----------------------------
(***************************************************************************)
(* What the release hook of the pass-through file system promises for one  *)
(* mount: every file whose name ends in ".bmp" is handed to the video_tee  *)
(* program at most once, and a file that was handed over is not taken up   *)
(* again, whether the program succeeded or not.  Nothing here says how the *)
(* hook does it: there is no list, no queue and no thread.                 *)
(***************************************************************************)
CONSTANT Files          \* the names of the files that are processed

VARIABLE phase          \* phase[f]: how far the processing of f has come

Phases == {"fresh", "claimed", "running", "done", "abandoned"}

(* Each file is in one of the phases. *)
TypeOK == phase \in [Files -> Phases]

Init == phase = [f \in Files |-> "fresh"]

(* f moves from one of the phases in From to the phase to. *)
Move(f, From, to) ==
  /\ phase[f] \in From
  /\ phase' = [phase EXCEPT ![f] = to]

Claim(f)   == Move(f, {"fresh"}, "claimed")
Launch(f)  == Move(f, {"claimed"}, "running")
Finish(f)  == Move(f, {"running"}, "done")
Abandon(f) == Move(f, {"claimed", "running"}, "abandoned")

Next == \E f \in Files : Claim(f) \/ Launch(f) \/ Finish(f) \/ Abandon(f)

Spec == Init /\ [][Next]_phase

(* A file that was claimed is eventually done with: the release hook        *)
(* starts the program, and the program comes to an end.                     *)
EveryClaimSettled ==
  \A f \in Files : phase[f] = "claimed" ~> phase[f] \in {"done", "abandoned"}
=============================================================================
