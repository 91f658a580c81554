-------------------------- MODULE ProcessingProofs --------------------------
(***************************************************************************)
(* Proofs about Processing, for videos and images of any size and packets  *)
(* of any number of frames: what the frame extraction loses and leaks is   *)
(* accounted for, and what is proved of the grey-scale converter holds     *)
(* here too.                                                               *)
(***************************************************************************)
EXTENDS Processing, GreyKernelProofs, SequenceTheorems

USE BoundAssumption

LEMMA Bounds == MaxPackets \in Nat /\ MaxFrames \in Nat /\ MaxStreams \in Nat
OBVIOUS

(* The counters are bounded by the packets. *)
LEMMA CountersTyped ==
  ASSUME E!IInv
  PROVE  /\ packets \in Nat /\ reported \in Nat /\ held \in Nat /\ frames \in Nat
         /\ accepted \in Nat /\ rejected \in Nat /\ starved \in Nat /\ leaked \in Nat
         /\ packets <= MaxPackets
BY Bounds DEF E!IInv, E!TypeOK

LEMMA CountersBounded ==
  ASSUME NEW p \in Nat, NEW q \in Nat, NEW a \in Nat, NEW r \in Nat, NEW t \in Nat, NEW l \in Nat,
         p <= MaxPackets, a + r <= p, q + t <= a, l <= p
  PROVE  {p, q, a, r, t, l} \subseteq 0 .. MaxPackets
<1>1. /\ q <= MaxPackets /\ a <= MaxPackets /\ r <= MaxPackets
      /\ t <= MaxPackets /\ l <= MaxPackets
  BY Bounds
<1> QED BY <1>1, Bounds

(* The steps of the setup are none of the loop. *)
LEMMA SetupNames ==
  /\ DOMAIN E!SetupSteps = 1 .. 8 /\ Len(E!SetupSteps) = 8
  /\ E!SetupSteps[1] = "alloc_context"
  /\ \A i \in 1 .. 8 : E!SetupSteps[i] \notin E!LoopSteps \cup {"returned"}
BY DEF E!SetupSteps, E!LoopSteps

LEMMA InitExtract == E!Init => E!IInv
<1> SUFFICES ASSUME E!Init PROVE E!IInv
  OBVIOUS
<1>1. streams \in Seq({"video", "audio"})
  <2>1. PICK n \in 0 .. MaxStreams : streams \in [1 .. n -> {"video", "audio"}]
    BY DEF E!Init
  <2> QED BY <2>1, IsASeq
<1>2. Len(streams) \in Nat
  BY <1>1, LenProperties
<1>3. E!TypeOK
  BY <1>1, <1>2, SetupNames DEF E!Init, E!TypeOK
<1>4. E!PacketInv /\ E!FrameInv /\ E!LeakInv /\ E!LeaksAccounted
  BY DEF E!Init, E!PacketInv, E!FrameInv, E!LeakInv, E!LeaksAccounted, E!Unreleased
<1> QED BY <1>3, <1>4 DEF E!IInv

LEMMA SetupExtract == ASSUME E!IInv, E!Setup PROVE E!IInv'
<1> USE DEF E!IInv
<1>1. /\ step \notin E!LoopSteps \cup {"returned"}
      /\ UNCHANGED <<program, streams, reported, stream, packets, held, frames>>
      /\ UNCHANGED <<accepted, rejected, starved, leaked>>
  BY SetupNames DEF E!Setup, E!history
<1>2. /\ \/ \E i \in 1 .. 8 : step' = E!SetupSteps[i]
         \/ step' = "read"
         \/ step' = "returned"
      /\ result' \in {"none", "-1"} /\ output' \in {"open", "closed"}
      /\ step' # "returned" => result' = "none"
  <2>1. result = "none" /\ output \in {"open", "closed"}
    BY <1>1 DEF E!PacketInv, E!TypeOK
  <2>2. PICK i \in 1 .. 8 :
          \/ /\ step' = IF i < 8 THEN E!SetupSteps[i + 1] ELSE "read"
             /\ output' = IF step = "fopen" /\ program = "extract_frames" THEN "open" ELSE output
             /\ UNCHANGED result
          \/ step' = "returned" /\ result' = "-1" /\ UNCHANGED output
    BY SetupNames DEF E!Setup, E!Exit
  <2> QED BY <2>1, <2>2
<1>3. E!TypeOK'
  BY <1>1, <1>2, SetupNames DEF E!TypeOK, E!LoopSteps
<1>4. /\ packets = 0 /\ reported = 0 /\ held = 0 /\ frames = 0 /\ stream = 0
      /\ accepted = 0 /\ rejected = 0 /\ starved = 0 /\ leaked = 0
  <2>1. step # "send" /\ packets = 0 /\ stream = 0 /\ frames = 0
    BY <1>1 DEF E!PacketInv, E!LoopSteps
  <2>2. /\ accepted + rejected <= 0 /\ leaked + E!Unreleased <= 0
        /\ held + reported = 0 /\ reported + starved <= accepted
    BY <2>1, CountersTyped DEF E!PacketInv, E!FrameInv
  <2> QED BY <2>1, <2>2, CountersTyped DEF E!Unreleased
<1>5. step' \notin {"send", "receive", "unref"}
  BY <1>2, SetupNames DEF E!LoopSteps
<1>6. E!PacketInv'
  BY <1>1, <1>2, <1>4, <1>5 DEF E!PacketInv, E!Unreleased
<1>7. E!FrameInv'
  BY <1>1, <1>4, <1>5 DEF E!FrameInv
<1>8. E!LeakInv' /\ E!LeaksAccounted'
  BY <1>1, <1>2, <1>4, <1>5 DEF E!LeakInv, E!LeaksAccounted, E!Unreleased
<1> QED BY <1>3, <1>6, <1>7, <1>8

(* The counters keep their types when the other parts of the invariant     *)
(* hold after the step.                                                    *)
LEMMA CountersKeepType ==
  ASSUME packets' \in Nat, reported' \in Nat, accepted' \in Nat, rejected' \in Nat,
         starved' \in Nat, leaked' \in Nat, packets' <= MaxPackets,
         accepted' + rejected' <= packets', reported' + starved' <= accepted',
         leaked' <= packets'
  PROVE  {packets', reported', accepted', rejected', starved', leaked'} \subseteq 0 .. MaxPackets
BY CountersBounded

(* One iteration of the loop. *)
LEMMA LoopExtract ==
  E!IInv /\ (E!ReadFrame \/ E!EndOfFile \/ E!SendPacket \/ E!ReceiveFrame \/ E!Unref) => E!IInv'
<1>0. SUFFICES ASSUME E!IInv, E!ReadFrame \/ E!EndOfFile \/ E!SendPacket \/ E!ReceiveFrame \/ E!Unref
               PROVE  E!IInv'
  OBVIOUS
<1>1. /\ packets \in Nat /\ reported \in Nat /\ held \in Nat /\ frames \in Nat
      /\ accepted \in Nat /\ rejected \in Nat /\ starved \in Nat /\ leaked \in Nat
      /\ packets <= MaxPackets
      /\ program \in {"extract_frames", "video"} /\ output \in {"open", "closed"}
      /\ stream \in 0 .. Len(streams) /\ streams \in Seq({"video", "audio"})
      /\ DOMAIN streams = 1 .. Len(streams) /\ Len(streams) \in Nat
  BY <1>0, CountersTyped, LenProperties DEF E!TypeOK, E!IInv
<1>2. /\ accepted + rejected + (IF step = "send" THEN 1 ELSE 0) <= packets
      /\ leaked + E!Unreleased <= packets
      /\ step # "returned" => result = "none"
  BY <1>0 DEF E!IInv, E!PacketInv
<1>3. /\ held + reported = frames /\ reported + starved <= accepted
      /\ result # "-1" => reported + starved + (IF step = "receive" THEN 1 ELSE 0) = accepted
  BY <1>0 DEF E!IInv, E!FrameInv
<1>4. /\ step \in {"send", "receive", "unref"} => leaked = rejected + starved /\ stream # 0
      /\ step = "read" => leaked + E!Unreleased = rejected + starved
  BY <1>0 DEF E!IInv, E!LeakInv, E!LeaksAccounted
<1>5. ASSUME /\ program' = program /\ streams' = streams
             /\ output' \in {"open", "closed"} /\ result' \in {"none", "0", "-1"}
             /\ step' \in {"read", "send", "receive", "unref", "returned"}
             /\ stream' \in 0 .. Len(streams)
             /\ packets' \in Nat /\ packets' <= MaxPackets /\ held' \in Nat /\ frames' \in Nat
             /\ reported' \in Nat /\ accepted' \in Nat /\ rejected' \in Nat
             /\ starved' \in Nat /\ leaked' \in Nat,
             accepted' + rejected' + (IF step' = "send" THEN 1 ELSE 0) <= packets',
             leaked' + (IF stream' = 0 THEN 0 ELSE 1) <= packets',
             step' # "returned" => result' = "none",
             held' + reported' = frames',
             reported' + starved' <= accepted',
             result' # "-1" =>
               reported' + starved' + (IF step' = "receive" THEN 1 ELSE 0) = accepted',
             step' \in {"send", "receive", "unref"} =>
               leaked' = rejected' + starved' /\ stream' # 0,
             step' = "read" =>
               leaked' + (IF stream' = 0 THEN 0 ELSE 1) = rejected' + starved',
             result' = "0" => rejected' + starved' \in {leaked', leaked' + 1}
      PROVE  E!IInv'
  <2>1. E!PacketInv'
    BY <1>5 DEF E!PacketInv, E!Unreleased, E!LoopSteps
  <2>2. E!FrameInv' /\ E!LeakInv'
    BY <1>5 DEF E!FrameInv, E!LeakInv
  <2>3. E!LeaksAccounted'
    BY <1>5 DEF E!LeaksAccounted, E!Unreleased
  <2>4. accepted' + rejected' <= packets' /\ leaked' <= packets'
    <3>1. /\ \A x, y, z \in Nat : x + y <= z => x <= z
          /\ \A w, x, y, z \in Nat : w + x + y <= z => w + x <= z
      OBVIOUS
    <3>2. (IF step' = "send" THEN 1 ELSE 0) \in Nat /\ (IF stream' = 0 THEN 0 ELSE 1) \in Nat
      OBVIOUS
    <3>3. accepted' \in Nat /\ rejected' \in Nat /\ leaked' \in Nat /\ packets' \in Nat
      BY <1>5
    <3> QED BY <1>5, <3>1, <3>2, <3>3
  <2>5. {packets', reported', accepted', rejected', starved', leaked'} \subseteq 0 .. MaxPackets
    BY <1>5, <2>4, CountersKeepType
  <2>6. E!TypeOK'
    BY <1>1, <1>5, <2>5 DEF E!TypeOK, E!LoopSteps
  <2> QED BY <2>1, <2>2, <2>3, <2>6 DEF E!IInv
<1>6. E!Unreleased = IF stream = 0 THEN 0 ELSE 1
  BY DEF E!Unreleased
<1>7. CASE E!ReadFrame
  <2>1. /\ step = "read" /\ packets < MaxPackets /\ packets' = packets + 1
        /\ stream' \in 1 .. Len(streams)
        /\ leaked' = leaked + E!Unreleased
        /\ step' \in {"send", "unref"}
        /\ UNCHANGED <<program, streams, result, output, reported>>
        /\ UNCHANGED <<held, frames, accepted, rejected, starved>>
    BY <1>1, <1>7 DEF E!ReadFrame, E!decoder
  <2>2. packets + 1 <= MaxPackets
    BY <1>1, <2>1, Bounds
  <2> QED BY <1>1, <1>2, <1>3, <1>4, <1>5, <1>6, <2>1, <2>2
<1>8. CASE E!EndOfFile
  <2>1. /\ step = "read" /\ stream' = 0
        /\ step' = "returned" /\ result' = "0" /\ output' = "closed"
        /\ leaked' \in {leaked, leaked + E!Unreleased}
        /\ UNCHANGED <<program, streams, reported, packets>>
        /\ UNCHANGED <<held, frames, accepted, rejected, starved>>
    BY <1>8 DEF E!EndOfFile, E!Exit, E!decoder
  <2>2. CASE leaked' = leaked
    BY <1>1, <1>2, <1>3, <1>4, <1>5, <1>6, <2>1, <2>2
  <2>3. CASE leaked' = leaked + 1 /\ stream # 0
    BY <1>1, <1>2, <1>3, <1>4, <1>5, <1>6, <2>1, <2>3
  <2> QED BY <1>1, <1>6, <2>1, <2>2, <2>3
<1>9. CASE E!SendPacket
  <2>1. PICK n \in 0 .. MaxFrames : held' = held + n /\ frames' = frames + n
    BY <1>9 DEF E!SendPacket
  <2>2. n \in Nat
    BY Bounds
  <2>3. held' \in Nat /\ frames' \in Nat /\ held' + reported = frames'
    BY <1>1, <1>3, <2>1, <2>2
  <2>4. /\ step = "send"
        /\ UNCHANGED <<program, streams, result, output, reported, stream, packets, starved, leaked>>
        /\ \/ accepted' = accepted + 1 /\ step' = "receive" /\ UNCHANGED rejected
           \/ rejected' = rejected + 1 /\ step' = "read" /\ UNCHANGED accepted
    BY <1>9 DEF E!SendPacket
  <2>5. CASE accepted' = accepted + 1 /\ step' = "receive" /\ UNCHANGED rejected
    BY <1>1, <1>2, <1>3, <1>4, <1>5, <1>6, <2>3, <2>4, <2>5
  <2>6. CASE rejected' = rejected + 1 /\ step' = "read" /\ UNCHANGED accepted
    BY <1>1, <1>2, <1>3, <1>4, <1>5, <1>6, <2>3, <2>4, <2>6
  <2> QED BY <2>4, <2>5, <2>6
<1>10. CASE E!ReceiveFrame
  <2>1. /\ step = "receive"
        /\ UNCHANGED <<program, streams, stream, packets, frames, accepted, rejected, leaked>>
    BY <1>10 DEF E!ReceiveFrame
  <2>2. CASE /\ held > 0 /\ held' = held - 1 /\ reported' = reported + 1
             /\ step' = "unref" /\ UNCHANGED <<result, output, starved>>
    <3>1. held' \in Nat
      BY <1>1, <2>2
    <3> QED BY <1>1, <1>2, <1>3, <1>4, <1>5, <1>6, <2>1, <2>2, <3>1
  <2>3. CASE starved' = starved + 1 /\ step' = "read" /\ UNCHANGED <<held, reported, result, output>>
    BY <1>1, <1>2, <1>3, <1>4, <1>5, <1>6, <2>1, <2>3
  <2>4. CASE /\ step' = "returned" /\ result' = "-1" /\ output' = "closed"
             /\ UNCHANGED <<held, reported, starved>>
    BY <1>1, <1>2, <1>3, <1>4, <1>5, <1>6, <2>1, <2>4
  <2> QED BY <1>10, <2>2, <2>3, <2>4 DEF E!ReceiveFrame, E!Exit
<1>11. CASE E!Unref
  <2>1. /\ step = "unref" /\ stream' = 0 /\ step' = "read"
        /\ UNCHANGED <<program, streams, result, output, reported, packets, held, frames>>
        /\ UNCHANGED <<accepted, rejected, starved, leaked>>
    BY <1>11 DEF E!Unref, E!history
  <2> QED BY <1>1, <1>2, <1>3, <1>4, <1>5, <1>6, <2>1
<1> QED BY <1>0, <1>7, <1>8, <1>9, <1>10, <1>11

(* The frame extraction keeps its invariant; the converter does not touch  *)
(* what it is about.                                                       *)
THEOREM ExtractInvariance == PSpec => []ExtractInv
<1>1. PInit => ExtractInv
  BY InitExtract DEF PInit, ExtractInv
<1>2. ExtractInv /\ [PNext]_allVars => ExtractInv'
  <2> SUFFICES ASSUME ExtractInv, [PNext]_allVars PROVE ExtractInv'
    OBVIOUS
  <2>1. CASE Extract
    BY <2>1, SetupExtract, LoopExtract DEF Extract, ExtractInv, E!Next
  <2>2. CASE Convert \/ UNCHANGED allVars
    <3>1. UNCHANGED extractVars
      BY <2>2 DEF Convert, allVars
    <3> QED BY <3>1 DEF extractVars, ExtractInv, E!IInv, E!TypeOK, E!PacketInv, E!FrameInv,
                        E!LeakInv, E!LeaksAccounted, E!Unreleased
  <2> QED BY <2>1, <2>2 DEF PNext
<1> QED BY <1>1, <1>2, PTL DEF PSpec

(* The converter alone: each step of Processing is one of its, or none. *)
LEMMA Converter == PSpec => Spec
<1>1. PInit => Init
  BY DEF PInit
<1>2. [PNext]_allVars => [Next]_vars
  BY DEF PNext, Convert, Extract, allVars
<1> QED BY <1>1, <1>2, PTL DEF PSpec, Spec

LEMMA IsPositive == Positive
BY BlockAssumption DEF Positive

(* The variables of both programs keep their types. *)
THEOREM ProcessingTypeCorrect == PSpec => []PTypeOK
<1>1. ExtractInv /\ TypeOK => PTypeOK
  BY DEF ExtractInv, E!IInv, PTypeOK
<1>2. Spec => []TypeOK
  BY IsPositive, StoresInside
<1> QED BY <1>1, <1>2, ExtractInvariance, Converter, PTL

(* extract_frames.c and video.c: however many frames the packets of a      *)
(* video give, the frames without a line are those beyond one for each     *)
(* accepted packet, and those that the decoder was late with.              *)
THEOREM LostFrames == PSpec => []LostFramesAccounted
<1>1. ExtractInv => LostFramesAccounted
  <2> SUFFICES ASSUME ExtractInv, result = "0" PROVE held + accepted = frames + starved
    BY DEF LostFramesAccounted, E!LostFramesAccounted
  <2>1. step = "returned"
    BY DEF ExtractInv, E!IInv, E!PacketInv
  <2>2. held + reported = frames /\ reported + starved = accepted
    BY <2>1, CountersTyped DEF ExtractInv, E!IInv, E!FrameInv
  <2> QED BY <2>2, CountersTyped DEF ExtractInv
<1> QED BY <1>1, ExtractInvariance, PTL

(* extract_frames.c and video.c: exactly one packet leaks for each that    *)
(* the decoder refuses and for each time it has no frame to give, up to    *)
(* the last one, in a video of any length.                                 *)
THEOREM LeakedPackets == PSpec => []LeaksAccounted
<1>1. ExtractInv => LeaksAccounted
  BY DEF ExtractInv, E!IInv, LeaksAccounted
<1> QED BY <1>1, ExtractInvariance, PTL

(* main.cu, in a run of the programs: its threads do not race. *)
THEOREM ConverterRaceFree == PSpec => []NoRace
<1>1. Spec => []NoRace
  BY IsPositive, RaceFree
<1> QED BY <1>1, Converter, PTL

(* main.cu, in a run of the programs: whichever calls fail, only pixels of *)
(* whole blocks are converted, and all of these without a failure.         *)
THEOREM ConverterExact == PSpec => []WholeBlocksConverted
<1>1. Spec => []WholeBlocksConverted
  BY IsPositive, ExactlyWholeBlocks
<1> QED BY <1>1, Converter, PTL
=============================================================================
