--------------------------- MODULE ExtractFrames ---------------------------
(***************************************************************************)
(* processing/c/extract_frames.c, which writes a line about each frame of  *)
(* a video to a file, and processing/c/video.c, the same program but for   *)
(* printing the lines.  The demuxer and the decoder are libraries, and the *)
(* decoder promises little: a packet may give it no frame, one or several, *)
(* it may refuse any packet, and it may have no frame to give at any time. *)
(***************************************************************************)
EXTENDS Naturals, Sequences

CONSTANTS
  MaxFrames,         \* bound: frames that a packet gives the decoder
  MaxPackets,        \* bound: packets of a file
  MaxStreams         \* bound: streams of a file

VARIABLES
  program,           \* which of the two programs runs
  streams,           \* the kinds of the streams of the file
  pc,                \* next step, or "returned"
  result,            \* what main returns
  output,            \* frame_info.txt: "closed" or "open"
  reported,          \* lines about frames
  stream,            \* the stream of the packet that pPacket refers to, or 0
  packets,           \* packets that were read
  held,              \* decoder: frames that it has and has not given
  frames,            \* history: frames that were decoded
  accepted, rejected,\* history: packets that the decoder took, that it refused
  starved,           \* history: times that it had no frame to give
  leaked             \* history: packets that were not released

history == <<frames, accepted, rejected, starved, leaked>>
decoder == <<held, frames, accepted, rejected, starved>>
vars == <<program, streams, pc, result, output, reported, stream, packets, held, history>>

(* avformat_alloc_context to av_packet_alloc *)
SetupSteps == <<"alloc_context", "open_input", "find_stream_info", "find_video",
                "alloc_context3", "parameters_to_context", "open2", "fopen">>

LoopSteps == {"read", "send", "receive", "unref"}

(* Every variable keeps its type. *)
TypeOK ==
  /\ program \in {"extract_frames", "video"}
  /\ streams \in Seq({"video", "audio"})
  /\ pc \in {SetupSteps[i] : i \in DOMAIN SetupSteps} \cup LoopSteps \cup {"returned"}
  /\ result \in {"none", "0", "-1"} /\ output \in {"open", "closed"}
  /\ stream \in 0 .. Len(streams)
  /\ {packets, reported, accepted, rejected, starved, leaked} \subseteq 0 .. MaxPackets
  /\ held \in Nat /\ frames \in Nat

Init ==
  /\ program \in {"extract_frames", "video"}
  /\ streams \in UNION {[1 .. n -> {"video", "audio"}] : n \in 0 .. MaxStreams}
  /\ pc = "alloc_context" /\ result = "none" /\ output = "closed"
  /\ stream = 0 /\ packets = 0 /\ reported = 0
  /\ held = 0 /\ frames = 0
  /\ accepted = 0 /\ rejected = 0 /\ starved = 0 /\ leaked = 0

-----------------------------------------------------------------------------
(* video_stream_index: the first video stream. *)
IsVideo(i) == streams[i] = "video" /\ \A j \in 1 .. i - 1 : streams[j] # "video"

Exit(r) == pc' = "returned" /\ result' = r

(* Each step of the setup can fail; it fails without a video stream. *)
Setup ==
  /\ \E i \in DOMAIN SetupSteps :
       /\ pc = SetupSteps[i]
       /\ \/ /\ pc = "find_video" => \E j \in DOMAIN streams : IsVideo(j)
             /\ pc' = IF i < Len(SetupSteps) THEN SetupSteps[i + 1] ELSE "read"
             /\ output' = IF pc = "fopen" /\ program = "extract_frames" THEN "open" ELSE output
             /\ UNCHANGED result
          \/ /\ pc = "fopen" => program = "extract_frames"
             /\ Exit("-1") /\ UNCHANGED output
  /\ UNCHANGED <<program, streams, reported, stream, packets, held, history>>

(* av_read_frame overwrites pPacket: what it referred to is lost, unless   *)
(* av_packet_unref has released it.                                        *)
Unreleased == IF stream = 0 THEN 0 ELSE 1

ReadFrame ==
  /\ pc = "read" /\ packets < MaxPackets
  /\ packets' = packets + 1
  /\ stream' \in DOMAIN streams
  /\ leaked' = leaked + Unreleased
  /\ pc' = IF IsVideo(stream') THEN "send" ELSE "unref"
  /\ UNCHANGED <<program, streams, result, output, reported, decoder>>

(* av_read_frame fails, at the end of the file or before it: the file is   *)
(* closed and all is freed, pPacket too unless the failing call has blanked *)
(* it.                                                                      *)
EndOfFile ==
  /\ pc = "read"
  /\ Exit("0") /\ output' = "closed" /\ stream' = 0
  /\ leaked' \in {leaked, leaked + Unreleased}
  /\ UNCHANGED <<program, streams, reported, packets, decoder>>

(* avcodec_send_packet: what the packet gives is for the decoder to say,   *)
(* and it may have frames of one that it reports an error of.  After an    *)
(* error "continue" passes by the receive and the unref.                   *)
SendPacket ==
  /\ pc = "send"
  /\ \E n \in 0 .. MaxFrames : held' = held + n /\ frames' = frames + n
  /\ \/ accepted' = accepted + 1 /\ pc' = "receive" /\ UNCHANGED rejected
     \/ rejected' = rejected + 1 /\ pc' = "read" /\ UNCHANGED accepted
  /\ UNCHANGED <<program, streams, result, output, reported, stream, packets, starved, leaked>>

(* avcodec_receive_frame: a frame that the decoder has, EAGAIN and         *)
(* "continue" whether it has one or not, or an error.                      *)
BugReceiveOddPackets ==  \* some packets are sent without a receive
  /\ pc = "receive"
  /\ IF held > 0 /\ packets % 2 = 1
       THEN held' = held - 1 /\ reported' = reported + 1 /\ pc' = "unref"
       ELSE pc' = "read" /\ UNCHANGED <<held, reported>>
  /\ UNCHANGED <<program, streams, result, output, stream, packets, history>>

ReceiveFrame ==
  /\ pc = "receive"
  /\ \/ /\ held > 0 /\ held' = held - 1 /\ reported' = reported + 1
        /\ pc' = "unref" /\ UNCHANGED <<result, output, starved>>
     \/ /\ starved' = starved + 1 /\ pc' = "read"
        /\ UNCHANGED <<held, reported, result, output>>
     \/ /\ Exit("-1") /\ output' = "closed"
        /\ UNCHANGED <<held, reported, starved>>
  /\ UNCHANGED <<program, streams, stream, packets, frames, accepted, rejected, leaked>>

(* av_packet_unref, at the end of the loop's body. *)
BugUnrefVideoOnly ==
  /\ pc = "unref"
  /\ stream' = IF IsVideo(stream) THEN 0 ELSE stream
  /\ pc' = "read"
  /\ UNCHANGED <<program, streams, result, output, reported, packets, held, history>>

Unref ==
  /\ pc = "unref"
  /\ stream' = 0 /\ pc' = "read"
  /\ UNCHANGED <<program, streams, result, output, reported, packets, held, history>>

Next == Setup \/ ReadFrame \/ EndOfFile \/ SendPacket \/ ReceiveFrame \/ Unref

Spec == Init /\ [][Next]_vars

-----------------------------------------------------------------------------
(* The loop receives at most one frame for a packet that was accepted, and *)
(* never drains the decoder: when a program returns 0, the frames without  *)
(* a line are those that its packets gave beyond one each, and one more    *)
(* for each time that the decoder had none to give when it was asked.      *)
LostFramesAccounted == result = "0" => held + accepted = frames + starved

(* A packet is released before the next is read, or at the end, unless     *)
(* "continue" passed by the unref: as many packets leak as the decoder has *)
(* refused and as the times it had no frame to give, but for the last one, *)
(* which may be freed at the end.  Each of these leaks one more, so that a *)
(* long video may leak without limit.                                      *)
LeaksAccounted ==
  /\ pc = "read" => leaked + Unreleased = rejected + starved
  /\ result = "0" => rejected + starved \in {leaked, leaked + 1}

(* The inductive invariant behind both.  Each packet that was read was     *)
(* accepted, refused or of another stream; the one that is about to be     *)
(* sent comes on top.                                                      *)
PacketInv ==
  /\ accepted + rejected + (IF pc = "send" THEN 1 ELSE 0) <= packets
  /\ leaked + Unreleased <= packets
  /\ pc \notin LoopSteps \cup {"returned"} => packets = 0 /\ stream = 0 /\ frames = 0
  /\ pc # "returned" => result = "none"

(* A frame is in the decoder or has its line; an accepted packet got a     *)
(* line or found the decoder without a frame.                              *)
FrameInv ==
  /\ held + reported = frames
  /\ reported + starved <= accepted
  /\ result # "-1" => reported + starved + (IF pc = "receive" THEN 1 ELSE 0) = accepted

(* The packet in hand is counted when it is left, not before. *)
LeakInv == pc \in {"send", "receive", "unref"} => leaked = rejected + starved /\ stream # 0

IInv == TypeOK /\ PacketInv /\ FrameInv /\ LeakInv /\ LeaksAccounted
=============================================================================
