---------------------------- MODULE PassthroughIO ----------------------------
(***************************************************************************)
(* read, write, flush and fsync of src/fuse/src/passthrough.rs on one      *)
(* file.  A read or a write is two system calls, a seek and a transfer     *)
(* that begins at the position the descriptor has by then; the position is *)
(* shared by all who use the descriptor.  Several calls can wait for the   *)
(* thread pool at once: those of processes that share a descriptor, or the *)
(* read-ahead of the kernel.  truncate does not go through the pool.       *)
(***************************************************************************)
EXTENDS Naturals, Sequences

CONSTANTS Procs, Fds, Offsets, Sizes, Zero, Uninit, NoCall, NoAnswer, NoProc

VARIABLES
  file, call, answer,   \* as in PositionalIO
  pos,                  \* pos[fd]: the position of the descriptor
  pc,                   \* pc[w]: the next step of pool thread w
  serving               \* serving[w]: the process whose call it serves

vars == <<file, call, answer, pos, pc, serving>>

IO == INSTANCE PositionalIO

ASSUME SizeAssumption == Offsets \subseteq Nat /\ Sizes \subseteq Nat \ {0}
ASSUME NullAssumption ==
  NoCall \notin IO!Calls /\ NoAnswer \notin IO!Answers /\ NoProc \notin Procs

(* main.rs mounts the file system with FuseMT::new(filesystem, 1). *)
BugTwoThreads == 2
NumThreads == 1

Workers == 1 .. NumThreads

(* Every variable keeps its type: in particular a reader is given nothing  *)
(* that was not in the file.                                               *)
TypeOK ==
  /\ file \in Seq(IO!Cells)
  /\ call \in [Procs -> IO!Calls \cup {NoCall}]
  /\ answer \in [Procs -> IO!Answers \cup {NoAnswer}]
  /\ pos \in [Fds -> Nat]
  /\ pc \in [Workers -> {"idle", "seek", "transfer"}]
  /\ serving \in [Workers -> Procs \cup {NoProc}]

Init ==
  /\ IO!Init
  /\ pos = [fd \in Fds |-> 0]
  /\ pc = [w \in Workers |-> "idle"]
  /\ serving = [w \in Workers |-> NoProc]

-----------------------------------------------------------------------------
(* A pool thread takes a call that waits and that no other thread serves.  *)
Take(w) ==
  /\ pc[w] = "idle"
  /\ \E p \in Procs :
       /\ IO!Waiting(p)
       /\ \A v \in Workers : serving[v] # p
       /\ serving' = [serving EXCEPT ![w] = p]
       /\ pc' = [pc EXCEPT ![w] = IF call[p].op = "sync" THEN "transfer" ELSE "seek"]
  /\ UNCHANGED <<file, call, answer, pos>>

Finish(w) ==
  /\ pc' = [pc EXCEPT ![w] = "idle"]
  /\ serving' = [serving EXCEPT ![w] = NoProc]

(* file.seek(SeekFrom::Start(offset)) *)
BugSeekOnce(w) ==     \* the seek is left out when the position was never moved
  /\ pc[w] = "seek"
  /\ LET c == call[serving[w]]
     IN  pos' = [pos EXCEPT ![c.fd] = IF @ = 0 THEN c.offset ELSE @]
  /\ pc' = [pc EXCEPT ![w] = "transfer"]
  /\ UNCHANGED <<file, call, answer, serving>>

Seek(w) ==
  /\ pc[w] = "seek"
  /\ \/ /\ LET c == call[serving[w]] IN pos' = [pos EXCEPT ![c.fd] = c.offset]
        /\ pc' = [pc EXCEPT ![w] = "transfer"]
        /\ UNCHANGED <<answer, serving>>
     \/ /\ IO!Reply(serving[w], IO!Error)
        /\ Finish(w)
        /\ UNCHANGED pos
  /\ UNCHANGED <<file, call>>

(* file.read, file.write, file.sync_all, file.flush *)
Transfer(w) ==
  /\ pc[w] = "transfer"
  /\ LET p == serving[w]  fd == call[p].fd
     IN  /\ IO!Transfer(p, pos[fd])
         /\ pos' = [pos EXCEPT ![fd] = @ + answer'[p].n]
  /\ Finish(w)

ProcNext(p) == (IO!Call(p) \/ IO!Return(p)) /\ UNCHANGED <<pos, pc, serving>>

Truncate == IO!Truncate /\ UNCHANGED <<pos, pc, serving>>

Next ==
  \/ \E p \in Procs : ProcNext(p)
  \/ \E w \in Workers : Take(w) \/ Seek(w) \/ Transfer(w)
  \/ Truncate

Spec == Init /\ [][Next]_vars

-----------------------------------------------------------------------------
(* Between its seek and its transfer a pool thread finds the position      *)
(* where it has put it, although others have the same descriptor: no other *)
(* thread of the pool seeks in between.                                    *)
PositionHeld(w) ==
  pc[w] = "transfer" => LET c == call[serving[w]]
                        IN  c.op = "sync" \/ pos[c.fd] = c.offset

ServiceOK(w) ==
  /\ pc[w] = "idle" <=> serving[w] = NoProc
  /\ pc[w] # "idle" => serving[w] \in Procs /\ IO!Waiting(serving[w])

(* The inductive invariant: what is served waits, and its position holds.  *)
IOInv == \A w \in Workers : ServiceOK(w) /\ PositionHeld(w)

(* read and write implement calls that act at the offset they are given,   *)
(* at one moment: no reader is given another place, no data goes astray.   *)
ImplementsPositionalIO == IO!Spec
=============================================================================
