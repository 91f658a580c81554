---------------------------- MODULE PositionalIO ----------------------------
(***************************************************************************)
(* What read(), write() and fsync() of the mounted file system promise for *)
(* one file: a call takes effect at one moment between its beginning and   *)
(* its return, at the offset the caller asked for, however many other      *)
(* calls are under way on the same descriptor.  Nothing here has a file    *)
(* position, a queue or a thread.                                          *)
(***************************************************************************)
EXTENDS Naturals, Sequences

CONSTANTS
  Procs,             \* processes that use the file
  Fds,               \* descriptors of the file, shared by all of them
  Offsets, Sizes,    \* what a call may ask for
  Zero,              \* the contents of a hole
  Uninit,            \* a byte of a buffer that nothing was read into
  NoCall, NoAnswer

(* A process writes its own name, so that whose data is where can be seen. *)
Cells   == Procs \cup {Zero}
Calls   == [op : {"read", "write", "sync"}, fd : Fds, offset : Offsets, size : Sizes]
Answers == [ok : BOOLEAN, n : Nat, data : Seq(Cells)]
Error   == [ok |-> FALSE, n |-> 0, data |-> <<>>]

VARIABLES
  file,      \* the contents of the file
  call,      \* call[p]: what process p has asked for, or NoCall
  answer     \* answer[p]: what it was given, or NoAnswer
ioVars == <<file, call, answer>>

Init == /\ file = <<>>
        /\ call = [p \in Procs |-> NoCall]
        /\ answer = [p \in Procs |-> NoAnswer]

-----------------------------------------------------------------------------
Smaller(m, n) == IF m < n THEN m ELSE n
Larger(m, n)  == IF m < n THEN n ELSE m

(* n bytes by process p at offset at; a gap before them reads as zeros. *)
Overwrite(at, n, p) ==
  [i \in 1 .. Larger(Len(file), at + n) |->
     IF at < i /\ i <= at + n THEN p ELSE IF i <= Len(file) THEN file[i] ELSE Zero]

Resized(n) == [i \in 1 .. n |-> IF i <= Len(file) THEN file[i] ELSE Zero]

(* What is there of the size bytes from offset at: less at the end. *)
BugWholeBuffer(at, size) ==   \* the length of the buffer is set, not what was read
  [i \in 1 .. size |-> IF at + i <= Len(file) THEN file[at + i] ELSE Uninit]

Filled(at, size) == SubSeq(file, at + 1, Smaller(at + size, Len(file)))

-----------------------------------------------------------------------------
Call(p) ==
  /\ call[p] = NoCall
  /\ \E c \in Calls : call' = [call EXCEPT ![p] = c]
  /\ UNCHANGED <<file, answer>>

Waiting(p) == call[p] # NoCall /\ answer[p] = NoAnswer

Reply(p, a) == answer' = [answer EXCEPT ![p] = a] /\ UNCHANGED call

Fail(p) == Reply(p, Error) /\ UNCHANGED file

(* The transfer of p's call takes place at offset at: all that is there is *)
(* read; a part of the data at least is written; or the call fails.        *)
Transfer(p, at) ==
  \/ /\ call[p].op = "read"
     /\ LET d == Filled(at, call[p].size)
        IN  Reply(p, [ok |-> TRUE, n |-> Len(d), data |-> d])
     /\ UNCHANGED file
  \/ /\ call[p].op = "write"
     /\ \E n \in 1 .. call[p].size :
          /\ file' = Overwrite(at, n, p)
          /\ Reply(p, [ok |-> TRUE, n |-> n, data |-> <<>>])
  \/ /\ call[p].op = "sync"
     /\ Reply(p, [ok |-> TRUE, n |-> 0, data |-> <<>>])
     /\ UNCHANGED file
  \/ Fail(p)

Return(p) ==
  /\ answer[p] # NoAnswer
  /\ call' = [call EXCEPT ![p] = NoCall]
  /\ answer' = [answer EXCEPT ![p] = NoAnswer]
  /\ UNCHANGED file

(* truncate() and ftruncate(), by anyone at any time. *)
Truncate == \E n \in Offsets : file' = Resized(n) /\ UNCHANGED <<call, answer>>

Next ==
  \/ \E p \in Procs : Call(p) \/ (Waiting(p) /\ Transfer(p, call[p].offset)) \/ Return(p)
  \/ Truncate

Spec == Init /\ [][Next]_ioVars
=============================================================================
