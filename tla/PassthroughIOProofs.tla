------------------------ MODULE PassthroughIOProofs ------------------------
(***************************************************************************)
(* Proofs about PassthroughIO, for any number of processes, descriptors,   *)
(* offsets and sizes: a pool thread finds the position where it has put    *)
(* it, and so read and write implement positional I/O.                     *)
(***************************************************************************)
EXTENDS PassthroughIO, SequenceTheorems, TLAPS

USE SizeAssumption, NullAssumption

(* The part of TypeOK that the argument needs. *)
Typed ==
  /\ call \in [Procs -> IO!Calls \cup {NoCall}]
  /\ answer \in [Procs -> IO!Answers \cup {NoAnswer}]
  /\ pos \in [Fds -> Nat]
  /\ pc \in [Workers -> {"idle", "seek", "transfer"}]
  /\ serving \in [Workers -> Procs \cup {NoProc}]

FileTyped == file \in Seq(IO!Cells)

Inv == FileTyped /\ Typed /\ IOInv

(* There is one pool thread: this is what the proofs rest on. *)
LEMMA OneWorker == Workers = {1}
BY DEF Workers, NumThreads

(* What is in the file where a read looks is what the reader is given. *)
LEMMA FilledProperties ==
  ASSUME FileTyped, NEW at \in Nat, NEW size \in Nat
  PROVE  IO!Filled(at, size) \in Seq(IO!Cells) /\ Len(IO!Filled(at, size)) \in Nat
<1> DEFINE last == IO!Smaller(at + size, Len(file))
<1>1. Len(file) \in Nat /\ \A i \in 1 .. Len(file) : file[i] \in IO!Cells
  BY LenProperties, ElementOfSeq DEF FileTyped
<1>2. last \in Nat /\ last <= Len(file)
  BY <1>1 DEF IO!Smaller
<1>3. \A i \in at + 1 .. last : file[i] \in IO!Cells
  BY <1>1, <1>2
<1>4. IO!Filled(at, size) \in Seq(IO!Cells)
  BY <1>2, <1>3, SubSeqProperties DEF IO!Filled
<1> QED BY <1>4, LenProperties

(* The file stays a sequence of cells when it is written or cut.           *)
LEMMA FileChanges ==
  ASSUME FileTyped, NEW at \in Nat, NEW n \in Nat, NEW p \in Procs
  PROVE  IO!Overwrite(at, n, p) \in Seq(IO!Cells) /\ IO!Resized(n) \in Seq(IO!Cells)
<1>1. Len(file) \in Nat /\ \A i \in 1 .. Len(file) : file[i] \in IO!Cells
  BY LenProperties, ElementOfSeq DEF FileTyped
<1>2. p \in IO!Cells /\ Zero \in IO!Cells
  BY DEF IO!Cells
<1>3. IO!Larger(Len(file), at + n) \in Nat
  BY <1>1 DEF IO!Larger
<1>4. IO!Overwrite(at, n, p) \in Seq(IO!Cells)
  <2> DEFINE m == IO!Larger(Len(file), at + n)
             e(i) == IF at < i /\ i <= at + n THEN p
                     ELSE IF i <= Len(file) THEN file[i] ELSE Zero
  <2>1. \A i \in 1 .. m : e(i) \in IO!Cells
    BY <1>1, <1>2
  <2>2. m \in Nat
    BY <1>3
  <2> HIDE DEF m, e
  <2>3. [i \in 1 .. m |-> e(i)] \in Seq(IO!Cells)
    BY <2>1, <2>2, IsASeq
  <2> QED BY <2>3 DEF IO!Overwrite, m, e
<1>5. IO!Resized(n) \in Seq(IO!Cells)
  <2> DEFINE e(i) == IF i <= Len(file) THEN file[i] ELSE Zero
  <2>1. \A i \in 1 .. n : e(i) \in IO!Cells
    BY <1>1, <1>2
  <2> HIDE DEF e
  <2>2. [i \in 1 .. n |-> e(i)] \in Seq(IO!Cells)
    BY <2>1, IsASeq
  <2> QED BY <2>2 DEF IO!Resized, e
<1> QED BY <1>4, <1>5

LEMMA InitInv == Init => Inv
<1> SUFFICES ASSUME Init PROVE Inv
  OBVIOUS
<1>1. FileTyped
  BY EmptySeq DEF Init, IO!Init, FileTyped
<1>2. Typed
  BY DEF Init, IO!Init, Typed
<1>3. IOInv
  BY DEF Init, IO!Init, IOInv, ServiceOK, PositionHeld
<1> QED BY <1>1, <1>2, <1>3 DEF Inv

(* What a transfer does to the types: it answers p and nobody else.        *)
LEMMA TransferTyped ==
  ASSUME FileTyped, Typed, NEW p \in Procs, NEW at \in Nat, call[p] # NoCall,
         IO!Transfer(p, at)
  PROVE  /\ FileTyped'
         /\ UNCHANGED call
         /\ answer' \in [Procs -> IO!Answers \cup {NoAnswer}]
         /\ answer'[p] \in IO!Answers
         /\ \A q \in Procs \ {p} : answer'[q] = answer[q]
<1> DEFINE c == call[p]
<1>0. c \in IO!Calls
  BY DEF Typed
<1>1. c.size \in Nat /\ c.op \in {"read", "write", "sync"}
  <2>1. c.size \in Sizes /\ c.op \in {"read", "write", "sync"}
    BY <1>0 DEF IO!Calls
  <2> QED BY <2>1
<1> HIDE DEF c
<1>2. \/ \E a \in IO!Answers : IO!Reply(p, a) /\ UNCHANGED file
      \/ \E n \in Nat, a \in IO!Answers : IO!Reply(p, a) /\ file' = IO!Overwrite(at, n, p)
  <2>1. CASE IO!Fail(p)
    <3>1. IO!Error \in IO!Answers
      BY EmptySeq DEF IO!Error, IO!Answers
    <3> QED BY <2>1, <3>1 DEF IO!Fail
  <2>2. CASE c.op = "read" /\ ~IO!Fail(p)
    <3> DEFINE d == IO!Filled(at, c.size)
               a == [ok |-> TRUE, n |-> Len(d), data |-> d]
    <3>1. a \in IO!Answers
      BY <1>1, FilledProperties DEF IO!Answers
    <3>2. IO!Reply(p, a) /\ UNCHANGED file
      BY <2>2 DEF IO!Transfer, c
    <3> HIDE DEF a
    <3> QED BY <3>1, <3>2
  <2>3. CASE c.op = "write" /\ ~IO!Fail(p)
    <3>1. PICK n \in 1 .. c.size : /\ file' = IO!Overwrite(at, n, p)
                                   /\ IO!Reply(p, [ok |-> TRUE, n |-> n, data |-> <<>>])
      BY <2>3 DEF IO!Transfer, c
    <3>2. n \in Nat /\ [ok |-> TRUE, n |-> n, data |-> <<>>] \in IO!Answers
      BY <1>1, EmptySeq DEF IO!Answers
    <3> QED BY <3>1, <3>2
  <2>4. CASE c.op = "sync" /\ ~IO!Fail(p)
    <3>1. [ok |-> TRUE, n |-> 0, data |-> <<>>] \in IO!Answers
      BY EmptySeq DEF IO!Answers
    <3> QED BY <2>4, <3>1 DEF IO!Transfer, c
  <2> QED BY <1>1, <2>1, <2>2, <2>3, <2>4
<1>3. FileTyped'
  BY <1>2, FileChanges DEF FileTyped
<1>4. PICK a \in IO!Answers : IO!Reply(p, a)
  BY <1>2
<1> QED BY <1>3, <1>4 DEF IO!Reply, Typed

(* The position of a call is a natural number, and so is where it ends.    *)
LEMMA OffsetTyped ==
  ASSUME Typed, NEW p \in Procs, call[p] # NoCall
  PROVE  call[p] \in IO!Calls /\ call[p].offset \in Nat /\ call[p].fd \in Fds
<1>1. call[p] \in IO!Calls
  BY DEF Typed
<1>2. call[p].offset \in Offsets /\ call[p].fd \in Fds
  BY <1>1 DEF IO!Calls
<1> QED BY <1>1, <1>2

LEMMA CallInv ==
  ASSUME Inv, NEW p \in Procs, IO!Call(p), UNCHANGED <<pos, pc, serving>>
  PROVE  Inv'
<1>1. PICK c \in IO!Calls : call' = [call EXCEPT ![p] = c]
  BY DEF IO!Call
<1>2. call[p] = NoCall /\ UNCHANGED <<file, answer>>
  BY DEF IO!Call
<1>3. FileTyped' /\ Typed'
  BY <1>1, <1>2 DEF Inv, FileTyped, Typed
<1>4. IOInv'
  BY <1>1, <1>2 DEF Inv, Typed, IOInv, ServiceOK, PositionHeld, IO!Waiting
<1> QED BY <1>3, <1>4 DEF Inv

LEMMA ReturnInv ==
  ASSUME Inv, NEW p \in Procs, IO!Return(p), UNCHANGED <<pos, pc, serving>>
  PROVE  Inv'
<1>1. FileTyped' /\ Typed'
  BY DEF Inv, FileTyped, Typed, IO!Return
<1>2. IOInv'
  BY DEF Inv, Typed, IOInv, ServiceOK, PositionHeld, IO!Waiting, IO!Return
<1> QED BY <1>1, <1>2 DEF Inv

LEMMA TruncateInv ==
  ASSUME Inv, Truncate
  PROVE  Inv'
<1>1. PICK n \in Offsets : file' = IO!Resized(n)
  BY DEF Truncate, IO!Truncate
<1>2. FileTyped'
  <2>1. CASE Procs = {}
    <3>1. Len(file) \in Nat /\ \A i \in 1 .. Len(file) : file[i] \in IO!Cells
      BY LenProperties, ElementOfSeq DEF FileTyped, Inv
    <3> DEFINE e(i) == IF i <= Len(file) THEN file[i] ELSE Zero
    <3>2. n \in Nat /\ \A i \in 1 .. n : e(i) \in IO!Cells
      BY <3>1 DEF IO!Cells
    <3> HIDE DEF e
    <3>3. [i \in 1 .. n |-> e(i)] \in Seq(IO!Cells)
      BY <3>2, IsASeq
    <3> QED BY <1>1, <3>3 DEF FileTyped, IO!Resized, e, IO!Cells
  <2>2. CASE Procs # {}
    BY <1>1, <2>2, FileChanges DEF FileTyped, Inv, IO!Cells
  <2> QED BY <2>1, <2>2
<1>3. UNCHANGED <<call, answer, pos, pc, serving>>
  BY DEF Truncate, IO!Truncate
<1>4. Typed' /\ IOInv'
  BY <1>3 DEF Inv, Typed, IOInv, ServiceOK, PositionHeld, IO!Waiting
<1> QED BY <1>2, <1>4 DEF Inv

LEMMA TakeInv ==
  ASSUME Inv, NEW w \in Workers, Take(w)
  PROVE  Inv'
<1>1. PICK p \in Procs : /\ IO!Waiting(p)
                        /\ serving' = [serving EXCEPT ![w] = p]
                        /\ pc' = [pc EXCEPT ![w] = IF call[p].op = "sync" THEN "transfer" ELSE "seek"]
  BY DEF Take
<1>2. UNCHANGED <<file, call, answer, pos>>
  BY DEF Take
<1>3. FileTyped' /\ Typed'
  BY <1>1, <1>2 DEF Inv, FileTyped, Typed
<1>4. IOInv'
  BY <1>1, <1>2, OneWorker DEF Inv, Typed, IOInv, ServiceOK, PositionHeld, IO!Waiting
<1> QED BY <1>3, <1>4 DEF Inv

LEMMA SeekInv ==
  ASSUME Inv, NEW w \in Workers, Seek(w)
  PROVE  Inv'
<1> DEFINE p == serving[w]
<1>1. p \in Procs /\ call[p] # NoCall /\ answer[p] = NoAnswer
  BY DEF Inv, IOInv, ServiceOK, Seek, IO!Waiting
<1>2. call[p].offset \in Nat /\ call[p].fd \in Fds
  BY <1>1, OffsetTyped DEF Inv
<1>3. CASE /\ pos' = [pos EXCEPT ![call[p].fd] = call[p].offset]
           /\ pc' = [pc EXCEPT ![w] = "transfer"]
           /\ UNCHANGED <<file, call, answer, serving>>
  <2>1. FileTyped' /\ Typed'
    BY <1>2, <1>3 DEF Inv, FileTyped, Typed
  <2>2. IOInv'
    BY <1>1, <1>2, <1>3, OneWorker DEF Inv, Typed, IOInv, ServiceOK, PositionHeld, IO!Waiting, Seek
  <2> QED BY <2>1, <2>2 DEF Inv
<1>4. CASE IO!Reply(p, IO!Error) /\ Finish(w) /\ UNCHANGED <<file, call, pos>>
  <2>1. IO!Error \in IO!Answers
    BY EmptySeq DEF IO!Error, IO!Answers
  <2>2. FileTyped' /\ Typed'
    BY <1>1, <1>4, <2>1 DEF Inv, FileTyped, Typed, IO!Reply, Finish
  <2>3. IOInv'
    BY <1>1, <1>4, OneWorker DEF Inv, Typed, IOInv, ServiceOK, PositionHeld, Finish
  <2> QED BY <2>2, <2>3 DEF Inv
<1> QED BY <1>3, <1>4 DEF Seek

LEMMA TransferInv ==
  ASSUME Inv, NEW w \in Workers, Transfer(w)
  PROVE  Inv'
<1> DEFINE p == serving[w]  fd == call[p].fd
<1>1. p \in Procs /\ call[p] # NoCall /\ answer[p] = NoAnswer
  BY DEF Inv, IOInv, ServiceOK, Transfer, IO!Waiting
<1>2. fd \in Fds /\ pos[fd] \in Nat
  BY <1>1, OffsetTyped DEF Inv, Typed
<1>3. /\ IO!Transfer(p, pos[fd])
      /\ pos' = [pos EXCEPT ![fd] = @ + answer'[p].n]
      /\ Finish(w)
  BY DEF Transfer
<1>4. /\ FileTyped' /\ UNCHANGED call
      /\ answer' \in [Procs -> IO!Answers \cup {NoAnswer}]
      /\ answer'[p] \in IO!Answers
  BY <1>1, <1>2, <1>3, TransferTyped DEF Inv
<1>5. pos' \in [Fds -> Nat]
  <2>1. answer'[p].n \in Nat
    BY <1>4 DEF IO!Answers
  <2> QED BY <1>2, <1>3, <2>1 DEF Inv, Typed
<1>6. pc' \in [Workers -> {"idle", "seek", "transfer"}]
      /\ serving' \in [Workers -> Procs \cup {NoProc}]
      /\ pc'[w] = "idle" /\ serving'[w] = NoProc
  BY <1>3 DEF Finish, Inv, Typed
<1>7. Typed'
  BY <1>4, <1>5, <1>6 DEF Inv, Typed
<1>8. IOInv'
  BY <1>6, OneWorker DEF IOInv, ServiceOK, PositionHeld
<1> QED BY <1>4, <1>7, <1>8 DEF Inv

LEMMA NextInv == Inv /\ [Next]_vars => Inv'
<1> SUFFICES ASSUME Inv, [Next]_vars PROVE Inv'
  OBVIOUS
<1>1. ASSUME NEW p \in Procs, ProcNext(p) PROVE Inv'
  BY <1>1, CallInv, ReturnInv DEF ProcNext
<1>2. ASSUME NEW w \in Workers, Take(w) \/ Seek(w) \/ Transfer(w) PROVE Inv'
  BY <1>2, TakeInv, SeekInv, TransferInv
<1>3. CASE Truncate
  BY <1>3, TruncateInv
<1>4. CASE UNCHANGED vars
  BY <1>4 DEF vars, Inv, FileTyped, Typed, IOInv, ServiceOK, PositionHeld, IO!Waiting
<1> QED BY <1>1, <1>2, <1>3, <1>4 DEF Next

LEMMA SpecInv == Spec => []Inv
<1> QED BY InitInv, NextInv, PTL DEF Spec

(* Between its seek and its transfer a pool thread finds the position      *)
(* where it has put it.                                                    *)
THEOREM PositionIsHeld == Spec => []IOInv
<1>1. Inv => IOInv
  BY DEF Inv
<1> QED BY <1>1, SpecInv, PTL

(* Every variable keeps its type, whatever is read, written or cut off.    *)
THEOREM TypeCorrect == Spec => []TypeOK
<1>1. Inv => TypeOK
  BY DEF Inv, FileTyped, Typed, TypeOK
<1> QED BY <1>1, SpecInv, PTL

(* A step of the pool thread or of a process is a step of positional I/O,  *)
(* or changes nothing that a process can see.                              *)
LEMMA StepImplements == Inv /\ [Next]_vars => [IO!Next]_(IO!ioVars)
<1> SUFFICES ASSUME Inv, [Next]_vars PROVE IO!Next \/ UNCHANGED IO!ioVars
  OBVIOUS
<1>1. ASSUME NEW p \in Procs, ProcNext(p) PROVE IO!Next
  BY <1>1 DEF ProcNext, IO!Next
<1>2. ASSUME NEW w \in Workers, Take(w) PROVE UNCHANGED IO!ioVars
  BY <1>2 DEF Take, IO!ioVars
<1>3. ASSUME NEW w \in Workers, Seek(w) PROVE IO!Next \/ UNCHANGED IO!ioVars
  <2> DEFINE p == serving[w]
  <2>1. p \in Procs /\ IO!Waiting(p)
    BY <1>3 DEF Inv, IOInv, ServiceOK, Seek
  <2>2. CASE UNCHANGED <<file, call, answer>>
    BY <2>2 DEF IO!ioVars
  <2>3. CASE IO!Reply(p, IO!Error) /\ UNCHANGED file
    BY <2>1, <2>3 DEF IO!Next, IO!Transfer, IO!Fail
  <2> QED BY <1>3, <2>2, <2>3 DEF Seek
<1>4. ASSUME NEW w \in Workers, Transfer(w) PROVE IO!Next
  <2> DEFINE p == serving[w]  c == call[p]
  <2>1. p \in Procs /\ IO!Waiting(p) /\ (c.op = "sync" \/ pos[c.fd] = c.offset)
    BY <1>4 DEF Inv, IOInv, ServiceOK, PositionHeld, Transfer
  <2>2. IO!Transfer(p, pos[c.fd])
    BY <1>4 DEF Transfer
  <2>3. IO!Transfer(p, c.offset)
    <3>1. CASE pos[c.fd] = c.offset
      BY <2>2, <3>1
    <3>2. CASE c.op = "sync"
      BY <2>2, <3>2 DEF IO!Transfer
    <3> QED BY <2>1, <3>1, <3>2
  <2> QED BY <2>1, <2>3 DEF IO!Next
<1>5. CASE Truncate
  BY <1>5 DEF Truncate, IO!Next
<1>6. CASE UNCHANGED vars
  BY <1>6 DEF vars, IO!ioVars
<1> QED BY <1>1, <1>2, <1>3, <1>4, <1>5, <1>6 DEF Next

(* read and write act at the offset they are given, at one moment, however *)
(* many processes share the descriptor: they implement positional I/O.     *)
THEOREM Refinement == Spec => ImplementsPositionalIO
<1>1. Init => IO!Init
  BY DEF Init
<1> QED BY <1>1, SpecInv, StepImplements, PTL DEF Spec, ImplementsPositionalIO, IO!Spec
=============================================================================
