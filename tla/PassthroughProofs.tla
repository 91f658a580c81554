------------------------- MODULE PassthroughProofs -------------------------
(***************************************************************************)
(* Proofs about Passthrough, for any number of processes, names, nodes and *)
(* descriptors: IInv is an inductive invariant, and with it a path is      *)
(* handed to video_tee at most once.                                       *)
(***************************************************************************)
EXTENDS Passthrough, SequenceTheorems, TLAPS

USE ProcessAssumption, PathAssumption, NullAssumption

(* add_processed_file adds its path to the listed ones and nothing else. *)
LEMMA RangeAppend ==
  ASSUME NEW S, NEW s \in Seq(S), NEW e \in S
  PROVE  Range(Append(s, e)) = Range(s) \cup {e}
<1> DEFINE t == Append(s, e)
<1>1. /\ DOMAIN s = 1 .. Len(s)
      /\ DOMAIN t = 1 .. Len(s) + 1
      /\ Len(s) \in Nat
      /\ \A i \in 1 .. Len(s) : t[i] = s[i]
      /\ t[Len(s) + 1] = e
  BY AppendProperties, LenProperties
<1>2. ASSUME NEW x \in Range(t) PROVE x \in Range(s) \cup {e}
  <2>1. PICK i \in 1 .. Len(s) + 1 : x = t[i]
    BY <1>1 DEF Range
  <2>2. i \in 1 .. Len(s) \/ i = Len(s) + 1
    BY <1>1
  <2> QED BY <1>1, <2>1, <2>2 DEF Range
<1>3. ASSUME NEW x \in Range(s) \cup {e} PROVE x \in Range(t)
  <2>1. CASE x = e
    BY <1>1, <2>1 DEF Range
  <2>2. CASE x \in Range(s)
    <3>1. PICK i \in 1 .. Len(s) : x = s[i]
      BY <1>1, <2>2 DEF Range
    <3> QED BY <1>1, <3>1 DEF Range
  <2> QED BY <2>1, <2>2
<1> QED BY <1>2, <1>3

(* What becomes of the queue when a request is added or taken. *)
LEMMA EnqueueProperties ==
  ASSUME TypeOK, NEW op \in {"io", "flush", "release"}, NEW c \in Procs \cup {NoProc},
         NEW h \in Handles, Enqueue(op, c, h)
  PROVE  /\ queue' \in Seq(Requests)
         /\ Len(queue) \in Nat
         /\ Len(queue') = Len(queue) + 1
         /\ \A i \in 1 .. Len(queue) : queue'[i] = queue[i]
         /\ queue'[Len(queue) + 1].op = op
         /\ queue'[Len(queue) + 1].who = c
         /\ queue'[Len(queue) + 1].fd = h.fd
<1> DEFINE r == [op |-> op, who |-> c, fd |-> h.fd, path |-> lastPath[h.node]]
<1>1. r \in Requests
  BY DEF TypeOK, Handles, Requests
<1>2. queue' = Append(queue, r) /\ queue \in Seq(Requests)
  BY DEF Enqueue, TypeOK
<1> QED BY <1>1, <1>2, AppendProperties, LenProperties

LEMMA InitIInv == Init => IInv
<1> SUFFICES ASSUME Init PROVE IInv
  OBVIOUS
<1>1. lastPath \in [Nodes -> Paths]
  <2> SUFFICES ASSUME NEW n \in Nodes PROVE lastPath[n] \in Paths
    BY DEF Init
  <2>1. \E p \in Paths : dir[p] = n \/ n \notin Range(dir)
    BY DEF Init, Range
  <2> QED BY <2>1 DEF Init
<1>2. TypeOK
  BY <1>1, EmptySeq DEF Init, TypeOK, Procs, AppStates, VideoTeeStates, WorkerSteps
<1>3. Listed = {} /\ Len(queue) = 0
  BY DEF Init, Listed, Range
<1>4. HandleInv /\ CallInv /\ WorkerInv /\ ListInv /\ AtMostOneJobPerPath
  BY <1>3 DEF Init, HandleInv, CallInv, WorkerInv, WorkerOK, ListInv, AtMostOneJobPerPath,
              Procs, Holding
<1> QED BY <1>2, <1>4 DEF IInv

LEMMA CreateIInv ==
  ASSUME IInv, NEW a \in Apps, NEW p \in Paths, Create(a, p)
  PROVE  IInv'
<1> USE DEF IInv
<1>1. PICK fd \in Fds \ fds, n \in FreeNodes :
        /\ dir' = [dir EXCEPT ![p] = n]
        /\ lastPath' = [lastPath EXCEPT ![n] = p]
        /\ fds' = fds \cup {fd}
        /\ \/ /\ st' = [st EXCEPT ![a] = "open"]
              /\ fh' = [fh EXCEPT ![a] = [fd |-> fd, node |-> n, writing |-> TRUE]]
              /\ UNCHANGED leaked
           \/ /\ leaked' = leaked \cup {fd}
              /\ UNCHANGED <<st, fh>>
  BY DEF Create
<1>2. n \in Nodes /\ a \in Procs /\ [fd |-> fd, node |-> n, writing |-> TRUE] \in Handles
  BY DEF FreeNodes, Handles, Procs
<1>3. UNCHANGED <<target, dropped, queue, pc, req, processed>>
  BY DEF Create, poolVars
<1>4. TypeOK'
  <2>1. dir' \in [Paths -> Nodes \cup {NoNode}] /\ lastPath' \in [Nodes -> Paths]
    BY <1>1, <1>2 DEF TypeOK
  <2>2. fds' \in SUBSET Fds /\ leaked' \in SUBSET Fds
    BY <1>1 DEF TypeOK
  <2>3. /\ st' \in [Procs -> AppStates \cup VideoTeeStates]
        /\ \A b \in Apps : st'[b] \in AppStates
        /\ \A v \in VideoTees : st'[v] \in VideoTeeStates
    BY <1>1, <1>2 DEF TypeOK, AppStates, Procs
  <2>4. fh' \in [Procs -> Handles \cup {NoHandle}]
    BY <1>1, <1>2 DEF TypeOK
  <2> QED BY <1>3, <2>1, <2>2, <2>3, <2>4 DEF TypeOK
<1>5. HandleInv'
  BY <1>1, <1>2 DEF HandleInv, TypeOK, Holding
<1>6. CallInv' /\ WorkerInv'
  BY DEF CallInv, WorkerInv, WorkerOK, AwaitsAnswer, TypeOK, Create, poolVars, Procs
<1>7. ListInv' /\ AtMostOneJobPerPath'
  BY <1>1, <1>2, <1>3 DEF ListInv, AtMostOneJobPerPath, Listed, TypeOK, Procs
<1> QED BY <1>4, <1>5, <1>6, <1>7

LEMMA OpenFileIInv ==
  ASSUME IInv, NEW c \in Procs, NEW p \in Paths, NEW writing \in BOOLEAN,
         st[c] \in {"idle", "started"}, OpenFile(c, p, writing)
  PROVE  IInv'
<1> USE DEF IInv
<1>1. PICK fd \in Fds \ fds :
        /\ fds' = fds \cup {fd}
        /\ fh' = [fh EXCEPT ![c] = [fd |-> fd, node |-> dir[p], writing |-> writing]]
  BY DEF OpenFile
<1>2. [fd |-> fd, node |-> dir[p], writing |-> writing] \in Handles
  BY DEF OpenFile, TypeOK, Handles
<1>3. UNCHANGED <<dir, lastPath, target, dropped, queue, pc, req, processed, leaked>>
  BY DEF OpenFile, dirVars, poolVars
<1>4. st' = [st EXCEPT ![c] = "open"]
  BY DEF OpenFile
<1>5. TypeOK'
  BY <1>1, <1>2, <1>3, <1>4 DEF TypeOK, AppStates, VideoTeeStates
<1>6. HandleInv'
  BY <1>1, <1>2, <1>4 DEF HandleInv, TypeOK, Holding
<1>7. CallInv' /\ WorkerInv'
  BY <1>1, <1>3, <1>4 DEF CallInv, WorkerInv, WorkerOK, AwaitsAnswer, TypeOK
<1>8. ListInv' /\ AtMostOneJobPerPath'
  BY <1>3, <1>4 DEF ListInv, AtMostOneJobPerPath, Listed, TypeOK
<1> QED BY <1>5, <1>6, <1>7, <1>8

LEMMA DirIInv ==
  ASSUME IInv, DirNext
  PROVE  IInv'
<1> USE DEF IInv
<1>1. UNCHANGED <<st, fh, target, fds, dropped, queue, pc, req, processed, leaked>>
  BY DEF DirNext, Unlink, Rename, procVars, poolVars
<1>2. dir' \in [Paths -> Nodes \cup {NoNode}] /\ lastPath' \in [Nodes -> Paths]
  BY DEF TypeOK, DirNext, Unlink, Rename
<1>3. TypeOK'
  BY <1>1, <1>2 DEF TypeOK
<1>4. HandleInv' /\ CallInv' /\ WorkerInv' /\ ListInv' /\ AtMostOneJobPerPath'
  BY <1>1 DEF HandleInv, CallInv, WorkerInv, WorkerOK, AwaitsAnswer, ListInv,
              AtMostOneJobPerPath, Listed, Serving
<1> QED BY <1>3, <1>4

(* RequestIO and Close put a request into the queue for a process that     *)
(* waits for nothing, and that now waits for this request.                 *)
LEMMA CallIInv ==
  ASSUME IInv, NEW c \in Procs, NEW op \in {"io", "flush"},
         st[c] \in {"open", "loaded"},
         st' = [st EXCEPT ![c] = IF op = "io" THEN "waiting" ELSE "closing"],
         Enqueue(op, c, fh[c]),
         UNCHANGED <<dir, lastPath, fh, target, fds, dropped, pc, req, processed, leaked>>
  PROVE  IInv'
<1> USE DEF IInv
<1>1. fh[c] \in Handles
  BY DEF TypeOK, HandleInv, Holding
<1>2. /\ queue' \in Seq(Requests)
      /\ Len(queue) \in Nat
      /\ Len(queue') = Len(queue) + 1
      /\ \A i \in 1 .. Len(queue) : queue'[i] = queue[i]
      /\ queue'[Len(queue) + 1].op = op
      /\ queue'[Len(queue) + 1].who = c
      /\ queue'[Len(queue) + 1].fd = fh[c].fd
  BY <1>1, EnqueueProperties
<1>3. TypeOK'
  BY <1>2 DEF TypeOK, AppStates, VideoTeeStates
<1>4. HandleInv'
  BY DEF HandleInv, TypeOK, Holding
<1>5. \A i \in 1 .. Len(queue) : queue[i].op # "release" => queue[i].who # c
  BY DEF CallInv, AwaitsAnswer
<1>6. \A i \in 1 .. Len(queue') : i \in 1 .. Len(queue) \/ i = Len(queue) + 1
  BY <1>2
<1>7. CallInv'
  <2>1. ASSUME NEW i \in 1 .. Len(queue'), queue'[i].op # "release"
        PROVE  AwaitsAnswer(queue[i])'
    <3>1. CASE i \in 1 .. Len(queue)
      BY <1>2, <1>5, <2>1, <3>1 DEF CallInv, AwaitsAnswer, TypeOK
    <3>2. CASE i = Len(queue) + 1
      BY <1>2, <3>2 DEF AwaitsAnswer, TypeOK
    <3> QED BY <1>6, <3>1, <3>2
  <2>2. ASSUME NEW i \in 1 .. Len(queue'), NEW j \in 1 .. Len(queue'),
               queue'[i].op # "release", queue'[j].op # "release",
               queue'[i].who = queue'[j].who
        PROVE  i = j
    BY <1>2, <1>5, <1>6, <2>2 DEF CallInv
  <2> QED BY <2>1, <2>2 DEF CallInv
<1>8. WorkerInv'
  <2>1. ASSUME NEW w \in Workers, pc[w] # "idle", req[w].op # "release"
        PROVE  /\ AwaitsAnswer(req[w])'
               /\ \A i \in 1 .. Len(queue') :
                    queue'[i].op # "release" => queue'[i].who # req[w].who
    <3>1. req[w].who # c /\ AwaitsAnswer(req[w])
      BY <2>1 DEF WorkerInv, WorkerOK, AwaitsAnswer
    <3>2. AwaitsAnswer(req[w])'
      BY <3>1 DEF AwaitsAnswer, TypeOK
    <3>3. \A i \in 1 .. Len(queue) : queue[i].op # "release" => queue[i].who # req[w].who
      BY <2>1 DEF WorkerInv, WorkerOK
    <3> QED BY <1>2, <1>6, <3>1, <3>2, <3>3
  <2> QED BY <2>1 DEF WorkerInv, WorkerOK
<1>9. ListInv' /\ AtMostOneJobPerPath'
  BY DEF ListInv, AtMostOneJobPerPath, Listed
<1> QED BY <1>3, <1>4, <1>7, <1>8, <1>9

LEMMA ReturnIInv ==
  ASSUME IInv, NEW c \in Procs, Return(c)
  PROVE  IInv'
<1> USE DEF IInv
<1>1. UNCHANGED <<dir, lastPath, target, fds, queue, pc, req, processed, leaked>>
  BY DEF Return, dirVars, poolVars
<1>2. fh[c] \in Handles
  BY DEF Return, TypeOK, HandleInv, Holding
<1>3. TypeOK'
  <2>1. /\ st' \in [Procs -> AppStates \cup VideoTeeStates]
        /\ \A a \in Apps : st'[a] \in AppStates
        /\ \A v \in VideoTees : st'[v] \in VideoTeeStates
    BY DEF Return, TypeOK, AppStates, VideoTeeStates, Procs
  <2>2. fh' \in [Procs -> Handles \cup {NoHandle}] /\ dropped' \in SUBSET Handles
    BY <1>2 DEF Return, TypeOK
  <2> QED BY <1>1, <2>1, <2>2 DEF TypeOK
<1>4. HandleInv'
  BY DEF Return, HandleInv, TypeOK, Holding
<1>5. CallInv' /\ WorkerInv'
  BY <1>1 DEF Return, CallInv, WorkerInv, WorkerOK, AwaitsAnswer, TypeOK
<1>6. ListInv' /\ AtMostOneJobPerPath'
  BY <1>1 DEF Return, ListInv, AtMostOneJobPerPath, Listed, TypeOK
<1> QED BY <1>3, <1>4, <1>5, <1>6

LEMMA DispatchIInv ==
  ASSUME IInv, NEW h \in dropped, Dispatch(h)
  PROVE  IInv'
<1> USE DEF IInv
<1>1. UNCHANGED <<dir, lastPath, st, fh, target, fds, pc, req, processed, leaked>>
  BY DEF Dispatch, dirVars, procVars
<1>2. /\ queue' \in Seq(Requests)
      /\ Len(queue) \in Nat
      /\ Len(queue') = Len(queue) + 1
      /\ \A i \in 1 .. Len(queue) : queue'[i] = queue[i]
      /\ queue'[Len(queue) + 1].op = "release"
  <2>1. h \in Handles /\ Enqueue("release", NoProc, h)
    BY DEF TypeOK, Dispatch
  <2> QED BY <2>1, EnqueueProperties
<1>3. TypeOK'
  BY <1>1, <1>2 DEF TypeOK, Dispatch
<1>4. \A i \in 1 .. Len(queue') : queue'[i].op # "release" =>
        i \in 1 .. Len(queue) /\ queue'[i] = queue[i]
  BY <1>2
<1>5. CallInv' /\ WorkerInv'
  BY <1>1, <1>4 DEF CallInv, WorkerInv, WorkerOK, AwaitsAnswer
<1>6. HandleInv' /\ ListInv' /\ AtMostOneJobPerPath'
  BY <1>1 DEF HandleInv, ListInv, AtMostOneJobPerPath, Listed
<1> QED BY <1>3, <1>5, <1>6

LEMMA TakeIInv ==
  ASSUME IInv, NEW w \in Workers, Take(w)
  PROVE  IInv'
<1> USE DEF IInv
<1>1. UNCHANGED <<dir, lastPath, st, fh, target, fds, dropped, processed, leaked>>
  BY DEF Take, dirVars, procVars
<1>2. /\ queue' = Tail(queue)
      /\ req' = [req EXCEPT ![w] = Head(queue)]
      /\ pc' = [pc EXCEPT ![w] = "serve"]
      /\ queue # <<>>
  BY DEF Take
<1>3. /\ Head(queue) \in Requests
      /\ Head(queue) = queue[1]
      /\ queue' \in Seq(Requests)
      /\ Len(queue) \in Nat \ {0}
      /\ Len(queue') = Len(queue) - 1
      /\ \A i \in 1 .. Len(queue') : queue'[i] = queue[i + 1]
  BY <1>2, HeadTailProperties, LenProperties, EmptySeq DEF TypeOK
<1>4. TypeOK'
  BY <1>1, <1>2, <1>3 DEF TypeOK, WorkerSteps
<1>5. \A i \in 1 .. Len(queue') : i + 1 \in 1 .. Len(queue) /\ i + 1 # 1
  BY <1>3
<1>6. CallInv'
  <2>1. ASSUME NEW i \in 1 .. Len(queue'), queue'[i].op # "release"
        PROVE  AwaitsAnswer(queue[i])'
    BY <1>1, <1>3, <1>5, <2>1 DEF CallInv, AwaitsAnswer
  <2>2. ASSUME NEW i \in 1 .. Len(queue'), NEW j \in 1 .. Len(queue'),
               queue'[i].op # "release", queue'[j].op # "release",
               queue'[i].who = queue'[j].who
        PROVE  i = j
    <3>1. i + 1 = j + 1
      BY <1>3, <1>5, <2>2 DEF CallInv
    <3> QED BY <1>3, <3>1
  <2> QED BY <2>1, <2>2 DEF CallInv
<1>7. WorkerInv'
  <2>1. ASSUME NEW u \in Workers, u # w
        PROVE  /\ pc'[u] = pc[u] /\ req'[u] = req[u]
    BY <1>2, <2>1 DEF TypeOK
  <2>2. pc'[w] = "serve" /\ req'[w] = queue[1] /\ queue[1] # NoRequest
    BY <1>2, <1>3 DEF TypeOK
  <2>3. 1 \in 1 .. Len(queue)
    BY <1>3
  <2>4. queue[1].op # "release" =>
          /\ AwaitsAnswer(queue[1])
          /\ \A i \in 1 .. Len(queue') :
               queue'[i].op # "release" => queue'[i].who # queue[1].who
    BY <1>3, <1>5, <2>3 DEF CallInv
  <2>5. ASSUME NEW u \in Workers, u # w, pc[u] # "idle", req[u].op # "release"
        PROVE  /\ AwaitsAnswer(req[u])
               /\ \A i \in 1 .. Len(queue') :
                    queue'[i].op # "release" => queue'[i].who # req[u].who
    BY <1>3, <1>5, <2>5 DEF WorkerInv, WorkerOK
  <2>6. \A r : AwaitsAnswer(r) <=>
               /\ r.who \in Procs
               /\ st'[r.who] = IF r.op = "io" THEN "waiting" ELSE "closing"
               /\ fh'[r.who].fd = r.fd
    BY <1>1 DEF AwaitsAnswer
  <2>7. ASSUME NEW u \in Workers, u # w PROVE WorkerOK(u)'
    BY <2>1, <2>5, <2>6, <2>7 DEF WorkerInv, WorkerOK, AwaitsAnswer
  <2>8. WorkerOK(w)'
    BY <2>2, <2>4, <2>6 DEF WorkerOK, AwaitsAnswer
  <2> QED BY <2>7, <2>8 DEF WorkerInv
<1>8. HandleInv' /\ AtMostOneJobPerPath'
  BY <1>1 DEF HandleInv, AtMostOneJobPerPath
<1>9. ListInv'
  BY <1>1, <1>2 DEF ListInv, Listed, TypeOK
<1> QED BY <1>4, <1>6, <1>7, <1>8, <1>9

-----------------------------------------------------------------------------
(* The steps of the pool thread. *)

(* main.rs gives the pool one thread: no other thread is between the       *)
(* lookup in the list and the spawn.                                       *)
LEMMA OneWorker == \A u, w \in Workers : u = w
  BY DEF Workers, NumThreads

(* A pool thread that is done with its request awaits nothing. *)
LEMMA FinishInv ==
  ASSUME IInv, NEW w \in Workers, Finish(w)
  PROVE  /\ pc' \in [Workers -> WorkerSteps]
         /\ req' \in [Workers -> Requests \cup {NoRequest}]
         /\ UNCHANGED <<st, fh, queue>> => WorkerInv'
         /\ /\ UNCHANGED <<target, processed>>
            /\ \A v \in VideoTees : st'[v] = "started" => st[v] = "started"
            => ListInv'
<1> USE DEF IInv
<1>1. /\ pc' = [pc EXCEPT ![w] = "idle"]
      /\ req' = [req EXCEPT ![w] = NoRequest]
  BY DEF Finish
<1>2. /\ pc' \in [Workers -> WorkerSteps]
      /\ req' \in [Workers -> Requests \cup {NoRequest}]
  BY <1>1 DEF TypeOK, WorkerSteps
<1>3. ASSUME UNCHANGED <<st, fh, queue>> PROVE WorkerInv'
  BY <1>1, <1>3 DEF TypeOK, WorkerInv, WorkerOK, AwaitsAnswer
<1>4. ASSUME UNCHANGED <<target, processed>>,
             \A v \in VideoTees : st'[v] = "started" => st[v] = "started"
      PROVE  ListInv'
  BY <1>1, <1>4 DEF TypeOK, ListInv, Listed
<1> QED BY <1>2, <1>3, <1>4

LEMMA AnswerIInv ==
  ASSUME IInv, NEW w \in Workers, Answer(w)
  PROVE  IInv'
<1> USE DEF IInv
<1>1. UNCHANGED <<dir, lastPath, fh, target, fds, dropped, queue, processed, leaked>>
  BY DEF Answer, dirVars
<1> DEFINE c == req[w].who
<1>2. /\ c \in Procs
      /\ st[c] \in {"waiting", "closing"}
      /\ \A i \in 1 .. Len(queue) : queue[i].op # "release" => queue[i].who # c
  BY DEF Answer, WorkerInv, WorkerOK, AwaitsAnswer
<1>3. /\ \E s \in {"flushed", "open", "loaded"} : st' = [st EXCEPT ![c] = s]
      /\ st'[c] = "loaded" => c \notin Apps
  BY <1>2 DEF Answer, TypeOK
<1>4. Finish(w)
  BY DEF Answer
<1>5. TypeOK'
  <2>1. /\ st' \in [Procs -> AppStates \cup VideoTeeStates]
        /\ \A a \in Apps : st'[a] \in AppStates
        /\ \A v \in VideoTees : st'[v] \in VideoTeeStates
    BY <1>2, <1>3 DEF TypeOK, AppStates, VideoTeeStates, Procs
  <2> QED BY <1>1, <1>4, <2>1, FinishInv DEF TypeOK
<1>6. HandleInv'
  BY <1>1, <1>2, <1>3 DEF HandleInv, TypeOK, Holding
<1>7. CallInv'
  BY <1>1, <1>2, <1>3 DEF CallInv, AwaitsAnswer, TypeOK
<1>8. WorkerInv'
  <2>1. ASSUME NEW u \in Workers PROVE u = w
    BY OneWorker
  <2>2. WorkerOK(w)'
    BY <1>4 DEF Finish, TypeOK, WorkerOK
  <2> QED BY <2>1, <2>2 DEF WorkerInv
<1>9. ListInv' /\ AtMostOneJobPerPath'
  BY <1>1, <1>2, <1>3, <1>4, FinishInv DEF AtMostOneJobPerPath, TypeOK
<1> QED BY <1>5, <1>6, <1>7, <1>8, <1>9

LEMMA PanicIInv ==
  ASSUME IInv, NEW w \in Workers, pc[w] # "idle", Panic(w)
  PROVE  IInv'
<1> USE DEF IInv
<1>1. UNCHANGED <<dir, lastPath, st, fh, target, fds, dropped, queue, processed>>
  BY DEF Panic, dirVars, procVars
<1>2. Finish(w) /\ leaked' \in SUBSET Fds
  BY DEF Panic, TypeOK, WorkerInv, WorkerOK, Requests
<1>3. TypeOK'
  BY <1>1, <1>2, FinishInv DEF TypeOK
<1>4. HandleInv' /\ CallInv' /\ AtMostOneJobPerPath'
  BY <1>1 DEF HandleInv, CallInv, AwaitsAnswer, AtMostOneJobPerPath
<1>5. WorkerInv' /\ ListInv'
  BY <1>1, <1>2, FinishInv
<1> QED BY <1>3, <1>4, <1>5

LEMMA CloseFdIInv ==
  ASSUME IInv, NEW w \in Workers, CloseFd(w)
  PROVE  IInv'
<1> USE DEF IInv
<1>1. UNCHANGED <<dir, lastPath, st, fh, target, dropped, queue, processed, leaked>>
  BY DEF CloseFd, dirVars, procVars
<1>2. Finish(w) /\ fds' \in SUBSET Fds
  BY DEF CloseFd, TypeOK
<1>3. TypeOK'
  BY <1>1, <1>2, FinishInv DEF TypeOK
<1>4. HandleInv' /\ CallInv' /\ AtMostOneJobPerPath'
  BY <1>1 DEF HandleInv, CallInv, AwaitsAnswer, AtMostOneJobPerPath
<1>5. WorkerInv' /\ ListInv'
  BY <1>1, <1>2, FinishInv
<1> QED BY <1>3, <1>4, <1>5

(* After the lookup: a thread that goes on to add the path did not find it. *)
LEMMA CheckIInv ==
  ASSUME IInv, NEW w \in Workers, Check(w)
  PROVE  IInv'
<1> USE DEF IInv
<1>1. UNCHANGED <<dir, lastPath, st, fh, target, fds, dropped, queue, req, processed, leaked>>
  BY DEF Check, dirVars, procVars
<1>2. /\ pc' \in [Workers -> WorkerSteps]
      /\ \A u \in Workers : u # w => pc'[u] = pc[u]
      /\ pc'[w] \in {"add", "close"}
      /\ pc'[w] = "add" => req[w].path \notin Listed /\ req[w].path \in BmpPaths
  BY DEF Check, TypeOK, WorkerSteps, check_is_processed
<1>3. pc[w] = "serve" /\ req[w].op = "release"
  BY DEF Check, Serving
<1>4. TypeOK'
  BY <1>1, <1>2 DEF TypeOK
<1>5. HandleInv' /\ CallInv' /\ AtMostOneJobPerPath'
  BY <1>1 DEF HandleInv, CallInv, AwaitsAnswer, AtMostOneJobPerPath
<1>6. WorkerInv'
  BY <1>1, <1>2, <1>3 DEF WorkerInv, WorkerOK, AwaitsAnswer
<1>7. ListInv'
  BY <1>1, <1>2 DEF ListInv, Listed
<1> QED BY <1>4, <1>5, <1>6, <1>7

LEMMA AddIInv ==
  ASSUME IInv, NEW w \in Workers, Add(w)
  PROVE  IInv'
<1> USE DEF IInv
<1>1. UNCHANGED <<dir, lastPath, st, fh, target, fds, dropped, queue, req, leaked>>
  BY DEF Add, dirVars, procVars
<1>2. pc[w] = "add" /\ req[w].op = "release" /\ pc' = [pc EXCEPT ![w] = "spawn"]
  BY DEF Add, Serving
<1>3. req[w].path \in BmpPaths /\ req[w].path \notin Listed
  BY <1>2 DEF WorkerInv, WorkerOK, ListInv
<1>4. processed' \in Seq(BmpPaths) /\ Listed' = Listed \cup {req[w].path}
  BY <1>3, RangeAppend, AppendProperties DEF Add, TypeOK, Listed
<1>5. TypeOK'
  BY <1>1, <1>2, <1>4 DEF TypeOK, WorkerSteps
<1>6. HandleInv' /\ CallInv' /\ AtMostOneJobPerPath'
  BY <1>1 DEF HandleInv, CallInv, AwaitsAnswer, AtMostOneJobPerPath
<1>7. WorkerInv'
  BY <1>1, <1>2, <1>3 DEF WorkerInv, WorkerOK, AwaitsAnswer, TypeOK
<1>8. ListInv'
  <2>1. NoPath \notin BmpPaths /\ \A v \in VideoTees : target[v] # req[w].path
    BY <1>3 DEF ListInv
  <2> QED BY <1>1, <1>2, <1>4, <2>1, OneWorker DEF ListInv, TypeOK
<1> QED BY <1>5, <1>6, <1>7, <1>8

(* The path has no program yet, so the one that is started is its first. *)
LEMMA SpawnIInv ==
  ASSUME IInv, NEW w \in Workers, Spawn(w)
  PROVE  IInv'
<1> USE DEF IInv
<1>1. UNCHANGED <<dir, lastPath, fh, fds, dropped, queue, req, processed, leaked>>
  BY DEF Spawn, dirVars
<1>2. PICK v \in VideoTees :
        /\ st[v] = "unborn"
        /\ st' = [st EXCEPT ![v] = "started"]
        /\ target' = [target EXCEPT ![v] = req[w].path]
  BY DEF Spawn
<1>3. /\ pc[w] = "spawn" /\ req[w].op = "release"
      /\ pc' = [pc EXCEPT ![w] = "close"]
  BY DEF Spawn, Serving
<1>4. /\ req[w].path \in BmpPaths /\ req[w].path \in Listed
      /\ \A u \in VideoTees : target[u] # req[w].path
  BY <1>3 DEF WorkerInv, WorkerOK, ListInv
<1>5. v \in Procs /\ v \notin Apps
  BY DEF Procs
<1>6. TypeOK'
  <2>1. /\ st' \in [Procs -> AppStates \cup VideoTeeStates]
        /\ \A a \in Apps : st'[a] \in AppStates
        /\ \A u \in VideoTees : st'[u] \in VideoTeeStates
    BY <1>2, <1>5 DEF TypeOK, VideoTeeStates, Procs
  <2>2. target' \in [VideoTees -> BmpPaths \cup {NoPath}]
    BY <1>2, <1>4 DEF TypeOK
  <2>3. pc' \in [Workers -> WorkerSteps]
    BY <1>3 DEF TypeOK, WorkerSteps
  <2> QED BY <1>1, <2>1, <2>2, <2>3 DEF TypeOK
<1>7. HandleInv'
  BY <1>1, <1>2, <1>5 DEF HandleInv, TypeOK, Holding
<1>8. CallInv'
  BY <1>1, <1>2 DEF CallInv, AwaitsAnswer, TypeOK
<1>9. WorkerInv'
  BY <1>1, <1>2, <1>3 DEF WorkerInv, WorkerOK, AwaitsAnswer, TypeOK
<1>10. ListInv'
  BY <1>1, <1>2, <1>3, <1>4, OneWorker DEF ListInv, Listed, TypeOK
<1>11. AtMostOneJobPerPath'
  BY <1>2, <1>4 DEF AtMostOneJobPerPath, TypeOK
<1> QED BY <1>6, <1>7, <1>8, <1>9, <1>10, <1>11

LEMMA JobStepIInv ==
  ASSUME IInv, NEW v \in VideoTees, NEW from \in {"started", "exited"},
         NEW To \in SUBSET {"logged", "lost", "failed"}, JobStep(v, from, To)
  PROVE  IInv'
<1> USE DEF IInv
<1>1. UNCHANGED <<dir, lastPath, fh, target, fds, dropped, queue, pc, req, processed, leaked>>
  BY DEF JobStep, dirVars, poolVars
<1>2. PICK s \in To : st' = [st EXCEPT ![v] = s]
  BY DEF JobStep
<1>3. v \in Procs /\ v \notin Apps /\ st[v] \in {"started", "exited"}
  BY DEF Procs, JobStep
<1>4. TypeOK'
  <2>1. /\ st' \in [Procs -> AppStates \cup VideoTeeStates]
        /\ \A a \in Apps : st'[a] \in AppStates
        /\ \A u \in VideoTees : st'[u] \in VideoTeeStates
    BY <1>2, <1>3 DEF TypeOK, VideoTeeStates, Procs
  <2> QED BY <1>1, <2>1 DEF TypeOK
<1>5. HandleInv'
  BY <1>1, <1>2, <1>3 DEF HandleInv, TypeOK, Holding
<1>6. CallInv' /\ WorkerInv'
  BY <1>1, <1>2, <1>3 DEF CallInv, WorkerInv, WorkerOK, AwaitsAnswer, TypeOK
<1>7. ListInv' /\ AtMostOneJobPerPath'
  BY <1>1, <1>2 DEF ListInv, Listed, AtMostOneJobPerPath, TypeOK
<1> QED BY <1>4, <1>5, <1>6, <1>7

-----------------------------------------------------------------------------
LEMMA StepIInv == IInv /\ [Next]_vars => IInv'
<1> SUFFICES ASSUME IInv, [Next]_vars PROVE IInv'
  OBVIOUS
<1>1. ASSUME NEW c \in Procs, RequestIO(c) \/ Close(c) \/ Return(c) PROVE IInv'
  <2>1. CASE RequestIO(c)
    BY <2>1, CallIInv DEF RequestIO, dirVars
  <2>2. CASE Close(c)
    BY <2>2, CallIInv DEF Close, dirVars
  <2>3. CASE Return(c)
    BY <2>3, ReturnIInv
  <2> QED BY <1>1, <2>1, <2>2, <2>3
<1>2. ASSUME NEW a \in Apps, AppNext(a) PROVE IInv'
  BY <1>1, <1>2, CreateIInv, OpenFileIInv DEF AppNext, Open, Procs
<1>3. ASSUME NEW v \in VideoTees, JobNext(v) PROVE IInv'
  <2>1. CASE JobOpen(v)
    <3>1. target[v] \in Paths
      BY <2>1 DEF JobOpen, IInv, ListInv, TypeOK
    <3> QED BY <2>1, <3>1, OpenFileIInv DEF JobOpen, Procs
  <2>2. CASE JobNotStarted(v) \/ JobOutcome(v)
    BY <2>2, JobStepIInv DEF JobNotStarted, JobOutcome
  <2> QED BY <1>1, <1>3, <2>1, <2>2 DEF JobNext, Procs
<1>4. ASSUME NEW w \in Workers, Take(w) \/ Serve(w) PROVE IInv'
  BY <1>4, TakeIInv, AnswerIInv, PanicIInv, CheckIInv, AddIInv, SpawnIInv, CloseFdIInv
     DEF Serve, PathPanic, SpawnPanic, Serving
<1>5. CASE UNCHANGED vars
  BY <1>5 DEF vars, IInv, TypeOK, HandleInv, CallInv, WorkerInv, WorkerOK, AwaitsAnswer,
              ListInv, Listed, AtMostOneJobPerPath
<1> QED BY <1>2, <1>3, <1>4, <1>5, DirIInv, DispatchIInv DEF Next

THEOREM Invariance == Spec => []IInv
  BY InitIInv, StepIInv, PTL DEF Spec

(* Every behaviour of the file system is type-correct: in particular only   *)
(* names that end in ".bmp" ever get into the list of processed files.      *)
THEOREM TypeCorrect == Spec => []TypeOK
<1>1. IInv => TypeOK
  BY DEF IInv
<1> QED BY <1>1, Invariance, PTL

(* However many processes close a file, however often and in whatever       *)
(* order, its path is handed to video_tee at most once on a mount.          *)
THEOREM OneJobPerPath == Spec => []AtMostOneJobPerPath
<1>1. IInv => AtMostOneJobPerPath
  BY DEF IInv
<1> QED BY <1>1, Invariance, PTL
-----------------------------------------------------------------------------
(* The ownership of descriptors.  FdInv says of processes, handles,        *)
(* requests and pool threads what FdOwnership says of Owners: a descriptor *)
(* is open exactly when someone has it, no kind of owner has it twice, and *)
(* no two kinds have it at once.                                           *)

Has(c)      == fh[c] # NoHandle
Releases(i) == queue[i].op = "release"
Closing(w)  == pc[w] # "idle" /\ req[w].op = "release"

Owned(fd) ==
  \/ \E c \in Procs : Has(c) /\ fh[c].fd = fd
  \/ \E h \in dropped : h.fd = fd
  \/ \E i \in 1 .. Len(queue) : Releases(i) /\ queue[i].fd = fd
  \/ \E w \in Workers : Closing(w) /\ req[w].fd = fd
  \/ fd \in leaked

FdOpen == \A fd \in Fds : fd \in fds <=> Owned(fd)

FdOnce ==
  /\ \A c, d \in Procs : Has(c) /\ Has(d) /\ fh[c].fd = fh[d].fd => c = d
  /\ \A h, k \in dropped : h.fd = k.fd => h = k
  /\ \A i, j \in 1 .. Len(queue) : Releases(i) /\ Releases(j) /\ queue[i].fd = queue[j].fd => i = j

FdApart ==
  /\ \A c \in Procs : Has(c) =>
       /\ \A h \in dropped : h.fd # fh[c].fd
       /\ \A i \in 1 .. Len(queue) : Releases(i) => queue[i].fd # fh[c].fd
       /\ \A w \in Workers : Closing(w) => req[w].fd # fh[c].fd
       /\ fh[c].fd \notin leaked
  /\ \A h \in dropped :
       /\ \A i \in 1 .. Len(queue) : Releases(i) => queue[i].fd # h.fd
       /\ \A w \in Workers : Closing(w) => req[w].fd # h.fd
       /\ h.fd \notin leaked
  /\ \A i \in 1 .. Len(queue) : Releases(i) =>
       /\ \A w \in Workers : Closing(w) => req[w].fd # queue[i].fd
       /\ queue[i].fd \notin leaked
  /\ \A w \in Workers : Closing(w) => req[w].fd \notin leaked

FdInv == FdOpen /\ FdOnce /\ FdApart

(* The descriptors of all owners are descriptors of the program. *)
LEMMA OwnedFds ==
  ASSUME IInv
  PROVE  /\ \A c \in Procs : Has(c) => fh[c] \in Handles /\ fh[c].fd \in Fds
         /\ \A h \in dropped : h \in Handles /\ h.fd \in Fds
         /\ \A i \in 1 .. Len(queue) : queue[i] \in Requests /\ queue[i].fd \in Fds
         /\ \A w \in Workers : pc[w] # "idle" => req[w] \in Requests /\ req[w].fd \in Fds
<1>1. \A h \in Handles : h.fd \in Fds
  BY DEF Handles
<1>2. \A r \in Requests : r.fd \in Fds
  BY DEF Requests
<1>3. \A i \in 1 .. Len(queue) : queue[i] \in Requests
  BY ElementOfSeq DEF IInv, TypeOK
<1>4. \A w \in Workers : pc[w] # "idle" => req[w] \in Requests
  BY DEF IInv, TypeOK, WorkerInv, WorkerOK
<1> QED BY <1>1, <1>2, <1>3, <1>4 DEF IInv, TypeOK, Has

LEMMA InitFdInv == Init => FdInv
<1> SUFFICES ASSUME Init PROVE FdInv
  OBVIOUS
<1>1. Len(queue) = 0
  BY DEF Init
<1> QED BY <1>1 DEF Init, FdInv, FdOpen, FdOnce, FdApart, Owned, Has, Closing, Releases, Procs

(* A descriptor that no one has is opened: by create, which may leak it,   *)
(* or by open.                                                             *)
LEMMA CreateFdInv ==
  ASSUME IInv, FdInv, NEW a \in Apps, NEW p \in Paths, Create(a, p)
  PROVE  FdInv'
<1>1. PICK fd \in Fds \ fds, n \in FreeNodes :
        /\ fds' = fds \cup {fd}
        /\ \/ /\ fh' = [fh EXCEPT ![a] = [fd |-> fd, node |-> n, writing |-> TRUE]]
              /\ UNCHANGED leaked
           \/ leaked' = leaked \cup {fd} /\ UNCHANGED fh
  BY DEF Create
<1>2. UNCHANGED <<dropped, queue, pc, req>> /\ a \in Procs /\ fh[a] = NoHandle
  BY DEF Create, poolVars, Procs, IInv, HandleInv, Holding
<1>3. ~ Owned(fd)
  BY <1>1 DEF FdInv, FdOpen
<1>4. [fd |-> fd, node |-> n, writing |-> TRUE] # NoHandle
  <2>1. n \in Nodes
    BY DEF FreeNodes
  <2>2. [fd |-> fd, node |-> n, writing |-> TRUE] \in Handles
    BY <2>1 DEF Handles
  <2> QED BY <2>2
<1>5. fh \in [Procs -> Handles \cup {NoHandle}]
  BY DEF IInv, TypeOK
<1> USE DEF Has, Releases, Closing
<1>6. FdOpen'
  BY <1>1, <1>2, <1>3, <1>4, <1>5 DEF FdInv, FdOpen, Owned
<1>7. FdOnce'
  BY <1>1, <1>2, <1>3, <1>4, <1>5 DEF FdInv, FdOnce, Owned
<1>8. FdApart'
  BY <1>1, <1>2, <1>3, <1>4, <1>5 DEF FdInv, FdApart, Owned
<1> QED BY <1>6, <1>7, <1>8 DEF FdInv

LEMMA OpenFileFdInv ==
  ASSUME IInv, FdInv, NEW c \in Procs, NEW p \in Paths, NEW writing \in BOOLEAN,
         st[c] \in {"idle", "started"}, OpenFile(c, p, writing)
  PROVE  FdInv'
<1>1. PICK fd \in Fds \ fds :
        /\ fds' = fds \cup {fd}
        /\ fh' = [fh EXCEPT ![c] = [fd |-> fd, node |-> dir[p], writing |-> writing]]
  BY DEF OpenFile
<1>2. UNCHANGED <<dropped, queue, pc, req, leaked>> /\ fh[c] = NoHandle
  BY DEF OpenFile, poolVars, IInv, HandleInv, Holding
<1>3. ~ Owned(fd)
  BY <1>1 DEF FdInv, FdOpen
<1>4. [fd |-> fd, node |-> dir[p], writing |-> writing] # NoHandle
  BY <1>1 DEF OpenFile, IInv, TypeOK, Handles
<1>5. fh \in [Procs -> Handles \cup {NoHandle}]
  BY DEF IInv, TypeOK
<1> USE DEF Has, Releases, Closing
<1>6. FdOpen'
  BY <1>1, <1>2, <1>3, <1>4, <1>5 DEF FdInv, FdOpen, Owned
<1>7. FdOnce'
  BY <1>1, <1>2, <1>3, <1>4, <1>5 DEF FdInv, FdOnce, Owned
<1>8. FdApart'
  BY <1>1, <1>2, <1>3, <1>4, <1>5 DEF FdInv, FdApart, Owned
<1> QED BY <1>6, <1>7, <1>8 DEF FdInv

(* A descriptor passes from a process to the kernel. *)
LEMMA ReturnFdInv ==
  ASSUME IInv, FdInv, NEW c \in Procs, Return(c)
  PROVE  FdInv'
<1>1. Has(c) /\ fh \in [Procs -> Handles \cup {NoHandle}]
  BY DEF Return, IInv, TypeOK, HandleInv, Holding, Has
<1>2. /\ dropped' = dropped \cup {fh[c]}
      /\ fh' = [fh EXCEPT ![c] = NoHandle]
      /\ UNCHANGED <<fds, queue, pc, req, leaked>>
  BY DEF Return, poolVars
<1> USE DEF Has, Releases, Closing
<1>3. FdOpen'
  BY <1>1, <1>2 DEF FdInv, FdOpen, Owned
<1>4. FdOnce'
  BY <1>1, <1>2 DEF FdInv, FdOnce, FdApart
<1>5. FdApart'
  BY <1>1, <1>2 DEF FdInv, FdOnce, FdApart
<1> QED BY <1>3, <1>4, <1>5 DEF FdInv

(* A request that is not a release brings no owner. *)
LEMMA CallFdInv ==
  ASSUME IInv, FdInv, NEW c \in Procs, RequestIO(c) \/ Close(c)
  PROVE  FdInv'
<1>1. fh[c] \in Handles
  BY DEF RequestIO, Close, IInv, TypeOK, HandleInv, Holding
<1>2. PICK op \in {"io", "flush"} : Enqueue(op, c, fh[c])
  BY DEF RequestIO, Close
<1>3. /\ Len(queue) \in Nat
      /\ Len(queue') = Len(queue) + 1
      /\ \A i \in 1 .. Len(queue) : queue'[i] = queue[i]
      /\ queue'[Len(queue) + 1].op # "release"
  BY <1>1, <1>2, EnqueueProperties DEF IInv
<1>4. UNCHANGED <<fh, fds, dropped, pc, req, leaked>>
  BY DEF RequestIO, Close
<1>5. \A i \in 1 .. Len(queue') : Releases(i)' =>
        i \in 1 .. Len(queue) /\ Releases(i) /\ queue'[i] = queue[i]
  BY <1>3 DEF Releases
<1>6. \A i \in 1 .. Len(queue) : i \in 1 .. Len(queue') /\ (Releases(i)' <=> Releases(i))
  BY <1>3 DEF Releases
<1> USE DEF Has, Closing
<1>7. FdOpen'
  BY <1>3, <1>4, <1>5, <1>6 DEF FdInv, FdOpen, Owned
<1>8. FdOnce'
  BY <1>3, <1>4, <1>5 DEF FdInv, FdOnce
<1>9. FdApart'
  BY <1>3, <1>4, <1>5 DEF FdInv, FdApart
<1> QED BY <1>7, <1>8, <1>9 DEF FdInv

(* A descriptor passes from the kernel to a release in the queue. *)
LEMMA DispatchFdInv ==
  ASSUME IInv, FdInv, NEW h \in dropped, Dispatch(h)
  PROVE  FdInv'
<1>1. h \in Handles
  BY DEF IInv, TypeOK
<1> DEFINE n == Len(queue) + 1
<1>2. /\ Len(queue) \in Nat
      /\ Len(queue') = n
      /\ \A i \in 1 .. Len(queue) : queue'[i] = queue[i]
      /\ queue'[n].op = "release" /\ queue'[n].fd = h.fd
  BY <1>1, EnqueueProperties DEF Dispatch, IInv
<1>3. /\ \A i \in 1 .. n : i \in 1 .. Len(queue) \/ i = n
      /\ n \in 1 .. n /\ \A i \in 1 .. Len(queue) : i \in 1 .. n
  BY <1>2
<1>4. dropped' = dropped \ {h} /\ UNCHANGED <<fh, fds, pc, req, leaked>>
  BY DEF Dispatch, procVars
<1> HIDE DEF n
<1> USE DEF Has, Releases, Closing
<1>5. FdOpen'
  BY <1>2, <1>3, <1>4 DEF FdInv, FdOpen, Owned
<1>6. FdOnce'
  BY <1>2, <1>3, <1>4 DEF FdInv, FdOnce, FdApart
<1>7. FdApart'
  BY <1>2, <1>3, <1>4 DEF FdInv, FdOnce, FdApart
<1> QED BY <1>5, <1>6, <1>7 DEF FdInv

(* A descriptor passes from the queue to the pool thread. *)
LEMMA TakeFdInv ==
  ASSUME IInv, FdInv, NEW w \in Workers, Take(w)
  PROVE  FdInv'
<1>1. /\ pc[w] = "idle" /\ pc'[w] = "serve" /\ req'[w] = queue[1]
      /\ Len(queue) \in Nat \ {0}
      /\ Len(queue') = Len(queue) - 1
      /\ \A i \in 1 .. Len(queue') : queue'[i] = queue[i + 1]
      /\ UNCHANGED <<fh, fds, dropped, leaked>>
  BY HeadTailProperties, LenProperties, EmptySeq DEF Take, procVars, IInv, TypeOK
<1>2. /\ \A i \in 1 .. Len(queue') : i + 1 \in 1 .. Len(queue) /\ i + 1 # 1
      /\ \A i \in 1 .. Len(queue) : i # 1 => i - 1 \in 1 .. Len(queue') /\ queue'[i - 1] = queue[i]
      /\ 1 \in 1 .. Len(queue)
      /\ \A i, j \in 1 .. Len(queue') : i + 1 = j + 1 => i = j
  BY <1>1
<1>3. \A u \in Workers : u = w
  BY OneWorker
<1> USE DEF Has, Releases, Closing
<1>4. FdOpen'
  BY <1>1, <1>2, <1>3 DEF FdInv, FdOpen, Owned
<1>5. FdOnce'
  BY <1>1, <1>2 DEF FdInv, FdOnce
<1>6. FdApart'
  BY <1>1, <1>2, <1>3 DEF FdInv, FdOnce, FdApart
<1> QED BY <1>4, <1>5, <1>6 DEF FdInv

(* The pool thread gives its descriptor up: it closes it, or leaks it.     *)
LEMMA ServeFdInv ==
  ASSUME IInv, FdInv, NEW w \in Workers, Serve(w)
  PROVE  FdInv'
<1> USE DEF Has, Releases, Closing
<1>0. /\ \A u \in Workers : u = w
      /\ pc \in [Workers -> WorkerSteps] /\ req \in [Workers -> Requests \cup {NoRequest}]
      /\ pc[w] # "idle" /\ UNCHANGED <<fh, dropped, queue>>
  BY OneWorker DEF IInv, TypeOK, Serve, Answer, PathPanic, Check, Add, Spawn, SpawnPanic, CloseFd,
                   Serving, Panic, procVars
<1>1. CASE Answer(w)
  <2>1. ~ Closing(w) /\ ~ Closing(w)' /\ UNCHANGED <<fds, leaked>>
    BY <1>0, <1>1 DEF Answer, Finish
  <2> QED BY <1>0, <2>1 DEF FdInv, FdOpen, FdOnce, FdApart, Owned
<1>2. CASE Check(w) \/ Add(w) \/ Spawn(w)
  <2>1. Closing(w) /\ Closing(w)' /\ UNCHANGED <<fds, leaked, req>>
    BY <1>0, <1>2 DEF Check, Add, Spawn, Serving
  <2> QED BY <1>0, <2>1 DEF FdInv, FdOpen, FdOnce, FdApart, Owned
<1>3. CASE PathPanic(w) \/ SpawnPanic(w)
  <2>1. /\ Closing(w) /\ ~ Closing(w)'
        /\ leaked' = leaked \cup {req[w].fd} /\ UNCHANGED fds
    BY <1>0, <1>3 DEF PathPanic, SpawnPanic, Serving, Panic, Finish
  <2>2. FdOpen'
    BY <1>0, <2>1 DEF FdInv, FdOpen, Owned
  <2>3. FdOnce' /\ FdApart'
    BY <1>0, <2>1 DEF FdInv, FdOnce, FdApart
  <2> QED BY <2>2, <2>3 DEF FdInv
<1>4. CASE CloseFd(w)
  <2>1. Closing(w) /\ ~ Closing(w)' /\ fds' = fds \ {req[w].fd} /\ UNCHANGED leaked
    BY <1>0, <1>4 DEF CloseFd, Serving, Finish
  <2>2. FdOpen'
    BY <1>0, <2>1 DEF FdInv, FdOpen, FdApart, Owned
  <2>3. FdOnce' /\ FdApart'
    BY <1>0, <2>1 DEF FdInv, FdOnce, FdApart
  <2> QED BY <2>2, <2>3 DEF FdInv
<1> QED BY <1>1, <1>2, <1>3, <1>4 DEF Serve

LEMMA StepFdInv == IInv /\ FdInv /\ [Next]_vars => FdInv'
<1> SUFFICES ASSUME IInv, FdInv, [Next]_vars PROVE FdInv'
  OBVIOUS
<1>1. ASSUME UNCHANGED <<fh, fds, dropped, queue, pc, req, leaked>> PROVE FdInv'
  BY <1>1 DEF FdInv, FdOpen, FdOnce, FdApart, Owned, Has, Releases, Closing
<1>2. ASSUME NEW a \in Apps, AppNext(a) PROVE FdInv'
  BY <1>2, CreateFdInv, OpenFileFdInv, CallFdInv, ReturnFdInv DEF AppNext, Open, Procs
<1>3. ASSUME NEW v \in VideoTees, JobNext(v) PROVE FdInv'
  <2>1. CASE JobOpen(v)
    <3>1. target[v] \in Paths
      BY <2>1 DEF JobOpen, IInv, ListInv, TypeOK
    <3> QED BY <2>1, <3>1, OpenFileFdInv DEF JobOpen, Procs
  <2>2. CASE JobNotStarted(v) \/ JobOutcome(v)
    BY <1>1, <2>2 DEF JobNotStarted, JobOutcome, JobStep, poolVars
  <2> QED BY <1>3, <2>1, <2>2, CallFdInv, ReturnFdInv DEF JobNext, Procs
<1>4. CASE DirNext
  BY <1>1, <1>4 DEF DirNext, Unlink, Rename, procVars, poolVars
<1>5. CASE UNCHANGED vars
  BY <1>1, <1>5 DEF vars
<1> QED BY <1>2, <1>3, <1>4, <1>5, DispatchFdInv, TakeFdInv, ServeFdInv DEF Next

LEMMA FdInvOwnership == IInv /\ FdInv => FdOwnership
<1> SUFFICES ASSUME IInv, FdInv PROVE FdOwnership
  OBVIOUS
<1>0. DOMAIN queue = 1 .. Len(queue)
  BY LenProperties DEF IInv, TypeOK
<1>1. ASSUME NEW fd \in Fds PROVE fd \in fds <=> Owners(fd) # {}
  <2>1. ASSUME NEW x \in Owners(fd) PROVE Owned(fd)
    BY <1>0 DEF Owners, Owned, Has, Releases, Closing
  <2>2. ASSUME Owned(fd) PROVE Owners(fd) # {}
    <3>1. CASE \E c \in Procs : Has(c) /\ fh[c].fd = fd
      <4>1. PICK c \in Procs : Has(c) /\ fh[c].fd = fd
        BY <3>1
      <4>2. <<"process", c>> \in Owners(fd)
        BY <4>1 DEF Owners, Has
      <4> QED BY <4>2
    <3>2. CASE \E h \in dropped : h.fd = fd
      <4>1. PICK h \in dropped : h.fd = fd
        BY <3>2
      <4>2. <<"kernel", h>> \in Owners(fd)
        BY <4>1 DEF Owners
      <4> QED BY <4>2
    <3>3. CASE \E i \in 1 .. Len(queue) : Releases(i) /\ queue[i].fd = fd
      <4>1. PICK i \in 1 .. Len(queue) : Releases(i) /\ queue[i].fd = fd
        BY <3>3
      <4>2. <<"queue", i>> \in Owners(fd)
        BY <1>0, <4>1 DEF Owners, Releases
      <4> QED BY <4>2
    <3>4. CASE \E w \in Workers : Closing(w) /\ req[w].fd = fd
      <4>1. PICK w \in Workers : Closing(w) /\ req[w].fd = fd
        BY <3>4
      <4>2. <<"worker", w>> \in Owners(fd)
        BY <4>1 DEF Owners, Closing
      <4> QED BY <4>2
    <3>5. CASE fd \in leaked
      <4>1. <<"leaked", fd>> \in Owners(fd)
        BY <3>5 DEF Owners
      <4> QED BY <4>1
    <3> QED BY <2>2, <3>1, <3>2, <3>3, <3>4, <3>5 DEF Owned
  <2> QED BY <2>1, <2>2 DEF FdInv, FdOpen
<1>2. ASSUME NEW fd \in Fds, NEW x \in Owners(fd), NEW y \in Owners(fd) PROVE x = y
  <2> DEFINE Proc(z)   == \E c \in Procs : z = <<"process", c>> /\ Has(c) /\ fh[c].fd = fd
             Kernel(z) == \E h \in dropped : z = <<"kernel", h>> /\ h.fd = fd
             Queue(z)  == \E i \in 1 .. Len(queue) :
                             z = <<"queue", i>> /\ Releases(i) /\ queue[i].fd = fd
             Worker(z) == \E w \in Workers : z = <<"worker", w>> /\ Closing(w) /\ req[w].fd = fd
             Leaked(z) == z = <<"leaked", fd>> /\ fd \in leaked
  <2>1. \A z \in Owners(fd) : Proc(z) \/ Kernel(z) \/ Queue(z) \/ Worker(z) \/ Leaked(z)
    BY <1>0 DEF Owners, Has, Releases, Closing
  <2>2. CASE Proc(x)
    BY <2>1, <2>2 DEF FdInv, FdOnce, FdApart
  <2>3. CASE Kernel(x)
    BY <2>1, <2>3 DEF FdInv, FdOnce, FdApart
  <2>4. CASE Queue(x)
    BY <2>1, <2>4 DEF FdInv, FdOnce, FdApart
  <2>5. CASE Worker(x)
    BY <2>1, <2>5, OneWorker DEF FdInv, FdApart
  <2>6. CASE Leaked(x)
    BY <2>1, <2>6 DEF FdInv, FdApart
  <2> QED BY <2>1, <2>2, <2>3, <2>4, <2>5, <2>6
<1>3. ASSUME NEW i \in DOMAIN queue, queue[i].op # "release"
      PROVE  fh[queue[i].who] # NoHandle /\ fh[queue[i].who].fd = queue[i].fd
  <2>1. AwaitsAnswer(queue[i])
    BY <1>0, <1>3 DEF IInv, CallInv
  <2> QED BY <2>1 DEF AwaitsAnswer, IInv, HandleInv, Holding
<1> QED BY <1>1, <1>2, <1>3 DEF FdOwnership

(* A descriptor is open exactly while one owner has it, from open to the   *)
(* close in the release hook, whatever panics and whatever fails between.  *)
THEOREM Ownership == Spec => []FdOwnership
<1>1. Spec => []FdInv
  BY Invariance, InitFdInv, StepFdInv, PTL DEF Spec
<1> QED BY <1>1, Invariance, FdInvOwnership, PTL
-----------------------------------------------------------------------------
(* The refinement of ProcessOnce.  The phase of a file depends on the      *)
(* list, on the program that was started on it, and on the pool thread     *)
(* that is about to start one.                                             *)

HasJob(p, S) == \E v \in VideoTees : target[v] = p /\ st[v] \in S
Claiming(p)  == \E w \in Workers : Serving(w, "spawn") /\ req[w].path = p
Ended        == {"logged", "lost"}
Failed       == {"failed"}

LEMMA PhaseCases ==
  ASSUME NEW p
  PROVE  PhaseOf(p) = IF p \notin Listed THEN "fresh"
                      ELSE IF HasJob(p, Running) THEN "running"
                      ELSE IF HasJob(p, Ended) THEN "done"
                      ELSE IF ~ HasJob(p, Failed) /\ Claiming(p) THEN "claimed"
                      ELSE "abandoned"
BY DEF PhaseOf, HasJob, Claiming, Ended, Failed

LEMMA SamePhase ==
  ASSUME NEW p,
         p \in Listed' <=> p \in Listed,
         HasJob(p, Running)' <=> HasJob(p, Running),
         HasJob(p, Ended)' <=> HasJob(p, Ended),
         HasJob(p, Failed)' <=> HasJob(p, Failed),
         Claiming(p)' <=> Claiming(p)
  PROVE  PhaseOf(p)' = PhaseOf(p)
BY DEF PhaseOf, HasJob, Claiming, Ended, Failed

(* A step that moves no program but a running one, which keeps running,    *)
(* is internal.                                                            *)
LEMMA InternalStep ==
  ASSUME UNCHANGED <<processed, target>>,
         \A v \in VideoTees : st'[v] = st[v] \/ (st[v] \in Running /\ st'[v] \in Running),
         \A w \in Workers : /\ Serving(w, "spawn")' <=> Serving(w, "spawn")
                            /\ Serving(w, "spawn") => req'[w] = req[w]
  PROVE  \A p : PhaseOf(p)' = PhaseOf(p)
<1> TAKE p
<1>1. p \in Listed' <=> p \in Listed
  BY DEF Listed
<1>2. /\ HasJob(p, Running)' <=> HasJob(p, Running)
      /\ HasJob(p, Ended)' <=> HasJob(p, Ended)
      /\ HasJob(p, Failed)' <=> HasJob(p, Failed)
  BY DEF HasJob, Running, Ended, Failed
<1>3. Claiming(p)' <=> Claiming(p)
  BY DEF Claiming
<1> QED BY <1>1, <1>2, <1>3, SamePhase

(* One file moves from one phase to another. *)
LEMMA MoveStep ==
  ASSUME NEW p \in BmpPaths, NEW From, NEW to, PhaseOf(p) \in From, PhaseOf(p)' = to,
         \A q \in BmpPaths : q # p => PhaseOf(q)' = PhaseOf(q)
  PROVE  PO!Move(p, From, to)
BY DEF PO!Move

LEMMA AddClaims ==
  ASSUME IInv, NEW w \in Workers, Add(w)
  PROVE  PO!Claim(req[w].path)
<1>0. PICK p \in BmpPaths : p = req[w].path
  BY DEF Add, Serving, IInv, WorkerInv, WorkerOK
<1>1. /\ pc[w] = "add" /\ req[w].op = "release"
      /\ pc' = [pc EXCEPT ![w] = "spawn"] /\ pc \in [Workers -> WorkerSteps]
      /\ UNCHANGED <<st, target, req>>
  BY DEF Add, Serving, procVars, IInv, TypeOK
<1>2. p \notin Listed
  BY <1>0, <1>1 DEF IInv, ListInv
<1>3. Listed' = Listed \cup {p}
  BY <1>0, RangeAppend DEF Add, IInv, TypeOK, Listed
<1>4. \A v \in VideoTees : target[v] # p
  BY <1>2 DEF IInv, ListInv
<1>5. PhaseOf(p) = "fresh"
  BY <1>2 DEF PhaseOf
<1>6. PhaseOf(p)' = "claimed"
  <2>1. p \in Listed' /\ Serving(w, "spawn")' /\ req'[w].path = p
    BY <1>0, <1>1, <1>3 DEF Serving
  <2>2. \A v \in VideoTees : target'[v] # p
    BY <1>1, <1>4
  <2> QED BY <2>1, <2>2 DEF PhaseOf
<1>7. ASSUME NEW q \in BmpPaths, q # p PROVE PhaseOf(q)' = PhaseOf(q)
  <2>1. q \in Listed' <=> q \in Listed
    BY <1>3, <1>7
  <2>2. /\ HasJob(q, Running)' <=> HasJob(q, Running)
        /\ HasJob(q, Ended)' <=> HasJob(q, Ended)
        /\ HasJob(q, Failed)' <=> HasJob(q, Failed)
    BY <1>1 DEF HasJob, Running, Ended, Failed
  <2>3. Claiming(q)' <=> Claiming(q)
    BY <1>0, <1>1, <1>7, OneWorker DEF Claiming, Serving
  <2> QED BY <2>1, <2>2, <2>3, SamePhase
<1> QED BY <1>0, <1>5, <1>6, <1>7, MoveStep DEF PO!Claim

(* Between Add and Spawn the path is listed and has no program. *)
LEMMA ClaimedPhase ==
  ASSUME IInv, NEW w \in Workers, Serving(w, "spawn")
  PROVE  /\ req[w].path \in BmpPaths /\ req[w].path \in Listed
         /\ \A v \in VideoTees : target[v] # req[w].path
         /\ PhaseOf(req[w].path) = "claimed"
<1>1. /\ req[w].path \in BmpPaths /\ req[w].path \in Listed
      /\ \A v \in VideoTees : target[v] # req[w].path
  BY DEF Serving, IInv, WorkerInv, WorkerOK, ListInv
<1> QED BY <1>1 DEF PhaseOf

LEMMA SpawnLaunches ==
  ASSUME IInv, NEW w \in Workers, Spawn(w)
  PROVE  PO!Launch(req[w].path)
<1>0. PICK p \in BmpPaths : p = req[w].path
  BY ClaimedPhase DEF Spawn, SpawnPanic
<1>1. /\ Serving(w, "spawn") /\ pc'[w] = "close"
      /\ UNCHANGED <<req, processed>>
  BY DEF Spawn, IInv, TypeOK
<1>2. PICK v \in VideoTees :
        /\ st[v] = "unborn"
        /\ st' = [st EXCEPT ![v] = "started"]
        /\ target' = [target EXCEPT ![v] = p]
  BY <1>0 DEF Spawn
<1>3. /\ v \in Procs /\ st'[v] = "started" /\ target'[v] = p
      /\ \A u \in VideoTees : u # v => st'[u] = st[u] /\ target'[u] = target[u]
  BY <1>2 DEF IInv, TypeOK, Procs
<1>4. p \in Listed /\ PhaseOf(p) = "claimed" /\ Listed' = Listed
  BY <1>0, <1>1, ClaimedPhase DEF Listed
<1>5. PhaseOf(p)' = "running"
  <2>1. p \in Listed' /\ target'[v] = p /\ st'[v] \in Running
    BY <1>3, <1>4 DEF Running
  <2> QED BY <2>1 DEF PhaseOf
<1>6. ASSUME NEW q \in BmpPaths, q # p PROVE PhaseOf(q)' = PhaseOf(q)
  <2>1. /\ HasJob(q, Running)' <=> HasJob(q, Running)
        /\ HasJob(q, Ended)' <=> HasJob(q, Ended)
        /\ HasJob(q, Failed)' <=> HasJob(q, Failed)
    BY <1>2, <1>3, <1>6 DEF HasJob, Running, Ended, Failed
  <2>2. ~ Claiming(q) /\ ~ Claiming(q)'
    BY <1>0, <1>1, <1>6, OneWorker DEF Claiming, Serving
  <2> QED BY <1>4, <2>1, <2>2, SamePhase
<1> QED BY <1>0, <1>4, <1>5, <1>6, MoveStep DEF PO!Launch

LEMMA SpawnPanicAbandons ==
  ASSUME IInv, NEW w \in Workers, SpawnPanic(w)
  PROVE  PO!Abandon(req[w].path)
<1>0. PICK p \in BmpPaths : p = req[w].path
  BY ClaimedPhase DEF Spawn, SpawnPanic
<1>1. /\ Serving(w, "spawn") /\ pc'[w] = "idle"
      /\ UNCHANGED <<st, target, processed>>
  BY DEF SpawnPanic, Panic, Finish, procVars, IInv, TypeOK
<1>2. /\ p \in Listed /\ PhaseOf(p) = "claimed" /\ Listed' = Listed
      /\ \A v \in VideoTees : target'[v] # p
  BY <1>0, <1>1, ClaimedPhase DEF Listed
<1>3. \A q : ~ Claiming(q)'
  BY <1>1, OneWorker DEF Claiming, Serving
<1>4. PhaseOf(p)' = "abandoned"
  <2>1. p \in Listed'
    BY <1>2
  <2> QED BY <1>2, <1>3, <2>1 DEF PhaseOf, Claiming
<1>5. ASSUME NEW q \in BmpPaths, q # p PROVE PhaseOf(q)' = PhaseOf(q)
  <2>1. /\ HasJob(q, Running)' <=> HasJob(q, Running)
        /\ HasJob(q, Ended)' <=> HasJob(q, Ended)
        /\ HasJob(q, Failed)' <=> HasJob(q, Failed)
    BY <1>1 DEF HasJob, Running, Ended, Failed
  <2>2. ~ Claiming(q)
    BY <1>0, <1>1, <1>5, OneWorker DEF Claiming, Serving
  <2> QED BY <1>2, <1>3, <2>1, <2>2, SamePhase
<1> QED BY <1>0, <1>2, <1>4, <1>5, MoveStep DEF PO!Abandon

(* The end of the one program on a path is the end of its processing. *)
LEMMA JobStepImplements ==
  ASSUME IInv, NEW v \in VideoTees, NEW from \in {"started", "exited"},
         NEW To \in SUBSET {"logged", "lost", "failed"}, JobStep(v, from, To)
  PROVE  PO!Next \/ \A p \in BmpPaths : PhaseOf(p)' = PhaseOf(p)
<1>0. PICK p \in BmpPaths \cup {NoPath} : p = target[v]
  BY DEF IInv, TypeOK
<1>1. /\ UNCHANGED <<target, processed, pc, req>> /\ st[v] \in {"started", "exited"}
      /\ v \in Procs
  BY DEF JobStep, poolVars, Procs
<1>2. PICK s \in To : st' = [st EXCEPT ![v] = s]
  BY DEF JobStep
<1>3. st'[v] = s /\ \A u \in VideoTees : u # v => st'[u] = st[u]
  BY <1>1, <1>2 DEF IInv, TypeOK, Procs
<1>4. Listed' = Listed /\ \A q : Claiming(q)' <=> Claiming(q)
  BY <1>1 DEF Listed, Claiming, Serving
<1>5. ASSUME NEW q \in BmpPaths, q # p PROVE PhaseOf(q)' = PhaseOf(q)
  <2>1. /\ HasJob(q, Running)' <=> HasJob(q, Running)
        /\ HasJob(q, Ended)' <=> HasJob(q, Ended)
        /\ HasJob(q, Failed)' <=> HasJob(q, Failed)
    BY <1>0, <1>1, <1>3, <1>5 DEF HasJob
  <2> QED BY <1>4, <2>1, SamePhase
<1>6. CASE p = NoPath
  BY <1>5, <1>6
<1>7. CASE p # NoPath
  <2>1. p \in BmpPaths /\ p \in Listed /\ \A u \in VideoTees : target[u] = p => u = v
    BY <1>0, <1>7 DEF IInv, ListInv, AtMostOneJobPerPath
  <2>2. PhaseOf(p) = "running"
    <3>1. HasJob(p, Running)
      BY <1>0, <1>1 DEF HasJob, Running
    <3> QED BY <2>1, <3>1, PhaseCases
  <2>3. \A S : HasJob(p, S)' <=> s \in S
    BY <1>0, <1>1, <1>3, <2>1 DEF HasJob
  <2>4. PhaseOf(p)' = IF s = "failed" THEN "abandoned" ELSE "done"
    <3>1. /\ ~ HasJob(p, Running)' /\ (HasJob(p, Ended)' <=> s # "failed")
          /\ HasJob(p, Failed)' <=> s = "failed"
      BY <1>2, <2>3 DEF Running, Ended, Failed
    <3>2. p \in Listed'
      BY <1>4, <2>1
    <3> QED BY <3>1, <3>2 DEF PhaseOf, HasJob, Ended, Failed
  <2>5. PO!Finish(p) \/ PO!Abandon(p)
    BY <1>5, <2>1, <2>2, <2>4, MoveStep DEF PO!Finish, PO!Abandon
  <2> QED BY <2>1, <2>5 DEF PO!Next
<1> QED BY <1>6, <1>7

(* The steps of the file system that no file's phase depends on. *)
LEMMA OtherStep ==
  ASSUME IInv,
         \/ DirNext
         \/ \E a \in Apps : AppNext(a)
         \/ \E h \in dropped : Dispatch(h)
         \/ \E w \in Workers : Take(w) \/ Answer(w) \/ PathPanic(w) \/ Check(w) \/ CloseFd(w)
         \/ \E v \in VideoTees : JobOpen(v) \/ RequestIO(v) \/ Close(v) \/ Return(v)
  PROVE  \A p : PhaseOf(p)' = PhaseOf(p)
<1>0. /\ st \in [Procs -> AppStates \cup VideoTeeStates]
      /\ pc \in [Workers -> WorkerSteps] /\ req \in [Workers -> Requests \cup {NoRequest}]
      /\ \A a \in Apps : a \in Procs /\ a \notin VideoTees
      /\ \A v \in VideoTees : v \in Procs /\ v \notin Apps
  BY DEF IInv, TypeOK, Procs
<1>1. ASSUME UNCHANGED <<processed, target, pc, req>>,
             \A v \in VideoTees : st'[v] = st[v] \/ (st[v] \in Running /\ st'[v] \in Running)
      PROVE  \A p : PhaseOf(p)' = PhaseOf(p)
  BY <1>1, InternalStep DEF Serving
<1>2. CASE DirNext \/ \E h \in dropped : Dispatch(h)
  BY <1>1, <1>2 DEF DirNext, Unlink, Rename, Dispatch, procVars, poolVars
<1>3. ASSUME NEW a \in Apps, AppNext(a) PROVE \A p : PhaseOf(p)' = PhaseOf(p)
  BY <1>0, <1>1, <1>3
     DEF AppNext, Create, Open, OpenFile, RequestIO, Close, Return, poolVars
<1>4. ASSUME NEW v \in VideoTees, JobOpen(v) \/ RequestIO(v) \/ Close(v) \/ Return(v)
      PROVE  \A p : PhaseOf(p)' = PhaseOf(p)
  <2>1. UNCHANGED <<processed, target, pc, req>>
    BY <1>4 DEF JobOpen, OpenFile, RequestIO, Close, Return, poolVars
  <2>2. /\ st[v] \in Running /\ st'[v] \in Running
        /\ \A u \in VideoTees : u # v => st'[u] = st[u]
    BY <1>0, <1>4 DEF JobOpen, OpenFile, RequestIO, Close, Return, Running
  <2> QED BY <1>1, <2>1, <2>2
<1>5. ASSUME NEW w \in Workers, Answer(w) PROVE \A p : PhaseOf(p)' = PhaseOf(p)
  <2>1. AwaitsAnswer(req[w])
    BY <1>5 DEF Answer, IInv, WorkerInv, WorkerOK
  <2>2. \A v \in VideoTees : st'[v] = st[v] \/ (st[v] \in Running /\ st'[v] \in Running)
    BY <1>0, <1>5, <2>1 DEF Answer, AwaitsAnswer, Running
  <2>3. \A u \in Workers : ~ Serving(u, "spawn") /\ ~ Serving(u, "spawn")'
    BY <1>0, <1>5, OneWorker DEF Answer, Finish, Serving
  <2>4. UNCHANGED <<processed, target>>
    BY <1>5 DEF Answer
  <2> QED BY <2>2, <2>3, <2>4, InternalStep
<1>6. ASSUME NEW w \in Workers, Take(w) \/ PathPanic(w) \/ Check(w) \/ CloseFd(w)
      PROVE  \A p : PhaseOf(p)' = PhaseOf(p)
  <2>1. \A u \in Workers : ~ Serving(u, "spawn") /\ ~ Serving(u, "spawn")'
    BY <1>0, <1>6, OneWorker DEF Take, PathPanic, Panic, Check, CloseFd, Finish, Serving
  <2>2. UNCHANGED <<processed, target, st>>
    BY <1>6 DEF Take, PathPanic, Panic, Check, CloseFd, procVars
  <2> QED BY <2>1, <2>2, InternalStep
<1> QED BY <1>2, <1>3, <1>4, <1>5, <1>6

(* The file system keeps the promise of ProcessOnce: each of its steps     *)
(* moves one file from a phase to the next, or none.                       *)
THEOREM Implementation == Spec => ImplementsProcessOnce
<1>1. Init => PO!Init
  <2> SUFFICES ASSUME Init PROVE \A p \in BmpPaths : PhaseOf(p) = "fresh"
    BY DEF PO!Init
  <2>1. Listed = {}
    BY DEF Init, Listed, Range
  <2> QED BY <2>1 DEF PhaseOf
<1>2. IInv /\ [Next]_vars => [PO!Next]_([p \in BmpPaths |-> PhaseOf(p)])
  <2> SUFFICES ASSUME IInv, [Next]_vars
               PROVE  PO!Next \/ \A p \in BmpPaths : PhaseOf(p)' = PhaseOf(p)
    OBVIOUS
  <2>1. CASE UNCHANGED vars
    BY <2>1, InternalStep DEF vars, Serving
  <2>2. ASSUME NEW w \in Workers, Add(w) \/ Spawn(w) \/ SpawnPanic(w) PROVE PO!Next
    <3>1. req[w].path \in BmpPaths
      BY <2>2 DEF Add, Spawn, SpawnPanic, Serving, IInv, WorkerInv, WorkerOK
    <3> QED BY <2>2, <3>1, AddClaims, SpawnLaunches, SpawnPanicAbandons DEF PO!Next
  <2>3. ASSUME NEW v \in VideoTees, JobNotStarted(v) \/ JobOutcome(v)
        PROVE  PO!Next \/ \A p \in BmpPaths : PhaseOf(p)' = PhaseOf(p)
    BY <2>3, JobStepImplements DEF JobNotStarted, JobOutcome
  <2> QED BY <2>1, <2>2, <2>3, OtherStep DEF Next, Serve, JobNext
<1> QED BY <1>1, <1>2, Invariance, PTL DEF Spec, ImplementsProcessOnce, PO!Spec
=============================================================================
