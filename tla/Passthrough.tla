---------------------------- MODULE Passthrough ----------------------------
(***************************************************************************)
(* The pass-through file system of SecureFUSEStream and the processing it  *)
(* starts: src/fuse/src/passthrough.rs on one mount.                       *)
(*                                                                         *)
(* Three kinds of agents run concurrently.                                 *)
(*   - Processes use the mounted directory: the applications (Apps), and   *)
(*     the video_tee programs (VideoTees) that the file system itself      *)
(*     starts and that open the file they are given through the mount.     *)
(*   - The session thread of fuse_mt handles create, open, unlink and      *)
(*     rename itself, one at a time; it puts read, write, fsync, flush and *)
(*     release into a queue, with the path the file has at that moment.    *)
(*   - The thread pool (main.rs gives it one thread) serves the queue.     *)
(*     Its release hook looks the path up in the list of processed files,  *)
(*     adds it, spawns a thread that runs video_tee, and closes the file.  *)
(* close() returns when its flush is answered; the kernel sends the        *)
(* release some time later, and nobody waits for it.                       *)
(*                                                                         *)
(* An inode is a node; the table of fuse_mt keeps the last path of each.   *)
(***************************************************************************)
EXTENDS Naturals, Sequences, FiniteSets, Functions

CONSTANTS
  Apps,        \* application processes
  VideoTees,   \* the video_tee programs that one mount can start
  Paths,       \* the names of files in the mounted directory
  BmpPaths,    \* the names that end in ".bmp"
  RawPaths,    \* the names that are not valid UTF-8
  Fds,         \* the descriptors of the file system's process
  Nodes,       \* inodes
  NoProc, NoNode, NoPath, NoHandle, NoRequest

ASSUME ProcessAssumption ==
  /\ Apps \cap VideoTees = {}
  /\ NoProc \notin Apps \cup VideoTees

ASSUME PathAssumption ==
  /\ Paths # {}
  /\ BmpPaths \subseteq Paths
  /\ RawPaths \subseteq Paths \ BmpPaths
  /\ NoPath \notin Paths
  /\ NoNode \notin Nodes

(* main.rs mounts the file system with FuseMT::new(filesystem, 1). *)
BugTwoThreads == 2
NumThreads == 1

Workers == 1 .. NumThreads
Procs   == Apps \cup VideoTees

Handles  == [fd : Fds, node : Nodes, writing : BOOLEAN]
Requests == [op : {"io", "flush", "release"}, who : Procs \cup {NoProc},
             fd : Fds, path : Paths]

ASSUME NullAssumption == NoHandle \notin Handles /\ NoRequest \notin Requests

VARIABLES
  dir,        \* dir[p]: the node that the name p is linked to, or NoNode
  lastPath,   \* lastPath[n]: the path of node n in fuse_mt's inode table
  st,         \* st[c]: what process c is doing
  fh,         \* fh[c]: the handle that process c has open
  target,     \* target[v]: the path that video_tee program v was started on
  fds,        \* the descriptors that are open
  dropped,    \* handles whose last close was done, whose release was not sent
  queue,      \* requests waiting for the thread pool
  pc,         \* pc[w]: the next step of pool thread w
  req,        \* req[w]: the request that pool thread w is serving
  processed,  \* STRING_LIST
  leaked      \* descriptors that no release will close (a history variable)

dirVars  == <<dir, lastPath>>
procVars == <<st, fh, target>>
poolVars == <<queue, pc, req>>
vars == <<dir, lastPath, st, fh, target, fds, dropped, queue, pc, req,
          processed, leaked>>

(* An application is idle, has a file open, or is inside read()/write()    *)
(* ("waiting") or close() ("closing", "flushed").  A video_tee program is  *)
(* unborn until the release hook starts it, opens and reads its file,      *)
(* holds it while the trusted application works ("loaded"), and ends; the  *)
(* thread that started it then records the outcome.                        *)
AppStates == {"idle", "open", "waiting", "closing", "flushed"}
VideoTeeStates ==
  {"unborn", "started", "open", "waiting", "loaded", "closing", "flushed",
   "exited", "logged", "failed", "lost"}
Running == {"started", "open", "waiting", "loaded", "closing", "flushed", "exited"}

WorkerSteps == {"idle", "serve", "add", "spawn", "close"}

(* The list of processed files as a set. *)
Listed == Range(processed)

(* The handles the kernel still counts as open. *)
Live == {fh[c] : c \in {c \in Procs : fh[c] # NoHandle}}

(* Every variable keeps its type: in particular only names that end in     *)
(* ".bmp" get into the list of processed files.                            *)
TypeOK ==
  /\ dir \in [Paths -> Nodes \cup {NoNode}]
  /\ lastPath \in [Nodes -> Paths]
  /\ st \in [Procs -> AppStates \cup VideoTeeStates]
  /\ \A a \in Apps : st[a] \in AppStates
  /\ \A v \in VideoTees : st[v] \in VideoTeeStates
  /\ fh \in [Procs -> Handles \cup {NoHandle}]
  /\ target \in [VideoTees -> BmpPaths \cup {NoPath}]
  /\ fds \in SUBSET Fds
  /\ dropped \in SUBSET Handles
  /\ queue \in Seq(Requests)
  /\ pc \in [Workers -> WorkerSteps]
  /\ req \in [Workers -> Requests \cup {NoRequest}]
  /\ processed \in Seq(BmpPaths)
  /\ leaked \in SUBSET Fds

(* The directory may hold files before it is mounted.  The last path of a  *)
(* node that no name is linked to is never read: any path will do.         *)
Init ==
  /\ dir \in [Paths -> Nodes \cup {NoNode}]
  /\ \A p, q \in Paths : dir[p] = dir[q] => p = q \/ dir[p] = NoNode
  /\ lastPath = [n \in Nodes |->
                   CHOOSE p \in Paths : dir[p] = n \/ n \notin Range(dir)]
  /\ st = [c \in Procs |-> IF c \in Apps THEN "idle" ELSE "unborn"]
  /\ fh = [c \in Procs |-> NoHandle]
  /\ target = [v \in VideoTees |-> NoPath]
  /\ fds = {} /\ dropped = {} /\ leaked = {}
  /\ queue = <<>>
  /\ pc = [w \in Workers |-> "idle"]
  /\ req = [w \in Workers |-> NoRequest]
  /\ processed = <<>>

-----------------------------------------------------------------------------
(* Requests that the session thread handles itself. *)

(* create(): O_CREAT|O_EXCL makes a new node and opens it.  When the lstat *)
(* that follows fails, the caller gets the error and no handle, and the    *)
(* descriptor stays open.                                                  *)
FreeNodes ==
  Nodes \ (Range(dir) \cup {h.node : h \in Live \cup dropped})

Create(a, p) ==
  /\ st[a] = "idle"
  /\ dir[p] = NoNode
  /\ \E fd \in Fds \ fds, n \in FreeNodes :
       /\ dir' = [dir EXCEPT ![p] = n]
       /\ lastPath' = [lastPath EXCEPT ![n] = p]
       /\ fds' = fds \cup {fd}
       /\ \/ /\ st' = [st EXCEPT ![a] = "open"]
             /\ fh' = [fh EXCEPT ![a] = [fd |-> fd, node |-> n, writing |-> TRUE]]
             /\ UNCHANGED leaked
          \/ /\ leaked' = leaked \cup {fd}
             /\ UNCHANGED <<st, fh>>
  /\ UNCHANGED <<target, dropped, poolVars, processed>>

(* open() of an existing file. *)
OpenFile(c, p, writing) ==
  /\ dir[p] # NoNode
  /\ \E fd \in Fds \ fds :
       /\ fds' = fds \cup {fd}
       /\ fh' = [fh EXCEPT ![c] = [fd |-> fd, node |-> dir[p], writing |-> writing]]
  /\ st' = [st EXCEPT ![c] = "open"]
  /\ UNCHANGED <<dirVars, target, dropped, poolVars, processed, leaked>>

Open(a, p) == st[a] = "idle" /\ \E writing \in BOOLEAN : OpenFile(a, p, writing)

(* unlink(): handles that are open keep the node and its last path. *)
Unlink(p) ==
  /\ dir[p] # NoNode
  /\ dir' = [dir EXCEPT ![p] = NoNode]
  /\ UNCHANGED <<lastPath, procVars, fds, dropped, poolVars, processed, leaked>>

(* rename(): the path of the node follows; a file that was q loses its     *)
(* link but not its last path.                                             *)
Rename(p, q) ==
  /\ p # q
  /\ dir[p] # NoNode
  /\ dir' = [dir EXCEPT ![p] = NoNode, ![q] = dir[p]]
  /\ lastPath' = [lastPath EXCEPT ![dir[p]] = q]
  /\ UNCHANGED <<procVars, fds, dropped, poolVars, processed, leaked>>

-----------------------------------------------------------------------------
(* Requests that the session thread puts into the queue. *)

Enqueue(op, c, h) ==
  queue' = Append(queue, [op |-> op, who |-> c, fd |-> h.fd, path |-> lastPath[h.node]])

(* read(), write() or fsync() on an open file. *)
RequestIO(c) ==
  /\ st[c] = "open"
  /\ st' = [st EXCEPT ![c] = "waiting"]
  /\ Enqueue("io", c, fh[c])
  /\ UNCHANGED <<dirVars, fh, target, fds, dropped, pc, req, processed, leaked>>

(* close() sends a flush and waits for its answer.  A process that exits   *)
(* with the file open has it closed in the same way.                       *)
Close(c) ==
  /\ st[c] = "open" \/ (c \in VideoTees /\ st[c] = "loaded")
  /\ st' = [st EXCEPT ![c] = "closing"]
  /\ Enqueue("flush", c, fh[c])
  /\ UNCHANGED <<dirVars, fh, target, fds, dropped, pc, req, processed, leaked>>

(* close() returns; the handle is the kernel's to release. *)
Return(c) ==
  /\ st[c] = "flushed"
  /\ st' = [st EXCEPT ![c] = IF c \in Apps THEN "idle" ELSE "exited"]
  /\ dropped' = dropped \cup {fh[c]}
  /\ fh' = [fh EXCEPT ![c] = NoHandle]
  /\ UNCHANGED <<dirVars, target, fds, poolVars, processed, leaked>>

(* The kernel sends the release of a handle; its path is looked up now. *)
Dispatch(h) ==
  /\ h \in dropped
  /\ dropped' = dropped \ {h}
  /\ Enqueue("release", NoProc, h)
  /\ UNCHANGED <<dirVars, procVars, fds, pc, req, processed, leaked>>

-----------------------------------------------------------------------------
(* The thread pool. *)

Take(w) ==
  /\ pc[w] = "idle"
  /\ queue # <<>>
  /\ queue' = Tail(queue)
  /\ req' = [req EXCEPT ![w] = Head(queue)]
  /\ pc' = [pc EXCEPT ![w] = "serve"]
  /\ UNCHANGED <<dirVars, procVars, fds, dropped, processed, leaked>>

Finish(w) ==
  /\ pc' = [pc EXCEPT ![w] = "idle"]
  /\ req' = [req EXCEPT ![w] = NoRequest]

(* read, write, fsync and flush: do it and answer. *)
Answer(w) ==
  /\ pc[w] = "serve"
  /\ req[w].op \in {"io", "flush"}
  /\ st' = [st EXCEPT ![req[w].who] =
              IF req[w].op = "flush" THEN "flushed"
              ELSE IF req[w].who \in Apps THEN "open" ELSE "loaded"]
  /\ Finish(w)
  /\ UNCHANGED <<dirVars, fh, target, fds, dropped, queue, processed, leaked>>

Serving(w, step) == pc[w] = step /\ req[w].op = "release"

(* A panic ends the pool thread, which the pool replaces, before close(). *)
Panic(w) ==
  /\ leaked' = leaked \cup {req[w].fd}
  /\ Finish(w)
  /\ UNCHANGED <<dirVars, procVars, fds, dropped, queue, processed>>

(* path.to_str().expect(...) on a name that is not UTF-8. *)
PathPanic(w) ==
  /\ Serving(w, "serve")
  /\ req[w].path \in RawPaths
  /\ Panic(w)

check_is_processed(p) == p \in Listed

(* The lookup in the list and the test for ".bmp". *)
BugNoLookup(w) ==       \* every release of a ".bmp" file starts a program
  /\ Serving(w, "serve")
  /\ req[w].path \notin RawPaths
  /\ pc' = [pc EXCEPT ![w] = IF req[w].path \in BmpPaths THEN "add" ELSE "close"]
  /\ UNCHANGED <<dirVars, procVars, fds, dropped, queue, req, processed, leaked>>

BugNoSuffixTest(w) ==   \* the name is not tested
  /\ Serving(w, "serve")
  /\ req[w].path \notin RawPaths
  /\ pc' = [pc EXCEPT ![w] = IF check_is_processed(req[w].path) THEN "close" ELSE "add"]
  /\ UNCHANGED <<dirVars, procVars, fds, dropped, queue, req, processed, leaked>>

BugReturnEarly(w) ==    \* a file that was processed is not closed
  /\ Serving(w, "serve")
  /\ req[w].path \notin RawPaths
  /\ IF check_is_processed(req[w].path)
     THEN Finish(w)
     ELSE /\ pc' = [pc EXCEPT ![w] = IF req[w].path \in BmpPaths THEN "add" ELSE "close"]
          /\ UNCHANGED req
  /\ UNCHANGED <<dirVars, procVars, fds, dropped, queue, processed, leaked>>

Check(w) ==
  /\ Serving(w, "serve")
  /\ req[w].path \notin RawPaths
  /\ pc' = [pc EXCEPT ![w] =
              IF ~check_is_processed(req[w].path) /\ req[w].path \in BmpPaths
              THEN "add" ELSE "close"]
  /\ UNCHANGED <<dirVars, procVars, fds, dropped, queue, req, processed, leaked>>

(* add_processed_file: the lock was given back after the lookup. *)
Add(w) ==
  /\ Serving(w, "add")
  /\ processed' = Append(processed, req[w].path)
  /\ pc' = [pc EXCEPT ![w] = "spawn"]
  /\ UNCHANGED <<dirVars, procVars, fds, dropped, queue, req, leaked>>

(* thread::spawn of the closure that runs "sudo video_tee <path>". *)
Spawn(w) ==
  /\ Serving(w, "spawn")
  /\ \E v \in VideoTees :
       /\ st[v] = "unborn"
       /\ st' = [st EXCEPT ![v] = "started"]
       /\ target' = [target EXCEPT ![v] = req[w].path]
  /\ pc' = [pc EXCEPT ![w] = "close"]
  /\ UNCHANGED <<dirVars, fh, fds, dropped, queue, req, processed, leaked>>

(* thread::spawn panics when no thread can be created. *)
SpawnPanic(w) == Serving(w, "spawn") /\ Panic(w)

BugRunInHook(w) ==      \* the hook runs the program itself and waits for it
  /\ Serving(w, "close")
  /\ \A v \in VideoTees : target[v] = req[w].path => st[v] \notin Running
  /\ fds' = fds \ {req[w].fd}
  /\ Finish(w)
  /\ UNCHANGED <<dirVars, procVars, dropped, queue, processed, leaked>>

CloseFd(w) ==
  /\ Serving(w, "close")
  /\ fds' = fds \ {req[w].fd}
  /\ Finish(w)
  /\ UNCHANGED <<dirVars, procVars, dropped, queue, processed, leaked>>

Serve(w) == Answer(w) \/ PathPanic(w) \/ Check(w) \/ Add(w) \/ Spawn(w)
              \/ SpawnPanic(w) \/ CloseFd(w)

-----------------------------------------------------------------------------
(* A video_tee program and the thread that runs it. *)

JobOpen(v) == st[v] = "started" /\ OpenFile(v, target[v], FALSE)

JobStep(v, from, To) ==
  /\ st[v] = from
  /\ \E s \in To : st' = [st EXCEPT ![v] = s]
  /\ UNCHANGED <<dirVars, fh, target, fds, dropped, poolVars, processed, leaked>>

(* The program cannot be run (expect panics in its thread), or it cannot   *)
(* open the file: the name is gone or the descriptors are.                 *)
JobNotStarted(v) == JobStep(v, "started", {"failed"})

(* The thread collects the exit status.  On success it appends to the      *)
(* timing log, or panics there; otherwise it prints stderr.                *)
JobOutcome(v) == JobStep(v, "exited", {"logged", "lost", "failed"})

JobNext(v) ==
  JobOpen(v) \/ JobNotStarted(v) \/ RequestIO(v) \/ Close(v) \/ Return(v) \/ JobOutcome(v)

AppNext(a) ==
  \/ \E p \in Paths : Create(a, p) \/ Open(a, p)
  \/ RequestIO(a)
  \/ Close(a)
  \/ Return(a)

DirNext == \E p \in Paths : Unlink(p) \/ \E q \in Paths : Rename(p, q)

Next ==
  \/ \E a \in Apps : AppNext(a)
  \/ DirNext
  \/ \E h \in dropped : Dispatch(h)
  \/ \E w \in Workers : Take(w) \/ Serve(w)
  \/ \E v \in VideoTees : JobNext(v)

Spec == Init /\ [][Next]_vars

(* The kernel, the pool thread and the programs it starts keep running; an *)
(* application may stop anywhere, except that close() returns once it is   *)
(* answered.                                                               *)
Fairness ==
  /\ \A fd \in Fds : WF_vars(\E h \in dropped : h.fd = fd /\ Dispatch(h))
  /\ \A w \in Workers : WF_vars(Take(w) \/ Serve(w))
  /\ \A v \in VideoTees : WF_vars(JobNext(v))
  /\ \A a \in Apps : WF_vars(Return(a))

FairSpec == Spec /\ Fairness

-----------------------------------------------------------------------------
(* A path is handed to video_tee at most once on a mount, however often,   *)
(* by however many processes and in whatever order the file is closed.     *)
AtMostOneJobPerPath ==
  \A u, v \in VideoTees : target[u] = target[v] /\ target[u] # NoPath => u = v

(* The log of release says "File was already processed" when it finds the  *)
(* path in the list: no video_tee program has failed on the file.          *)
SkippedMeansProcessed ==
  [][\A w \in Workers :
       Check(w) /\ check_is_processed(req[w].path)
         => \A v \in VideoTees : target[v] = req[w].path => st[v] # "failed"]_vars

(* The log of release says "Finished writing to file." and release goes on *)
(* to start video_tee: when the program is started, no process has the     *)
(* file open for writing any more.                                         *)
FinishedWriting ==
  [][\A w \in Workers :
       Spawn(w) => \A h \in Live : h.writing => h.node # dir[req[w].path]]_vars

(* Every open descriptor is in exactly one pair of hands: a process, the   *)
(* kernel before it sends the release, a release in the queue, the pool    *)
(* thread serving it, or it was leaked.  No one holds a closed descriptor, *)
(* which could by then belong to another file; and whatever waits in the   *)
(* queue is for a process that still holds that descriptor.                *)
Owners(fd) ==
  {<<"process", c>> : c \in {c \in Procs : fh[c] # NoHandle /\ fh[c].fd = fd}}
    \cup {<<"kernel", h>> : h \in {h \in dropped : h.fd = fd}}
    \cup {<<"queue", i>> : i \in {i \in DOMAIN queue :
                                  queue[i].op = "release" /\ queue[i].fd = fd}}
    \cup {<<"worker", w>> : w \in {w \in Workers :
                  pc[w] # "idle" /\ req[w].op = "release" /\ req[w].fd = fd}}
    \cup {<<"leaked", f>> : f \in leaked \cap {fd}}

FdOwnership ==
  /\ \A fd \in Fds : fd \in fds <=> Owners(fd) # {}
  /\ \A fd \in Fds : \A x, y \in Owners(fd) : x = y
  /\ \A i \in DOMAIN queue : queue[i].op # "release" =>
       LET c == queue[i].who IN fh[c] # NoHandle /\ fh[c].fd = queue[i].fd

(* The inductive invariant behind AtMostOneJobPerPath.  A process holds a   *)
(* handle exactly while it uses the file; each request other than a release *)
(* is for a process that waits for its answer, and no process waits for     *)
(* two; and between the lookup and the spawn nothing else touches the list, *)
(* because one thread serves every release.                                 *)
Holding == {"open", "waiting", "loaded", "closing", "flushed"}

HandleInv == \A c \in Procs : fh[c] # NoHandle <=> st[c] \in Holding

AwaitsAnswer(r) ==
  /\ r.who \in Procs
  /\ st[r.who] = IF r.op = "io" THEN "waiting" ELSE "closing"
  /\ fh[r.who].fd = r.fd

CallInv ==
  /\ \A i \in 1 .. Len(queue) : queue[i].op # "release" => AwaitsAnswer(queue[i])
  /\ \A i, j \in 1 .. Len(queue) :
       queue[i].op # "release" /\ queue[j].op # "release" /\ queue[i].who = queue[j].who
         => i = j

WorkerOK(w) ==
  /\ pc[w] = "idle" <=> req[w] = NoRequest
  /\ pc[w] \in {"add", "spawn", "close"} => req[w].op = "release"
  /\ pc[w] \in {"add", "spawn"} => req[w].path \in BmpPaths
  /\ pc[w] # "idle" /\ req[w].op # "release" =>
       /\ AwaitsAnswer(req[w])
       /\ \A i \in 1 .. Len(queue) :
            queue[i].op # "release" => queue[i].who # req[w].who

WorkerInv == \A w \in Workers : WorkerOK(w)

ListInv ==
  /\ \A v \in VideoTees : target[v] # NoPath => target[v] \in Listed
  /\ \A v \in VideoTees : st[v] = "started" => target[v] # NoPath
  /\ \A w \in Workers :
       /\ pc[w] = "add" => req[w].path \notin Listed
       /\ pc[w] = "spawn" => /\ req[w].path \in Listed
                             /\ \A v \in VideoTees : target[v] # req[w].path

IInv == TypeOK /\ HandleInv /\ CallInv /\ WorkerInv /\ ListInv /\ AtMostOneJobPerPath

(* How far a file has come, for the promise of ProcessOnce: the first case *)
(* that applies.                                                           *)
PhaseOf(p) ==
  LET JobIn(S) == \E v \in VideoTees : target[v] = p /\ st[v] \in S
  IN  IF p \notin Listed THEN "fresh"
      ELSE IF JobIn(Running) THEN "running"
      ELSE IF JobIn({"logged", "lost"}) THEN "done"
      ELSE IF ~JobIn({"failed"})
                /\ \E w \in Workers : Serving(w, "spawn") /\ req[w].path = p
           THEN "claimed"
      ELSE "abandoned"

PO == INSTANCE ProcessOnce WITH Files <- BmpPaths,
                                phase <- [p \in BmpPaths |-> PhaseOf(p)]

(* The release hook keeps the promise of ProcessOnce: a file is claimed,   *)
(* handed over, and finished or given up, in that order and only once.     *)
ImplementsProcessOnce == PO!Spec

(* A claimed file is eventually finished or given up: the program that is  *)
(* started reads its file through the very thread that started it, and     *)
(* still ends.                                                             *)
EveryClaimSettled == PO!EveryClaimSettled

(* Every read, write, fsync and close of a process returns. *)
EveryCallReturns ==
  \A c \in Procs : st[c] \in {"waiting", "closing", "flushed"}
                    ~> st[c] \notin {"waiting", "closing", "flushed"}

(* After the last close of a handle its descriptor is closed, or a panic   *)
(* in the release hook has leaked it.                                      *)
EveryHandleReleased ==
  \A fd \in Fds : (\E h \in dropped : h.fd = fd) ~> fd \notin fds \/ fd \in leaked
=============================================================================
