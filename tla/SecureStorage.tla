--------------------------- MODULE SecureStorage ---------------------------
(***************************************************************************)
(* The secure storage example: the trusted application                     *)
(* src/secure_storage/ta/secure_storage_ta.c, with its commands WRITE_RAW, *)
(* READ_RAW and DELETE, and the program src/secure_storage/host/main.c,    *)
(* which can be run again and again.                                       *)
(*                                                                         *)
(* The instance accepts one session, so one run is under way at a time;    *)
(* the next begins after the last has exited.  A run writes, reads back    *)
(* and deletes object 1; then it creates object 2, or deletes it if it was *)
(* there: what a run does depends on what the runs before it, and crashes, *)
(* have left in the storage.  Every call of the TEE API can fail, and      *)
(* power can fail between any two of them.                                 *)
(***************************************************************************)
EXTENDS Naturals, FiniteSets

CONSTANTS
  Object1, Object2,    \* object identifiers
  Data1, Data2,        \* what the program writes into them
  MaxCrashes,          \* bound on power failures
  NoObject, Empty      \* no object with this identifier; an object of size 0

ASSUME DistinctAssumption ==
  /\ Object1 # Object2
  /\ Cardinality({Data1, Data2, NoObject, Empty}) = 4

ASSUME BoundAssumption == MaxCrashes \in Nat

Objects  == {Object1, Object2}
Contents == {Data1, Data2, Empty}

VARIABLES
  main,      \* the step of the program, "off" between runs
  status,    \* exit status of the last run
  tpc,       \* the next step of the command the instance executes
  code,      \* the result the command will return, or has returned
  heap,      \* buffers the instance has allocated and not freed
  opened,    \* whether the command holds an open object
  read_data, \* the program's buffer
  store,     \* the persistent objects
  crashes,
  oom,       \* second allocations that failed in this session (history)
  undeleted, \* objects an ignored error has left in place (history)
  had2       \* whether object 2 was there when the run looked (history)

hostVars == <<main, status, read_data, had2>>
taVars   == <<tpc, code, heap, opened, oom>>
vars == <<main, status, tpc, code, heap, opened, read_data, store, crashes, oom,
          undeleted, had2>>

MainSteps == {"write1", "read1", "delete1", "read2", "write2", "delete2"}
TaSteps   == {"idle", "id", "data", "create", "write", "undo", "open", "info", "read",
              "delete", "close", "return"}
Codes     == {"none", "success", "not_found", "error"}

(* Every variable keeps its type: in particular no buffer is freed that    *)
(* was not allocated.                                                      *)
TypeOK ==
  /\ main \in MainSteps \cup {"off"}
  /\ status \in {"none", "ok", "failed"}
  /\ tpc \in TaSteps
  /\ code \in Codes
  /\ heap \in Nat /\ oom \in Nat
  /\ opened \in BOOLEAN
  /\ read_data \in Contents
  /\ store \in [Objects -> Contents \cup {NoObject}]
  /\ crashes \in 0 .. MaxCrashes
  /\ undeleted \in SUBSET Objects
  /\ had2 \in BOOLEAN

Init ==
  /\ main = "off" /\ status = "none"
  /\ tpc = "idle" /\ code = "none" /\ heap = 0 /\ opened = FALSE
  /\ read_data = Empty
  /\ store = [o \in Objects |-> NoObject]
  /\ crashes = 0 /\ oom = 0 /\ undeleted = {} /\ had2 = FALSE

-----------------------------------------------------------------------------
(* The program. *)

Object  == IF main \in {"write1", "read1", "delete1"} THEN Object1 ELSE Object2
Data    == IF main = "write1" THEN Data1 ELSE Data2
Writes  == main \in {"write1", "write2"}
Reads   == main \in {"read1", "read2"}
Deletes == main \in {"delete1", "delete2"}

FreshInstance ==
  /\ tpc' = "idle" /\ code' = "none" /\ heap' = 0 /\ opened' = FALSE /\ oom' = 0

(* prepare_tee_session.  read_data is uninitialised; nothing compares it    *)
(* before a read has filled it, and Empty stands for what it holds.        *)
Run ==
  /\ main = "off"
  /\ main' = "write1" /\ status' = "none" /\ read_data' = Empty
  /\ FreshInstance
  /\ UNCHANGED <<store, crashes, undeleted, had2>>

(* TEEC_InvokeCommand *)
Invoke ==
  /\ main # "off" /\ tpc = "idle"
  /\ tpc' = "id"
  /\ UNCHANGED <<hostVars, code, heap, opened, oom, store, crashes, undeleted>>

(* The next step of main() after the command of this one has returned. *)
BugAlwaysCreate ==        \* object 2 is created whether it is there or not
  CASE main = "write1"  /\ code = "success"                          -> "read1"
    [] main = "read1"   /\ code = "success" /\ read_data = Data1     -> "delete1"
    [] main = "delete1" /\ code = "success"                          -> "read2"
    [] main = "read2"   /\ code \in {"not_found", "success"}          -> "write2"
    [] OTHER -> "off"

NextStep ==
  CASE main = "write1"  /\ code = "success"                          -> "read1"
    [] main = "read1"   /\ code = "success" /\ read_data = Data1     -> "delete1"
    [] main = "delete1" /\ code = "success"                          -> "read2"
    [] main = "read2"   /\ code = "not_found"                        -> "write2"
    [] main = "read2"   /\ code = "success"                          -> "delete2"
    [] OTHER -> "off"

Continue ==
  /\ tpc = "return"
  /\ main' = NextStep
  /\ had2' = IF main = "read2" THEN code = "success" ELSE had2
  /\ IF main' # "off"
     THEN tpc' = "idle" /\ code' = "none" /\ UNCHANGED <<status, heap, opened, oom>>
     ELSE /\ status' = IF main \in {"write2", "delete2"} /\ code = "success"
                       THEN "ok" ELSE "failed"
          /\ FreshInstance
  /\ UNCHANGED <<read_data, store, crashes, undeleted>>

-----------------------------------------------------------------------------
(* The trusted application. *)

Malloc(n) == heap' = heap + n
Go(to)    == tpc' = to /\ UNCHANGED code
Return(c) == tpc' = "return" /\ code' = c

(* What a command has allocated when it comes to its end. *)
BugBuffers == 2           \* delete_object frees its identifier twice
Buffers    == IF Deletes THEN 1 ELSE 2

(* The copy of the identifier. *)
MallocId ==
  /\ tpc = "id"
  /\ \/ Malloc(1) /\ Go(IF Deletes THEN "open" ELSE "data")
     \/ Return("error") /\ UNCHANGED heap
  /\ UNCHANGED <<hostVars, opened, oom, store, crashes, undeleted>>

(* The buffer for the data; without it the identifier is not freed. *)
MallocData ==
  /\ tpc = "data"
  /\ \/ Malloc(1) /\ Go(IF Writes THEN "create" ELSE "open") /\ UNCHANGED oom
     \/ oom' = oom + 1 /\ Return("error") /\ UNCHANGED heap
  /\ UNCHANGED <<hostVars, opened, store, crashes, undeleted>>

(* create_raw_object: an object of that name is replaced by an empty one. *)
Create ==
  /\ tpc = "create"
  /\ \/ /\ store' = [store EXCEPT ![Object] = Empty]
        /\ undeleted' = undeleted \ {Object}
        /\ opened' = TRUE /\ Go("write") /\ UNCHANGED heap
     \/ heap' = heap - Buffers /\ Return("error") /\ UNCHANGED <<store, opened, undeleted>>
  /\ UNCHANGED <<hostVars, oom, crashes>>

BugWriteErrorKept ==      \* an error leaves the object as it is
  /\ tpc = "write"
  /\ \/ store' = [store EXCEPT ![Object] = Data] /\ Return("success")
     \/ Return("error") /\ UNCHANGED store
  /\ opened' = FALSE
  /\ heap' = heap - Buffers
  /\ UNCHANGED <<hostVars, oom, crashes, undeleted>>

BugIgnoreWriteError ==    \* the result of the write is not looked at
  /\ tpc = "write"
  /\ \/ store' = [store EXCEPT ![Object] = Data]
     \/ UNCHANGED store
  /\ opened' = FALSE
  /\ heap' = heap - Buffers
  /\ Return("success")
  /\ UNCHANGED <<hostVars, oom, crashes, undeleted>>

Write ==
  /\ tpc = "write"
  /\ \/ /\ store' = [store EXCEPT ![Object] = Data]
        /\ opened' = FALSE
        /\ heap' = heap - Buffers
        /\ Return("success")
     \/ Go("undo") /\ UNCHANGED <<store, opened, heap>>
  /\ UNCHANGED <<hostVars, oom, crashes, undeleted>>

(* TEE_CloseAndDeletePersistentObject1: its own result is ignored. *)
CloseAndDelete ==
  /\ \/ store' = [store EXCEPT ![Object] = NoObject] /\ undeleted' = undeleted \ {Object}
     \/ undeleted' = undeleted \cup {Object} /\ UNCHANGED store
  /\ opened' = FALSE
  /\ heap' = heap - Buffers

Undo ==
  /\ tpc = "undo"
  /\ CloseAndDelete
  /\ Return("error")
  /\ UNCHANGED <<hostVars, oom, crashes>>

(* read_raw_object and delete_object open the object first. *)
Open ==
  /\ tpc = "open"
  /\ \/ /\ store[Object] # NoObject
        /\ opened' = TRUE
        /\ Go(IF Reads THEN "info" ELSE "delete")
        /\ UNCHANGED heap
     \/ /\ Return(IF store[Object] = NoObject THEN "not_found" ELSE "error")
        /\ heap' = heap - Buffers
        /\ UNCHANGED opened
  /\ UNCHANGED <<hostVars, oom, store, crashes, undeleted>>

Info ==
  /\ tpc = "info"
  /\ \/ Go("read")
     \/ tpc' = "close" /\ code' = "error"
  /\ UNCHANGED <<hostVars, heap, opened, oom, store, crashes, undeleted>>

(* An empty object is read with success, and fills nothing. *)
Read ==
  /\ tpc = "read"
  /\ tpc' = "close"
  /\ \/ /\ code' = "success"
        /\ read_data' = IF store[Object] = Empty THEN read_data ELSE store[Object]
     \/ /\ code' = "error"
        /\ UNCHANGED read_data
  /\ UNCHANGED <<main, status, had2, heap, opened, oom, store, crashes, undeleted>>

BugReadNotClosed ==       \* an error returns without the clean-up
  /\ tpc = "close"
  /\ tpc' = "return"
  /\ IF code = "error" THEN UNCHANGED <<heap, opened>>
     ELSE opened' = FALSE /\ heap' = heap - Buffers
  /\ UNCHANGED <<hostVars, code, oom, store, crashes, undeleted>>

CloseRead ==
  /\ tpc = "close"
  /\ tpc' = "return"
  /\ opened' = FALSE
  /\ heap' = heap - Buffers
  /\ UNCHANGED <<hostVars, code, oom, store, crashes, undeleted>>

Delete ==
  /\ tpc = "delete"
  /\ CloseAndDelete
  /\ Return("success")
  /\ UNCHANGED <<hostVars, oom, crashes>>

Command ==
  MallocId \/ MallocData \/ Create \/ Write \/ Undo \/ Open \/ Info \/ Read \/ CloseRead \/ Delete

-----------------------------------------------------------------------------
(* Power fails, between two runs or within one: only the storage is left. *)
PowerLoss ==
  /\ crashes < MaxCrashes
  /\ main' = "off" /\ status' = "failed"
  /\ FreshInstance
  /\ crashes' = crashes + 1
  /\ undeleted' = undeleted \cup {o \in Objects : store[o] = Empty}
  /\ UNCHANGED <<read_data, store, had2>>

Next == Run \/ Invoke \/ Continue \/ Command \/ PowerLoss

Spec == Init /\ [][Next]_vars

-----------------------------------------------------------------------------
(* The program never meets "Unexpected content found in secure storage":   *)
(* what it reads back from object 1 is what it wrote, whatever earlier     *)
(* runs, failed calls and power failures have left there.                  *)
ReadsBackWhatItWrote ==
  main = "read1" /\ tpc = "return" /\ code = "success" => read_data = Data1

(* Between two commands nothing of the last one is left: its object is     *)
(* closed and its buffers are freed, unless the second one could not be    *)
(* allocated, which costs the first.                                       *)
CommandsCleanUp == tpc \in {"idle", "return"} => ~opened /\ heap = oom

(* An object that is there has the contents the program gives it.  An      *)
(* empty one is being written, or its removal has failed, or power failed. *)
NoTornObject ==
  \A o \in Objects :
    \/ store[o] \in {NoObject, IF o = Object1 THEN Data1 ELSE Data2}
    \/ store[o] = Empty /\ (o \in undeleted \/ (tpc \in {"write", "undo"} /\ o = Object))

(* A run that ends well has created object 2 if it did not find it, and    *)
(* deleted it if it did, and has left no object 1, unless the storage      *)
(* refused a deletion.                                                     *)
RunToggles ==
  status = "ok" =>
    /\ store[Object2] = NoObject <=> (had2 /\ Object2 \notin undeleted)
    /\ store[Object1] = NoObject \/ Object1 \in undeleted

(* The inductive invariant behind these properties.  CommandInv: which     *)
(* command may be at which step, and what it holds there.                  *)
Allocated ==
  IF tpc \in {"idle", "id", "return"} THEN 0 ELSE IF tpc = "data" THEN 1 ELSE Buffers

CommandInv ==
  /\ tpc # "idle" => main # "off"
  /\ tpc \in {"create", "write", "undo"} => Writes
  /\ tpc \in {"info", "read", "close"} => Reads
  /\ tpc = "delete" => Deletes
  /\ tpc = "data" => ~Deletes
  /\ tpc = "open" => ~Writes
  /\ opened <=> tpc \in {"write", "undo", "info", "read", "delete", "close"}
  /\ heap = oom + Allocated

(* What a command has achieved that reports success, and what the program  *)
(* relies on when it goes on to its next step: in particular a failed      *)
(* command and a power failure never leave it between two steps.           *)
AchievedInv ==
  /\ tpc \in {"info", "read", "delete"} => store[Object] # NoObject
  /\ tpc = "return" /\ code = "success" =>
       /\ Writes  => store[Object] = Data
       /\ Deletes => (store[Object] = NoObject <=> Object \notin undeleted)
  /\ tpc \in {"close", "return"} /\ code = "success" /\ main = "read1" => read_data = Data1

MainInv ==
  /\ status = "ok" => main = "off"
  /\ main = "read1" => store[Object1] = Data1
  /\ main \in {"read2", "write2", "delete2"} =>
       store[Object1] = NoObject \/ Object1 \in undeleted
  /\ main = "write2" => ~had2
  /\ main = "delete2" => had2

IInv == TypeOK /\ CommandInv /\ AchievedInv /\ MainInv /\ NoTornObject /\ RunToggles
=============================================================================
