--------------------------- MODULE VideoTEEProofs ---------------------------
(***************************************************************************)
(* Proofs about VideoTEE, for any hosts, images, hash and bound on the     *)
(* crashes: IInv is an inductive invariant, first CoreInv and then, with   *)
(* it, what is allocated; the safety properties follow from it, and the    *)
(* application implements TeeService.                                      *)
(***************************************************************************)
EXTENDS VideoTEE, TLAPS

USE HashAssumption, BoundAssumption, NullAssumption

LEMMA InitCore == Init => CoreInv
<1> SUFFICES ASSUME Init PROVE CoreInv
  OBVIOUS
<1>1. TypeOK
  BY DEF Init, TypeOK, HostSteps, TaSteps, Replies, NoReply, Zeroed, Attestations, Allocations
<1>2. SessionInv /\ ResultInv
  BY DEF Init, SessionInv, ResultInv, Digested, CopiedOut, Saving, NoReply
<1>3. NoTornObject /\ SuccessMeansStored
  BY DEF Init, NoTornObject, SuccessMeansStored
<1> QED BY <1>1, <1>2, <1>3 DEF CoreInv

(* Inside the command the instance has the session of a host that waits    *)
(* for it, has an image and has been told nothing yet.                     *)
InCommand == tpc \notin {"absent", "ready"}

LEMMA Serving ==
  ASSUME CoreInv, InCommand
  PROVE  /\ session \in Hosts /\ session # NoHost
         /\ host[session] = "invoking" /\ Image \in Images /\ Hash[Image] \in Digests
         /\ reply[session].code = "none"
         /\ \A h \in Hosts : host[h] \in {"connected", "invoking", "returned"} <=> h = session
<1>1. session \in Hosts /\ session # NoHost
  BY DEF CoreInv, TypeOK, SessionInv, InCommand
<1>2. host[session] = "invoking"
  BY <1>1 DEF CoreInv, SessionInv, InCommand
<1> QED BY <1>1, <1>2 DEF CoreInv, TypeOK, SessionInv, ResultInv, Image

LEMMA LoadImageCore == ASSUME CoreInv, NEW h \in Hosts, LoadImage(h) PROVE CoreInv'
<1>1. TypeOK'
  BY DEF CoreInv, TypeOK, LoadImage, MoveHost, HostSteps, taVars
<1>2. host[h] = "start" /\ session # h
  BY DEF CoreInv, SessionInv, LoadImage, MoveHost
<1>3. SessionInv'
  BY <1>2 DEF CoreInv, TypeOK, SessionInv, LoadImage, MoveHost, taVars
<1>4. ResultInv'
  BY <1>2 DEF CoreInv, TypeOK, SessionInv, ResultInv, Image, Digested, CopiedOut, Saving, LoadImage, MoveHost, taVars
<1>5. NoTornObject' /\ SuccessMeansStored'
  BY <1>2 DEF CoreInv, TypeOK, NoTornObject, SuccessMeansStored, LoadImage, MoveHost, taVars
<1> QED BY <1>1, <1>3, <1>4, <1>5 DEF CoreInv

(* A step to the next one, and the last one. *)
LEMMA Going ==
  ASSUME CoreInv, InCommand, NEW to \in TaSteps \ {"absent", "ready"}, tpc' = to,
         UNCHANGED <<host, img, session>>
  PROVE  InCommand' /\ SessionInv'
BY Serving DEF CoreInv, TypeOK, SessionInv, InCommand

LEMMA Returning ==
  ASSUME CoreInv, InCommand, NEW c \in {"success", "error"}, Return(c), UNCHANGED <<img, session>>
  PROVE  /\ host' \in [Hosts -> HostSteps] /\ reply' \in [Hosts -> Replies] /\ tpc' = "ready"
         /\ SessionInv'
         /\ \A h \in Hosts : h # session => reply'[h] = reply[h] /\ host'[h] = host[h]
         /\ host'[session] = "returned"
         /\ reply'[session] = [code |-> c, att |-> reply[session].att, out |-> reply[session].out]
<1>1. session \in Hosts /\ reply[session] \in Replies
  BY Serving DEF CoreInv, TypeOK
<1>2. reply'[session] = [reply[session] EXCEPT !.code = c]
  BY <1>1 DEF Return, CoreInv, TypeOK
<1>3. reply'[session] = [code |-> c, att |-> reply[session].att, out |-> reply[session].out]
  BY <1>1, <1>2 DEF Replies
<1>4. reply'[session] \in Replies
  BY <1>1, <1>3 DEF Replies
<1>5. reply' \in [Hosts -> Replies]
  BY <1>1, <1>4 DEF Return, CoreInv, TypeOK
<1>6. host' \in [Hosts -> HostSteps] /\ tpc' = "ready" /\ host'[session] = "returned"
  BY <1>1 DEF Return, CoreInv, TypeOK, HostSteps
<1>7. \A h \in Hosts : h # session => reply'[h] = reply[h] /\ host'[h] = host[h]
  BY <1>1 DEF Return, CoreInv, TypeOK
<1>8. SessionInv'
  BY <1>6, <1>7, Serving DEF CoreInv, SessionInv
<1> QED BY <1>3, <1>5, <1>6, <1>7, <1>8

(* An error ends the command before it has stored anything of its own. *)
LEMMA ReturningError ==
  ASSUME CoreInv, InCommand, Return("error"), UNCHANGED <<img, session, res, crashes>>,
         heap' \in SUBSET Allocations, op_handle' \in Operations \cup {"null"},
         store' \in [Digests -> Images \cup {NoImage, Empty}], torn' \in SUBSET Digests,
         NoTornObject'
  PROVE  CoreInv'
<1>1. TypeOK' /\ SessionInv'
  BY Returning DEF CoreInv, TypeOK, TaSteps
<1>2. ResultInv'
  BY Returning, Serving DEF CoreInv, ResultInv, Digested, CopiedOut, Saving
<1>3. SuccessMeansStored'
  BY Returning, Serving DEF SuccessMeansStored
<1> QED BY <1>1, <1>2, <1>3 DEF CoreInv

LEMMA AllocCore ==
  ASSUME CoreInv, MallocImg \/ AllocDigestOp \/ AllocKey \/ AllocSignOp \/ MallocObjId
  PROVE  CoreInv'
<1> USE DEF MallocImg, AllocDigestOp, AllocKey, AllocSignOp, MallocObjId, Alloc
<1>1. InCommand /\ tpc \notin {"write", "delete"} /\ UNCHANGED <<img, session, res, store, torn, crashes>>
  BY DEF InCommand
<1>2. heap' \in SUBSET Allocations /\ op_handle' \in Operations \cup {"null"}
  BY DEF CoreInv, TypeOK, Allocations, Operations
<1>3. NoTornObject'
  BY <1>1 DEF CoreInv, NoTornObject
<1>4. CASE Return("error")
  BY <1>1, <1>2, <1>3, <1>4, ReturningError DEF CoreInv, TypeOK
<1>5. CASE ~ Return("error")
  <2>1. /\ tpc' \in TaSteps \ {"absent", "ready"} /\ UNCHANGED <<host, reply>>
    BY <1>5 DEF Go, TaSteps
  <2>2. SessionInv'
    BY <1>1, <2>1, Going
  <2>3. TypeOK'
    BY <1>1, <1>2, <2>1 DEF CoreInv, TypeOK
  <2>4. ResultInv'
    BY <1>1, <1>5, <2>1 DEF CoreInv, ResultInv, Image, Go, Digested, CopiedOut, Saving
  <2>5. SuccessMeansStored'
    BY <1>1, <2>1, Serving DEF CoreInv, SuccessMeansStored
  <2> QED BY <1>3, <2>2, <2>3, <2>4, <2>5 DEF CoreInv
<1> QED BY <1>4, <1>5

(* The steps that compute the attestation and give it to the host. *)
LEMMA ComputeCore == ASSUME CoreInv, Digest \/ GenerateKey \/ Sign PROVE CoreInv'
<1> USE DEF Digest, GenerateKey, Sign
<1>1. /\ InCommand /\ tpc \notin {"write", "delete"}
      /\ UNCHANGED <<img, session, heap, op_handle, store, torn, crashes>>
  BY DEF InCommand
<1>2. NoTornObject'
  BY <1>1 DEF CoreInv, NoTornObject, Go, Return
<1>3. CASE Return("error") /\ UNCHANGED res
  BY <1>1, <1>2, <1>3, ReturningError DEF CoreInv, TypeOK
<1>4. CASE ~ (Return("error") /\ UNCHANGED res)
  <2>1. tpc' \in TaSteps \ {"absent", "ready"} /\ UNCHANGED <<host, reply>>
    BY <1>4 DEF Go, TaSteps
  <2>2. SessionInv'
    BY <1>1, <2>1, Going
  <2>3. res' \in Attestations
    <3>1. CASE tpc = "digest"
      BY <1>1, <1>4, <3>1, Serving DEF CoreInv, TypeOK, Attestations
    <3>2. CASE tpc = "genKey"
      BY <1>1, <1>4, <3>2, Serving DEF CoreInv, TypeOK, Attestations
    <3>3. CASE tpc = "sign"
      <4>1. res.digest \in Digests
        BY <1>1, <3>3, Serving DEF CoreInv, ResultInv, Digested
      <4>2. <<res.digest, session>> \in Signatures
        BY <1>1, <4>1, Serving DEF Signatures
      <4> QED BY <3>3, <4>2 DEF CoreInv, TypeOK, Attestations
    <3> QED BY <3>1, <3>2, <3>3
  <2>4. TypeOK'
    BY <1>1, <2>1, <2>3 DEF CoreInv, TypeOK
  <2>5. ResultInv'
    <3>1. res'.digest = Hash[Image]
      BY <1>1, <1>4 DEF CoreInv, TypeOK, Attestations, ResultInv, Digested
    <3>2. tpc' \notin CopiedOut
      BY <1>1, <1>4 DEF Go, CopiedOut, Saving
    <3> QED BY <1>1, <2>1, <3>1, <3>2 DEF CoreInv, ResultInv, Image, CopiedOut, Saving
  <2>6. SuccessMeansStored'
    BY <1>1, <2>1, Serving DEF CoreInv, SuccessMeansStored
  <2> QED BY <1>2, <2>2, <2>4, <2>5, <2>6 DEF CoreInv
<1> QED BY <1>3, <1>4

LEMMA CopyOutCore == ASSUME CoreInv, CopyOut PROVE CoreInv'
<1>1. /\ InCommand /\ tpc = "copy" /\ tpc' = "objId"
      /\ UNCHANGED <<host, img, session, heap, op_handle, res, store, torn, crashes>>
  BY DEF InCommand, CopyOut
<1>2. SessionInv'
  BY <1>1, Going DEF TaSteps
<1>3. reply[session] \in Replies /\ res \in Attestations
  BY <1>1, Serving DEF CoreInv, TypeOK
<1>4. reply'[session] = [code |-> "none", att |-> res, out |-> Image]
  BY <1>1, <1>3, Serving DEF CoreInv, TypeOK, Replies, CopyOut
<1>5. reply' \in [Hosts -> Replies]
  <2>1. reply'[session] \in Replies
    BY <1>1, <1>3, <1>4, Serving DEF Replies
  <2> QED BY <1>1, <2>1, Serving DEF CoreInv, TypeOK, CopyOut
<1>6. \A h \in Hosts : h # session => reply'[h] = reply[h]
  BY <1>1, Serving DEF CoreInv, TypeOK, CopyOut
<1>7. TypeOK'
  BY <1>1, <1>5 DEF CoreInv, TypeOK, TaSteps
<1>8. ResultInv'
  <2>1. \A h \in Hosts : reply'[h].code = reply[h].code
    <3>1. reply'[session].code = reply[session].code
      BY <1>1, <1>4, Serving
    <3> QED BY <1>6, <3>1
  <2>2. reply'[session].out = Image /\ reply'[session].att.digest = Hash[Image]
    BY <1>1, <1>4 DEF CoreInv, ResultInv, Digested
  <2> QED BY <1>1, <2>1, <2>2 DEF CoreInv, ResultInv, Image, Digested
<1>9. NoTornObject'
  BY <1>1 DEF CoreInv, NoTornObject
<1>10. SuccessMeansStored'
  BY <1>1, <1>4, Serving DEF SuccessMeansStored
<1> QED BY <1>2, <1>7, <1>8, <1>9, <1>10 DEF CoreInv

(* The steps that save the image: the object named by its digest is empty  *)
(* until it is written.                                                    *)
LEMMA CreateObjectCore == ASSUME CoreInv, CreateObject PROVE CoreInv'
<1> USE DEF CreateObject
<1>1. InCommand /\ res.digest = Hash[Image]
  BY DEF InCommand, CoreInv, ResultInv, Digested, Saving
<1>2. CASE Return("error") /\ UNCHANGED <<store, torn>>
  <2>1. NoTornObject'
    BY <1>2 DEF CoreInv, NoTornObject
  <2> QED BY <1>1, <1>2, <2>1, ReturningError DEF CoreInv, TypeOK
<1>3. CASE /\ store' = [store EXCEPT ![res.digest] = Empty]
           /\ torn' = torn \ {res.digest}
           /\ Go("write")
  <2>1. SessionInv'
    BY <1>1, <1>3, Going DEF Go, TaSteps
  <2>2. TypeOK'
    BY <1>1, <1>3, Serving DEF CoreInv, TypeOK, Go, TaSteps
  <2>3. ResultInv'
    BY <1>3 DEF CoreInv, ResultInv, Image, Go, Digested, CopiedOut, Saving
  <2>4. NoTornObject'
    BY <1>1, <1>3 DEF CoreInv, TypeOK, NoTornObject, Go
  <2>5. SuccessMeansStored'
    BY <1>1, <1>3, Serving DEF CoreInv, SuccessMeansStored, Go
  <2> QED BY <2>1, <2>2, <2>3, <2>4, <2>5 DEF CoreInv
<1> QED BY <1>2, <1>3

LEMMA WriteObjectCore == ASSUME CoreInv, WriteObject PROVE CoreInv'
<1> USE DEF WriteObject, Go
<1>1. InCommand /\ res.digest = Hash[Image]
  BY DEF InCommand, CoreInv, ResultInv, Digested, Saving
<1>2. SessionInv'
  BY <1>1, Going DEF TaSteps
<1>3. TypeOK'
  BY <1>1, Serving DEF CoreInv, TypeOK, TaSteps
<1>4. ResultInv'
  BY <1>1, Serving DEF CoreInv, TypeOK, ResultInv, Image, Digested, CopiedOut, Saving
<1>5. NoTornObject'
  BY <1>1, Serving DEF CoreInv, TypeOK, NoTornObject
<1>6. SuccessMeansStored'
  BY <1>1, Serving DEF CoreInv, SuccessMeansStored
<1> QED BY <1>2, <1>3, <1>4, <1>5, <1>6 DEF CoreInv

LEMMA DeleteObjectCore == ASSUME CoreInv, DeleteObject PROVE CoreInv'
<1> USE DEF DeleteObject, Free
<1>1. InCommand /\ res.digest = Hash[Image]
  BY DEF InCommand, CoreInv, ResultInv, Digested, Saving
<1>2. res.digest \in Digests
  BY <1>1, Serving
<1>3. NoTornObject'
  BY <1>2 DEF CoreInv, TypeOK, NoTornObject, Return
<1> QED BY <1>1, <1>2, <1>3, ReturningError DEF CoreInv, TypeOK

LEMMA CloseObjectCore == ASSUME CoreInv, CloseObject PROVE CoreInv'
<1> USE DEF CloseObject, Free, Go
<1>1. InCommand
  BY DEF InCommand
<1>2. SessionInv' /\ TypeOK'
  BY <1>1, Going DEF CoreInv, TypeOK, TaSteps
<1>3. ResultInv'
  BY DEF CoreInv, ResultInv, Image, Digested, CopiedOut, Saving
<1>4. NoTornObject' /\ SuccessMeansStored'
  BY <1>1, Serving DEF CoreInv, NoTornObject, SuccessMeansStored
<1> QED BY <1>2, <1>3, <1>4 DEF CoreInv

(* The one step that tells a host of success: by then the host has the     *)
(* image and its digest, and the object is complete.                       *)
LEMMA FreeOperationCore == ASSUME CoreInv, FreeOperation PROVE CoreInv'
<1> USE DEF FreeOperation, Free
<1>1. InCommand
  BY DEF InCommand
<1>2. /\ reply[session].out = Image /\ reply[session].att.digest = Hash[Image]
      /\ store[Hash[Image]] = Image
  BY DEF CoreInv, ResultInv, CopiedOut
<1>3. TypeOK' /\ SessionInv'
  BY <1>1, Returning DEF CoreInv, TypeOK, TaSteps
<1>4. ResultInv'
  BY <1>1, Returning, Serving DEF CoreInv, ResultInv, Digested, CopiedOut, Saving
<1>5. NoTornObject'
  BY DEF CoreInv, NoTornObject
<1>6. SuccessMeansStored'
  BY <1>1, <1>2, Returning, Serving DEF SuccessMeansStored, Image
<1> QED BY <1>3, <1>4, <1>5, <1>6 DEF CoreInv

-----------------------------------------------------------------------------
(* The steps of the hosts, and the crashes. *)

LEMMA GiveUpCore == ASSUME CoreInv, NEW h \in Hosts, GiveUp(h) PROVE CoreInv'
<1> USE DEF GiveUp, MoveHost, taVars
<1>1. host[h] \in {"start", "loaded"} /\ session # h
  BY DEF CoreInv, SessionInv
<1>2. TypeOK'
  BY DEF CoreInv, TypeOK, HostSteps
<1>3. SessionInv'
  BY <1>1 DEF CoreInv, TypeOK, SessionInv
<1>4. ResultInv'
  BY <1>1 DEF CoreInv, TypeOK, ResultInv, Image
<1>5. NoTornObject' /\ SuccessMeansStored'
  BY DEF CoreInv, NoTornObject, SuccessMeansStored
<1> QED BY <1>2, <1>3, <1>4, <1>5 DEF CoreInv

LEMMA OpenSessionCore == ASSUME CoreInv, NEW h \in Hosts, OpenSession(h) PROVE CoreInv'
<1> USE DEF OpenSession, MoveHost
<1>1. host[h] = "loaded" /\ h # NoHost /\ tpc = "absent"
  BY DEF CoreInv, SessionInv
<1>2. TypeOK'
  BY DEF CoreInv, TypeOK, HostSteps, TaSteps, Zeroed, Attestations, Allocations
<1>3. SessionInv'
  BY <1>1 DEF CoreInv, TypeOK, SessionInv
<1>4. ResultInv'
  BY <1>1 DEF CoreInv, TypeOK, ResultInv, Digested, CopiedOut, Saving
<1>5. NoTornObject' /\ SuccessMeansStored'
  BY <1>1 DEF CoreInv, NoTornObject, SuccessMeansStored, ResultInv
<1> QED BY <1>2, <1>3, <1>4, <1>5 DEF CoreInv

LEMMA InvokeCore == ASSUME CoreInv, NEW h \in Hosts, Invoke(h) PROVE CoreInv'
<1> USE DEF Invoke, MoveHost
<1>1. host[h] = "connected" /\ session = h /\ tpc = "ready"
  BY DEF CoreInv, SessionInv, TypeOK
<1>2. TypeOK'
  BY DEF CoreInv, TypeOK, HostSteps, TaSteps
<1>3. SessionInv'
  BY <1>1 DEF CoreInv, TypeOK, SessionInv
<1>4. ResultInv'
  BY <1>1 DEF CoreInv, TypeOK, ResultInv, Digested, CopiedOut, Saving
<1>5. NoTornObject' /\ SuccessMeansStored'
  BY <1>1 DEF CoreInv, NoTornObject, SuccessMeansStored
<1> QED BY <1>2, <1>3, <1>4, <1>5 DEF CoreInv

(* Without an instance there is no session, and its memory is gone. *)
LEMMA Destroyed ==
  ASSUME CoreInv, DestroyInstance, host' \in [Hosts -> HostSteps], UNCHANGED <<img, reply>>,
         crashes' \in 0 .. MaxCrashes, torn' \in SUBSET Digests, UNCHANGED store,
         \A h \in Hosts : \/ host'[h] = "failed"
                          \/ host'[h] = "done" /\ host[h] \in {"returned", "done"}
                          \/ host'[h] = host[h]
                               /\ host[h] \notin {"connected", "invoking", "returned"},
         NoTornObject'
  PROVE  CoreInv'
<1> USE DEF DestroyInstance
<1>1. TypeOK'
  BY DEF CoreInv, TypeOK, TaSteps, Zeroed, Attestations
<1>2. SessionInv'
  BY DEF CoreInv, SessionInv
<1>3. ResultInv'
  BY DEF CoreInv, ResultInv, Digested, CopiedOut, Saving
<1>4. SuccessMeansStored'
  BY DEF SuccessMeansStored
<1> QED BY <1>1, <1>2, <1>3, <1>4 DEF CoreInv

LEMMA CloseSessionCore == ASSUME CoreInv, NEW h \in Hosts, CloseSession(h) PROVE CoreInv'
<1> USE DEF CloseSession, MoveHost
<1>1. session = h /\ tpc = "ready"
  BY DEF CoreInv, SessionInv, TypeOK
<1>2. host' \in [Hosts -> HostSteps]
  BY DEF CoreInv, TypeOK, HostSteps
<1>3. \A k \in Hosts : \/ host'[k] = "failed"
                       \/ host'[k] = "done" /\ host[k] \in {"returned", "done"}
                       \/ host'[k] = host[k]
                            /\ host[k] \notin {"connected", "invoking", "returned"}
  BY <1>1 DEF CoreInv, TypeOK, SessionInv
<1>4. NoTornObject'
  BY <1>1 DEF CoreInv, NoTornObject
<1> QED BY <1>2, <1>3, <1>4, Destroyed DEF CoreInv, TypeOK

LEMMA CrashCore == ASSUME CoreInv, Panic \/ PowerLoss PROVE CoreInv'
<1> USE DEF Crash
<1>1. host' \in [Hosts -> HostSteps]
  BY DEF Panic, PowerLoss, CoreInv, TypeOK, HostSteps
<1>2. \A k \in Hosts : \/ host'[k] = "failed"
                       \/ host'[k] = "done" /\ host[k] \in {"returned", "done"}
                       \/ host'[k] = host[k]
                            /\ host[k] \notin {"connected", "invoking", "returned"}
  <2>1. CASE Panic
    BY <2>1 DEF Panic, CoreInv, TypeOK, SessionInv
  <2>2. CASE PowerLoss
    BY <2>2 DEF PowerLoss, CoreInv, TypeOK, HostSteps
  <2> QED BY <2>1, <2>2
<1>3. crashes' \in 0 .. MaxCrashes /\ torn' \in SUBSET Digests
  BY DEF Panic, PowerLoss, CoreInv, TypeOK
<1>4. NoTornObject'
  BY DEF Panic, PowerLoss, CoreInv, NoTornObject
<1> QED BY <1>1, <1>2, <1>3, <1>4, Destroyed DEF Panic, PowerLoss

LEMMA NextCore == CoreInv /\ [Next]_vars => CoreInv'
<1> SUFFICES ASSUME CoreInv, [Next]_vars PROVE CoreInv'
  OBVIOUS
<1>1. ASSUME NEW h \in Hosts, HostNext(h) PROVE CoreInv'
  BY <1>1, LoadImageCore, GiveUpCore, OpenSessionCore, InvokeCore, CloseSessionCore DEF HostNext
<1>2. CASE Command
  BY <1>2, AllocCore, ComputeCore, CopyOutCore, CreateObjectCore, WriteObjectCore,
     DeleteObjectCore, CloseObjectCore, FreeOperationCore DEF Command
<1>3. CASE Panic \/ PowerLoss
  BY <1>3, CrashCore
<1>4. CASE UNCHANGED vars
  BY <1>4 DEF vars, CoreInv, TypeOK, SessionInv, ResultInv, NoTornObject,
     SuccessMeansStored, Image
<1> QED BY <1>1, <1>2, <1>3, <1>4 DEF Next

-----------------------------------------------------------------------------
(* What is allocated. *)

LEMMA InitHeap == Init => HeapInv /\ LeaksPerInvocation
BY DEF Init, HeapInv, LeaksPerInvocation, Digested, Saving

(* A step to the next one of the command. *)
LEMMA GoingHeap == ASSUME tpc' # "ready" PROVE LeaksPerInvocation'
BY DEF LeaksPerInvocation

LEMMA ReturningHeap ==
  ASSUME CoreInv, InCommand, NEW c \in {"success", "error"}, Return(c), UNCHANGED <<img, session>>,
         "digestOp" \in heap' /\ op_handle' # "digestOp" => "key" \in heap',
         "signOp" \in heap' => op_handle' = "signOp",
         "objId" \in heap' => c = "error" /\ reply[session].out = Image,
         c = "success" => {"sess", "img"} \subseteq heap' /\ heap' \cap {"objId", "signOp"} = {},
         c = "success" => ("digestOp" \in heap' <=> op_handle' # "digestOp")
  PROVE  HeapInv' /\ LeaksPerInvocation'
<1>1. /\ tpc' = "ready" /\ host'[session] = "returned" /\ session' = session /\ Image' = Image
      /\ reply'[session].code = c /\ reply'[session].out = reply[session].out
  BY Returning DEF Image
<1>2. HeapInv'
  BY <1>1 DEF HeapInv, Digested, Saving
<1>3. LeaksPerInvocation'
  BY <1>1 DEF LeaksPerInvocation
<1> QED BY <1>2, <1>3

LEMMA CommandHeap ==
  CoreInv /\ HeapInv /\ LeaksPerInvocation /\ Command => HeapInv' /\ LeaksPerInvocation'
<1>0. SUFFICES ASSUME CoreInv, HeapInv, Command PROVE HeapInv' /\ LeaksPerInvocation'
  OBVIOUS
<1>1. InCommand /\ UNCHANGED <<img, session>>
  BY <1>0 DEF InCommand, Command, MallocImg, AllocDigestOp, Digest, AllocKey, GenerateKey,
     AllocSignOp, Sign, CopyOut, MallocObjId, CreateObject, WriteObject, DeleteObject,
     CloseObject, FreeOperation
<1>2. tpc \in CopiedOut => reply[session].out = Image
  BY <1>0 DEF CoreInv, ResultInv
<1>3. heap \subseteq Allocations /\ op_handle \in Operations \cup {"null"}
  BY <1>0 DEF CoreInv, TypeOK
<1> USE DEF Digested, Saving
<1>4. CASE MallocImg
  <2>1. CASE Alloc("img") /\ Go("digestOp")
    BY <1>0, <1>4, <2>1, GoingHeap DEF HeapInv, MallocImg, Alloc, Go
  <2>2. CASE Return("error") /\ UNCHANGED heap
    <3>1. heap' = {"sess"}
      BY <1>0, <1>4, <2>2 DEF HeapInv, MallocImg
    <3> QED BY <1>0, <1>1, <2>2, <3>1, ReturningHeap
  <2> QED BY <1>4, <2>1, <2>2 DEF MallocImg
<1>5. CASE AllocDigestOp
  <2>0. heap = {"sess", "img"}
    BY <1>0, <1>5 DEF HeapInv, AllocDigestOp
  <2>1. CASE Alloc("digestOp") /\ op_handle' = "digestOp" /\ Go("digest")
    BY <2>0, <2>1, GoingHeap DEF HeapInv, Alloc, Go
  <2>2. CASE op_handle' = "null" /\ Return("error") /\ UNCHANGED heap
    BY <1>0, <1>1, <2>0, <2>2, ReturningHeap
  <2> QED BY <1>5, <2>1, <2>2 DEF AllocDigestOp
<1>6. CASE Digest
  <2>0. UNCHANGED <<heap, op_handle>> /\ tpc = "digest"
    BY <1>6 DEF Digest
  <2>1. CASE Go("key")
    BY <1>0, <2>0, <2>1, GoingHeap DEF HeapInv, Go
  <2>2. CASE Return("error")
    <3>1. "objId" \notin heap' /\ "signOp" \notin heap' /\ op_handle' = "digestOp"
      BY <1>0, <2>0 DEF HeapInv
    <3> QED BY <1>0, <1>1, <2>2, <3>1, ReturningHeap
  <2> QED BY <1>6, <2>1, <2>2 DEF Digest
<1>7. CASE AllocKey \/ GenerateKey
  BY <1>0, <1>7, GoingHeap DEF HeapInv, AllocKey, GenerateKey, Alloc, Go
<1>8. CASE AllocSignOp \/ Sign \/ CopyOut
  <2>1. /\ tpc \in {"signOp", "sign", "copy"} /\ tpc' \in {"sign", "copy", "objId"}
        /\ \/ /\ tpc = "signOp" /\ tpc' = "sign"
              /\ heap' = heap \cup {"signOp"} /\ op_handle' = "signOp"
           \/ heap' = heap /\ op_handle' \in {op_handle, "null"} /\ tpc = "signOp" /\ tpc' = "copy"
           \/ heap' = heap /\ op_handle' = op_handle /\ tpc \in {"sign", "copy"}
                 /\ tpc' \in {"copy", "objId"}
    BY <1>8 DEF AllocSignOp, Sign, CopyOut, Alloc, Go
  <2> QED BY <1>0, <2>1, GoingHeap DEF HeapInv
<1>9. CASE MallocObjId \/ CreateObject
  <2>0. /\ tpc \in {"objId", "create"} /\ op_handle' = op_handle
        /\ heap' \in {heap, heap \cup {"objId"}}
        /\ heap' = heap \/ tpc' = "create"
        /\ tpc' \in {"create", "write", "ready"}
    BY <1>9 DEF MallocObjId, CreateObject, Alloc, Go, Return
  <2>1. CASE tpc' \in {"create", "write"}
    BY <1>0, <2>0, <2>1, GoingHeap DEF HeapInv
  <2>2. CASE tpc' = "ready"
    <3>1. Return("error")
      BY <1>9, <2>2 DEF MallocObjId, CreateObject, Go
    <3>2. reply[session].out = Image
      BY <1>2, <2>0 DEF CopiedOut
    <3>3. heap' = heap
      BY <2>0, <2>2
    <3>4. /\ "digestOp" \in heap' /\ op_handle' # "digestOp" => "key" \in heap'
          /\ "signOp" \in heap' => op_handle' = "signOp"
      BY <1>0, <2>0, <3>3 DEF HeapInv
    <3> QED BY <1>0, <1>1, <3>1, <3>2, <3>4, ReturningHeap
  <2> QED BY <2>0, <2>1, <2>2
<1>10. CASE WriteObject
  BY <1>0, <1>10, GoingHeap DEF HeapInv, WriteObject, Go
<1>11. CASE DeleteObject
  <2>1. heap' = heap \ {"objId"} /\ op_handle' = op_handle /\ Return("error")
    BY <1>11 DEF DeleteObject, Free
  <2>2. /\ "digestOp" \in heap' /\ op_handle' # "digestOp" => "key" \in heap'
        /\ "signOp" \in heap' => op_handle' = "signOp"
        /\ "objId" \notin heap'
    BY <1>0, <2>1 DEF HeapInv
  <2> QED BY <1>0, <1>1, <2>1, <2>2, ReturningHeap
<1>12. CASE CloseObject
  <2>1. /\ heap' = heap \ {"objId"} /\ op_handle' = op_handle
        /\ tpc = "close" /\ tpc' = "free"
    BY <1>12 DEF CloseObject, Free, Go
  <2> QED BY <1>0, <2>1, GoingHeap DEF HeapInv
<1>13. CASE FreeOperation
  <2>1. /\ heap' = heap \ {op_handle} /\ op_handle' = op_handle
        /\ tpc = "free" /\ Return("success")
    BY <1>13 DEF FreeOperation, Free
  <2>2. /\ {"sess", "img", "digestOp"} \subseteq heap /\ "objId" \notin heap
        /\ "digestOp" \in heap /\ op_handle # "digestOp" => "key" \in heap
        /\ "signOp" \in heap => op_handle = "signOp"
    BY <1>0, <2>1 DEF HeapInv
  <2>3. /\ "digestOp" \in heap' /\ op_handle' # "digestOp" => "key" \in heap'
        /\ {"sess", "img"} \subseteq heap' /\ heap' \cap {"objId", "signOp"} = {}
    BY <1>3, <2>1, <2>2 DEF Operations
  <2>4. "digestOp" \in heap' <=> op_handle' # "digestOp"
    BY <2>1, <2>2
  <2>5. "signOp" \notin heap' /\ "objId" \notin heap'
    BY <2>3
  <2> QED BY <1>0, <1>1, <2>1, <2>3, <2>4, <2>5, ReturningHeap
<1> QED BY <1>0, <1>4, <1>5, <1>6, <1>7, <1>8, <1>9, <1>10, <1>11, <1>12, <1>13 DEF Command

LEMMA HostHeap ==
  ASSUME CoreInv, HeapInv, LeaksPerInvocation, NEW h \in Hosts, HostNext(h)
  PROVE  HeapInv' /\ LeaksPerInvocation'
<1>1. CASE LoadImage(h) \/ GiveUp(h)
  <2>1. /\ UNCHANGED <<session, tpc, heap, op_handle, reply>> /\ host[h] \in {"start", "loaded"}
        /\ \A k \in Hosts : k # h => host'[k] = host[k] /\ img'[k] = img[k]
    BY <1>1 DEF LoadImage, GiveUp, MoveHost, taVars, CoreInv, TypeOK
  <2>2. session # h /\ (session # NoHost => session \in Hosts)
    BY <2>1 DEF CoreInv, SessionInv, TypeOK
  <2>3. HeapInv'
    BY <2>1 DEF HeapInv
  <2>4. LeaksPerInvocation'
    BY <2>1, <2>2 DEF LeaksPerInvocation, Image
  <2> QED BY <2>3, <2>4
<1>2. CASE OpenSession(h)
  <2>1. tpc = "absent" /\ session = NoHost /\ h # NoHost
    BY <1>2 DEF OpenSession, CoreInv, SessionInv, TypeOK
  <2>2. /\ heap' = {"sess"} /\ tpc' = "ready" /\ session' = h /\ host'[h] = "connected"
        /\ reply' = reply /\ reply[h].code = "none" /\ op_handle' = "null"
    BY <1>2, <2>1 DEF OpenSession, MoveHost, HeapInv, CoreInv, TypeOK, ResultInv
  <2>3. HeapInv'
    BY <2>2 DEF HeapInv, Digested, Saving
  <2>4. LeaksPerInvocation'
    BY <2>2 DEF LeaksPerInvocation
  <2> QED BY <2>3, <2>4
<1>3. CASE Invoke(h)
  <2>1. session = h /\ session # NoHost /\ tpc = "ready" /\ host[h] = "connected"
    BY <1>3 DEF Invoke, MoveHost, CoreInv, SessionInv, TypeOK
  <2>2. heap = {"sess"}
    BY <2>1 DEF LeaksPerInvocation
  <2>3. tpc' = "malloc" /\ UNCHANGED <<heap, op_handle>>
    BY <1>3 DEF Invoke
  <2> QED BY <2>2, <2>3, GoingHeap DEF HeapInv, Digested, Saving
<1>4. CASE CloseSession(h)
  BY <1>4 DEF CloseSession, DestroyInstance, HeapInv, LeaksPerInvocation, Digested, Saving
<1> QED BY <1>1, <1>2, <1>3, <1>4 DEF HostNext

LEMMA NextIInv == IInv /\ [Next]_vars => IInv'
<1> SUFFICES ASSUME IInv, [Next]_vars PROVE HeapInv' /\ LeaksPerInvocation'
  BY NextCore DEF IInv
<1>0. CoreInv /\ HeapInv /\ LeaksPerInvocation
  BY DEF IInv
<1>1. ASSUME NEW h \in Hosts, HostNext(h) PROVE HeapInv' /\ LeaksPerInvocation'
  BY <1>0, <1>1, HostHeap
<1>2. CASE Command
  BY <1>0, <1>2, CommandHeap
<1>3. CASE Panic \/ PowerLoss
  <2>1. DestroyInstance
    BY <1>3 DEF Panic, PowerLoss
  <2> QED BY <2>1 DEF DestroyInstance, HeapInv, LeaksPerInvocation, Digested, Saving
<1>4. CASE UNCHANGED vars
  BY <1>0, <1>4 DEF vars, HeapInv, LeaksPerInvocation, Image
<1> QED BY <1>1, <1>2, <1>3, <1>4 DEF Next

(* IInv is true in every state of the application and its hosts. *)
THEOREM Invariance == Spec => []IInv
<1>1. Init => IInv
  BY InitCore, InitHeap DEF IInv
<1> QED BY <1>1, NextIInv, PTL DEF Spec

(* What an invocation leaves allocated while the session is open is known  *)
(* on every path, for any image and whichever calls fail.                  *)
THEOREM LeaksKnown == Spec => []LeaksPerInvocation
<1>1. IInv => LeaksPerInvocation
  BY DEF IInv
<1> QED BY <1>1, Invariance, PTL

(* Every variable keeps its type. *)
THEOREM TypeCorrect == Spec => []TypeOK
<1>1. IInv => TypeOK
  BY DEF IInv, CoreInv
<1> QED BY <1>1, Invariance, PTL

(* What a host is told to be stored is stored, under the digest it was     *)
(* given: FreeOperation is reached only through a complete write.          *)
THEOREM SuccessStored == Spec => []SuccessMeansStored
<1>1. IInv => SuccessMeansStored
  BY DEF IInv, CoreInv
<1> QED BY <1>1, Invariance, PTL

(* An object is complete, being saved, or left by a crash or a removal     *)
(* that failed, with any number of crashes.                                *)
THEOREM NoneTorn == Spec => []NoTornObject
<1>1. IInv => NoTornObject
  BY DEF IInv, CoreInv
<1> QED BY <1>1, Invariance, PTL

-----------------------------------------------------------------------------
(* The refinement of TeeService: the session is the holder, and a host is  *)
(* told the code of its reply or, when it has failed, an error.            *)

LEMMA SameOutcome ==
  ASSUME session' = session, \A h \in Hosts : Outcome(h)' = Outcome(h)
  PROVE  UNCHANGED TS!teeVars
BY DEF TS!teeVars

(* The steps of the command before its last are internal. *)
LEMMA GoingIsInternal ==
  ASSUME CoreInv, InCommand, UNCHANGED <<host, session>>,
         reply' = reply \/ CopyOut
  PROVE  UNCHANGED TS!teeVars
<1>1. CASE UNCHANGED reply
  BY <1>1, SameOutcome DEF Outcome
<1>2. CASE CopyOut
  <2>1. session \in Hosts /\ reply \in [Hosts -> Replies]
    BY Serving DEF CoreInv, TypeOK
  <2>2. \A h \in Hosts : reply'[h].code = reply[h].code
    BY <1>2, <2>1 DEF CopyOut, Replies
  <2> QED BY <2>2, SameOutcome DEF Outcome
<1> QED BY <1>1, <1>2

LEMMA ReturningReplies ==
  ASSUME CoreInv, InCommand, NEW c \in {"success", "error"}, Return(c), UNCHANGED <<img, session>>
  PROVE  TS!Next
<1>1. session \in Hosts /\ Outcome(session) = "none"
  BY Serving DEF Outcome
<1>2. Outcome(session)' = c
  BY Returning DEF Outcome
<1>3. \A h \in Hosts : h # session => Outcome(h)' = Outcome(h)
  BY Returning DEF Outcome
<1>4. TS!Tell(session, c)
  BY <1>1, <1>2, <1>3 DEF TS!Tell
<1>5. TS!Reply(session)
  BY <1>4 DEF TS!Reply
<1> QED BY <1>1, <1>5 DEF TS!Next

LEMMA CommandImplements ==
  ASSUME CoreInv, Command PROVE TS!Next \/ UNCHANGED TS!teeVars
<1>1. InCommand /\ UNCHANGED <<img, session>>
  BY DEF InCommand, Command, MallocImg, AllocDigestOp, Digest, AllocKey, GenerateKey, AllocSignOp, Sign,
     CopyOut, MallocObjId, CreateObject, WriteObject, DeleteObject, CloseObject, FreeOperation
<1>2. CASE CopyOut
  BY <1>1, <1>2, GoingIsInternal DEF CopyOut
<1>3. CASE Return("error") \/ Return("success")
  BY <1>1, <1>3, ReturningReplies
<1>4. CASE UNCHANGED <<host, reply>>
  BY <1>1, <1>4, GoingIsInternal
<1> QED BY <1>2, <1>3, <1>4
     DEF Command, MallocImg, AllocDigestOp, Digest, AllocKey, GenerateKey, AllocSignOp, Sign,
     MallocObjId, CreateObject, WriteObject, DeleteObject, CloseObject, FreeOperation, Go

LEMMA HostImplements ==
  ASSUME CoreInv, NEW h \in Hosts, HostNext(h) PROVE TS!Next \/ UNCHANGED TS!teeVars
<1>0. host \in [Hosts -> HostSteps] /\ reply \in [Hosts -> Replies]
  BY DEF CoreInv, TypeOK
<1>1. CASE LoadImage(h)
  BY <1>0, <1>1, SameOutcome DEF LoadImage, MoveHost, Outcome, taVars
<1>2. CASE GiveUp(h)
  <2>1. /\ host[h] \in {"start", "loaded"} /\ session # h
        /\ reply[h].code = "none"
    BY <1>2 DEF GiveUp, MoveHost, CoreInv, SessionInv, ResultInv
  <2>2. /\ Outcome(h) = "none" /\ Outcome(h)' = "error"
        /\ \A k \in Hosts : k # h => Outcome(k)' = Outcome(k)
    BY <1>0, <1>2, <2>1 DEF GiveUp, MoveHost, Outcome
  <2>3. TS!Refuse(h)
    BY <1>2, <2>1, <2>2 DEF TS!Refuse, TS!Tell, GiveUp, taVars
  <2> QED BY <2>3 DEF TS!Next
<1>3. CASE OpenSession(h)
  <2>1. reply[h].code = "none" /\ host[h] = "loaded"
    BY <1>3 DEF OpenSession, MoveHost, CoreInv, ResultInv
  <2>2. Outcome(h) = "none" /\ \A k \in Hosts : Outcome(k)' = Outcome(k)
    BY <1>0, <1>3, <2>1 DEF OpenSession, MoveHost, Outcome
  <2>3. TS!Connect(h)
    BY <1>3, <2>2 DEF TS!Connect, OpenSession
  <2> QED BY <2>3 DEF TS!Next
<1>4. CASE Invoke(h)
  BY <1>0, <1>4, SameOutcome DEF Invoke, MoveHost, Outcome
<1>5. CASE CloseSession(h)
  <2>1. session = h /\ session' = NoHost /\ host[h] \in {"connected", "returned"}
    BY <1>5 DEF CloseSession, MoveHost, DestroyInstance, CoreInv, SessionInv
  <2>2. \A k \in Hosts : k # h => Outcome(k)' = Outcome(k)
    BY <1>0, <1>5 DEF CloseSession, MoveHost, Outcome
  <2>3. Outcome(h) = reply[h].code /\ reply[h].code \in {"none", "success", "error"}
    BY <1>0, <2>1 DEF Outcome, Replies
  <2>4. /\ Outcome(h)' \in {reply[h].code, "error"}
        /\ reply[h].code = "success" => host[h] = "returned"
    BY <1>0, <1>5, <2>1 DEF CloseSession, MoveHost, Outcome, CoreInv, ResultInv
  <2>5. reply[h].code = "success" => Outcome(h)' = "success"
    BY <1>0, <1>5, <2>1, <2>4 DEF CloseSession, MoveHost, Outcome
  <2>6. TS!Disconnect(h)
    <3>1. CASE Outcome(h)' = Outcome(h)
      BY <2>1, <2>2, <3>1 DEF TS!Disconnect
    <3>2. CASE Outcome(h) = "none" /\ Outcome(h)' = "error"
      BY <2>1, <2>2, <3>2 DEF TS!Disconnect, TS!Tell
    <3> QED BY <2>3, <2>4, <2>5, <3>1, <3>2
  <2> QED BY <2>6 DEF TS!Next
<1> QED BY <1>1, <1>2, <1>3, <1>4, <1>5 DEF HostNext

LEMMA CrashImplements == ASSUME CoreInv, Panic \/ PowerLoss PROVE TS!Next
<1>0. host \in [Hosts -> HostSteps] /\ session' = NoHost /\ UNCHANGED reply
  BY DEF CoreInv, TypeOK, Panic, PowerLoss, DestroyInstance, Crash
<1> DEFINE S == {h \in Hosts : host'[h] = "failed"}
<1>1. \A h \in Hosts : host'[h] # "failed" => host'[h] = host[h]
  BY <1>0 DEF Panic, PowerLoss
<1>2. \A h \in Hosts : Outcome(h)' = IF h \in S THEN "error" ELSE Outcome(h)
  BY <1>0, <1>1 DEF Outcome
<1>3. TS!Interrupt
  <2> DEFINE Now == [h \in Hosts |-> Outcome(h)]
  <2>1. Now' = [h \in Hosts |-> IF h \in S THEN "error" ELSE Now[h]]
    BY <1>2
  <2>2. S \in SUBSET Hosts
    OBVIOUS
  <2> HIDE DEF S
  <2> QED BY <1>0, <2>1, <2>2 DEF TS!Interrupt
<1> QED BY <1>3 DEF TS!Next

(* The application implements the service with one session: every step of  *)
(* the hosts, the command and the crashes is one of its steps or none.     *)
THEOREM Implementation == Spec => ImplementsTeeService
<1>1. Init => TS!Init
  BY DEF Init, TS!Init, Outcome, NoReply
<1>2. IInv /\ [Next]_vars => [TS!Next]_(TS!teeVars)
  <2> SUFFICES ASSUME CoreInv, [Next]_vars PROVE TS!Next \/ UNCHANGED TS!teeVars
    BY DEF IInv
  <2>1. CASE UNCHANGED vars
    BY <2>1, SameOutcome DEF vars, Outcome
  <2> QED BY <2>1, HostImplements, CommandImplements, CrashImplements DEF Next
<1> QED BY <1>1, <1>2, Invariance, PTL DEF Spec, ImplementsTeeService, TS!Spec
=============================================================================
