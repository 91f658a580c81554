------------------------------ MODULE VideoTEE ------------------------------
(***************************************************************************)
(* The video_tee programs (src/videoTEE/host/main.c) and the trusted       *)
(* application they invoke (src/videoTEE/ta/video_tee_ta.c).               *)
(*                                                                         *)
(* A host loads an image, opens a session, invokes the one command, and    *)
(* exits, which closes the session.  The trusted application has a single  *)
(* instance that accepts a single session: a second host is refused.  The  *)
(* command converts the image, hashes it, signs the hash with a key pair   *)
(* made for this invocation, and stores the image under its hash.  Every   *)
(* call of the TEE API can fail; power can fail, or the instance panic,    *)
(* between any two of them.  Storage survives both.                        *)
(*                                                                         *)
(* An image is identified with its conversion.  Two images that begin with *)
(* the same two pixels have the same digest: create_digest is given four   *)
(* bytes, and a pixel has three equal ones.                                *)
(***************************************************************************)
EXTENDS Naturals, FiniteSets, Functions

CONSTANTS
  Hosts,        \* runs of the video_tee program
  Images,       \* converted images
  Digests,
  Hash,         \* Hash[i]: the digest of the first four bytes of image i
  MaxCrashes,   \* bound on power failures and panics
  NoHost, NoImage, Empty, NoDigest, NoSignature

ASSUME HashAssumption == Hash \in [Images -> Digests]
ASSUME BoundAssumption == MaxCrashes \in Nat

ASSUME NullAssumption ==
  /\ NoHost \notin Hosts
  /\ NoDigest \notin Digests
  /\ {NoImage, Empty} \cap Images = {}
  /\ NoImage # Empty

(* signed_res_t.  A key pair is named after the host it was made for.      *)
Signatures   == Digests \X Hosts
Attestations == [digest    : Digests \cup {NoDigest},
                 signature : Signatures \cup {NoSignature},
                 pub_key   : Hosts \cup {NoHost}]
Zeroed == [digest |-> NoDigest, signature |-> NoSignature, pub_key |-> NoHost]

VARIABLES
  host,      \* host[h]: where host h is
  img,       \* img[h]: the image host h has loaded
  reply,     \* reply[h]: what the invocation gave host h
  session,   \* the host whose session the instance has, or NoHost
  tpc,       \* the next step of the instance
  heap,      \* what the instance has allocated and not freed
  op_handle, \* sess_ctx->op_handle: the operation it refers to
  res,       \* sess_ctx->res
  store,     \* store[d]: the object with identifier d
  torn,      \* objects that a crash or an ignored error left empty (history)
  crashes

hostVars == <<host, img, reply>>
taVars   == <<session, tpc, heap, op_handle, res>>
vars == <<host, img, reply, session, tpc, heap, op_handle, res, store, torn, crashes>>

HostSteps == {"start", "loaded", "connected", "invoking", "returned", "done", "failed"}
TaSteps   == {"absent", "ready", "malloc", "digestOp", "digest", "key", "genKey", "signOp",
              "sign", "copy", "objId", "create", "write", "delete", "close", "free"}
Operations  == {"digestOp", "signOp"}
Allocations == Operations \cup {"sess", "img", "key", "objId"}
Replies     == [code : {"none", "success", "error"},
                att  : Attestations, out : Images \cup {NoImage}]
NoReply     == [code |-> "none", att |-> Zeroed, out |-> NoImage]

(* Every variable keeps its type: in particular only a digest that was     *)
(* computed is signed or names an object.                                  *)
TypeOK ==
  /\ host \in [Hosts -> HostSteps]
  /\ img \in [Hosts -> Images \cup {NoImage}]
  /\ reply \in [Hosts -> Replies]
  /\ session \in Hosts \cup {NoHost}
  /\ tpc \in TaSteps
  /\ heap \in SUBSET Allocations
  /\ op_handle \in Operations \cup {"null"}
  /\ res \in Attestations
  /\ store \in [Digests -> Images \cup {NoImage, Empty}]
  /\ torn \in SUBSET Digests
  /\ crashes \in 0 .. MaxCrashes

Init ==
  /\ host = [h \in Hosts |-> "start"]
  /\ img = [h \in Hosts |-> NoImage]
  /\ reply = [h \in Hosts |-> NoReply]
  /\ session = NoHost /\ tpc = "absent" /\ heap = {}
  /\ op_handle = "null" /\ res = Zeroed
  /\ store = [d \in Digests |-> NoImage]
  /\ torn = {} /\ crashes = 0

-----------------------------------------------------------------------------
(* The host. *)

MoveHost(h, from, to) == host[h] = from /\ host' = [host EXCEPT ![h] = to]

LoadImage(h) ==
  /\ MoveHost(h, "start", "loaded")
  /\ \E i \in Images : img' = [img EXCEPT ![h] = i]
  /\ UNCHANGED <<reply, taVars, store, torn, crashes>>

(* errx before a session is open: the image or the context cannot be had,  *)
(* or the session is refused because the instance has one already.         *)
GiveUp(h) ==
  /\ \/ MoveHost(h, "start", "failed")
     \/ MoveHost(h, "loaded", "failed")
  /\ UNCHANGED <<img, reply, taVars, store, torn, crashes>>

(* TEEC_OpenSession: creates the instance and its session structure. *)
BugManySessions(h) ==     \* TA_FLAGS does not limit the sessions
  /\ MoveHost(h, "loaded", "connected")
  /\ session' = h /\ tpc' = "ready"
  /\ heap' = heap \cup {"sess"}
  /\ op_handle' = "null" /\ res' = Zeroed
  /\ UNCHANGED <<img, reply, store, torn, crashes>>

OpenSession(h) ==
  /\ session = NoHost
  /\ MoveHost(h, "loaded", "connected")
  /\ session' = h /\ tpc' = "ready"
  /\ heap' = heap \cup {"sess"}
  /\ op_handle' = "null" /\ res' = Zeroed
  /\ UNCHANGED <<img, reply, store, torn, crashes>>

(* TEEC_InvokeCommand *)
Invoke(h) ==
  /\ MoveHost(h, "connected", "invoking")
  /\ tpc' = "malloc"
  /\ UNCHANGED <<img, reply, session, heap, op_handle, res, store, torn, crashes>>

(* The instance goes away with its last session (TA_FLAGS has no           *)
(* KEEP_ALIVE), and everything it had allocated with it.                   *)
DestroyInstance ==
  /\ session' = NoHost /\ tpc' = "absent" /\ heap' = {}
  /\ op_handle' = "null" /\ res' = Zeroed

(* TEEC_CloseSession after a success; or the host exits with an error and  *)
(* the driver closes its session.  TA_CloseSessionEntryPoint frees the     *)
(* operation, the key and the structure.                                   *)
BugNoCloseOnError(h) ==   \* a host that fails leaves its session open
  /\ MoveHost(h, "returned", IF reply[h].code = "success" THEN "done" ELSE "failed")
  /\ IF reply[h].code = "success" THEN DestroyInstance ELSE UNCHANGED taVars
  /\ UNCHANGED <<img, reply, store, torn, crashes>>

CloseSession(h) ==
  /\ \/ MoveHost(h, "connected", "failed")
     \/ MoveHost(h, "returned", IF reply[h].code = "success" THEN "done" ELSE "failed")
  /\ DestroyInstance
  /\ UNCHANGED <<img, reply, store, torn, crashes>>

-----------------------------------------------------------------------------
(* The command: TA_VIDEO_INC_SIGN for the image of the session's host.     *)

Image == img[session]

Return(code) ==
  /\ tpc' = "ready"
  /\ host' = [host EXCEPT ![session] = "returned"]
  /\ reply' = [reply EXCEPT ![session].code = code]

Go(to)     == tpc' = to /\ UNCHANGED <<host, reply>>
Alloc(x)   == heap' = heap \cup {x}
Free(x)    == heap' = heap \ {x}

(* Allocate the copy of the image and convert it. *)
MallocImg ==
  /\ tpc = "malloc"
  /\ \/ Alloc("img") /\ Go("digestOp")
     \/ Return("error") /\ UNCHANGED heap
  /\ UNCHANGED <<img, session, op_handle, res, store, torn, crashes>>

(* create_digest *)
BugDigestErrorLogged ==   \* an error is logged, as that of sign_digest is
  /\ tpc = "digestOp"
  /\ \/ Alloc("digestOp") /\ op_handle' = "digestOp" /\ Go("digest")
     \/ op_handle' = "null" /\ Go("key") /\ UNCHANGED heap
  /\ UNCHANGED <<img, session, res, store, torn, crashes>>

AllocDigestOp ==
  /\ tpc = "digestOp"
  /\ \/ Alloc("digestOp") /\ op_handle' = "digestOp" /\ Go("digest")
     \/ op_handle' = "null" /\ Return("error") /\ UNCHANGED heap
  /\ UNCHANGED <<img, session, res, store, torn, crashes>>

Digest ==
  /\ tpc = "digest"
  /\ \/ res' = [res EXCEPT !.digest = Hash[Image]] /\ Go("key")
     \/ Return("error") /\ UNCHANGED res
  /\ UNCHANGED <<img, session, heap, op_handle, store, torn, crashes>>

(* sign_digest: its caller logs an error and goes on. *)
AllocKey ==
  /\ tpc = "key"
  /\ \/ Alloc("key") /\ Go("genKey")
     \/ Go("copy") /\ UNCHANGED heap
  /\ UNCHANGED <<img, session, op_handle, res, store, torn, crashes>>

GenerateKey ==
  /\ tpc = "genKey"
  /\ \/ res' = [res EXCEPT !.pub_key = session] /\ Go("signOp")
     \/ Go("copy") /\ UNCHANGED res
  /\ UNCHANGED <<img, session, heap, op_handle, store, torn, crashes>>

(* The handle of the digest operation is overwritten.  When the allocation *)
(* fails the API leaves it as it is, or clears it.                         *)
AllocSignOp ==
  /\ tpc = "signOp"
  /\ \/ Alloc("signOp") /\ op_handle' = "signOp" /\ Go("sign")
     \/ op_handle' \in {op_handle, "null"} /\ Go("copy") /\ UNCHANGED heap
  /\ UNCHANGED <<img, session, res, store, torn, crashes>>

Sign ==
  /\ tpc = "sign"
  /\ \/ res' = [res EXCEPT !.signature = <<res.digest, session>>]
     \/ UNCHANGED res
  /\ Go("copy")
  /\ UNCHANGED <<img, session, heap, op_handle, store, torn, crashes>>

(* Copy the attestation and the image to the buffers of the host. *)
CopyOut ==
  /\ tpc = "copy"
  /\ tpc' = "objId"
  /\ reply' = [reply EXCEPT ![session].att = res, ![session].out = Image]
  /\ UNCHANGED <<host, img, session, heap, op_handle, res, store, torn, crashes>>

(* save_secure *)
MallocObjId ==
  /\ tpc = "objId"
  /\ \/ Alloc("objId") /\ Go("create")
     \/ Return("error") /\ UNCHANGED heap
  /\ UNCHANGED <<img, session, op_handle, res, store, torn, crashes>>

(* An object with this identifier is replaced by an empty one. *)
CreateObject ==
  /\ tpc = "create"
  /\ \/ /\ store' = [store EXCEPT ![res.digest] = Empty]
        /\ torn' = torn \ {res.digest}
        /\ Go("write")
     \/ Return("error") /\ UNCHANGED <<store, torn>>
  /\ UNCHANGED <<img, session, heap, op_handle, res, crashes>>

BugIgnoreWriteError ==    \* the object is closed whether it was written or not
  /\ tpc = "write"
  /\ \/ store' = [store EXCEPT ![res.digest] = Image]
     \/ UNCHANGED store
  /\ Go("close")
  /\ UNCHANGED <<img, session, heap, op_handle, res, torn, crashes>>

WriteObject ==
  /\ tpc = "write"
  /\ \/ store' = [store EXCEPT ![res.digest] = Image] /\ Go("close")
     \/ Go("delete") /\ UNCHANGED store
  /\ UNCHANGED <<img, session, heap, op_handle, res, torn, crashes>>

BugCloseOnly ==           \* an object that could not be written is not deleted
  /\ tpc = "delete"
  /\ Free("objId")
  /\ Return("error")
  /\ UNCHANGED <<img, session, op_handle, res, store, torn, crashes>>

(* TEE_CloseAndDeletePersistentObject1: its own result is ignored. *)
DeleteObject ==
  /\ tpc = "delete"
  /\ \/ store' = [store EXCEPT ![res.digest] = NoImage] /\ UNCHANGED torn
     \/ torn' = torn \cup {res.digest} /\ UNCHANGED store
  /\ Free("objId")
  /\ Return("error")
  /\ UNCHANGED <<img, session, op_handle, res, crashes>>

BugIdentifierKept ==      \* only DeleteObject frees the identifier
  /\ tpc = "close"
  /\ Go("free")
  /\ UNCHANGED <<img, session, heap, op_handle, res, store, torn, crashes>>

CloseObject ==
  /\ tpc = "close"
  /\ Free("objId")
  /\ Go("free")
  /\ UNCHANGED <<img, session, op_handle, res, store, torn, crashes>>

(* TEE_FreeOperation: the handle keeps its value. *)
FreeOperation ==
  /\ tpc = "free"
  /\ Free(op_handle)
  /\ Return("success")
  /\ UNCHANGED <<img, session, op_handle, res, store, torn, crashes>>

Command ==
  \/ MallocImg \/ AllocDigestOp \/ Digest \/ AllocKey \/ GenerateKey \/ AllocSignOp \/ Sign
  \/ CopyOut \/ MallocObjId \/ CreateObject \/ WriteObject \/ DeleteObject \/ CloseObject
  \/ FreeOperation

-----------------------------------------------------------------------------
Crash ==
  /\ crashes' = crashes + 1
  /\ torn' = torn \cup {d \in Digests : store[d] = Empty}
  /\ UNCHANGED <<img, reply, store>>

(* The instance panics: its host gets an error and exits. *)
Panic ==
  /\ crashes < MaxCrashes
  /\ session # NoHost
  /\ host' = [host EXCEPT ![session] = "failed"]
  /\ DestroyInstance
  /\ Crash

(* Power fails: nothing but the storage is left. *)
PowerLoss ==
  /\ crashes < MaxCrashes
  /\ host' = [h \in Hosts |-> IF host[h] \in {"start", "done"} THEN host[h] ELSE "failed"]
  /\ DestroyInstance
  /\ Crash

HostNext(h) ==
  LoadImage(h) \/ GiveUp(h) \/ OpenSession(h) \/ Invoke(h) \/ CloseSession(h)

Next == (\E h \in Hosts : HostNext(h)) \/ Command \/ Panic \/ PowerLoss

Spec == Init /\ [][Next]_vars

(* A host that was started, and the instance, keep running. *)
Fairness ==
  /\ \A h \in Hosts : WF_vars(host[h] # "start" /\ HostNext(h))
  /\ WF_vars(Command)

FairSpec == Spec /\ Fairness

-----------------------------------------------------------------------------
(* While a host whose invocation succeeded still has its session, the      *)
(* image it was given back is the one in the storage, under the digest of  *)
(* the attestation it was given.                                           *)
SuccessMeansStored ==
  \A h \in Hosts : session = h /\ reply[h].code = "success" =>
    /\ reply[h].out = img[h]
    /\ reply[h].att.digest = Hash[img[h]]
    /\ store[reply[h].att.digest] = img[h]

(* An object holds an image with that digest.  It is empty only while it   *)
(* is being saved, or when a crash has interrupted the save, or its        *)
(* removal has failed: a failed write by itself leaves no empty object.    *)
NoTornObject ==
  \A d \in Digests :
    \/ store[d] = NoImage
    \/ store[d] \in Images /\ Hash[store[d]] = d
    \/ store[d] = Empty /\ (d \in torn \/ (tpc \in {"write", "delete"} /\ res.digest = d))

(* What an invocation leaves allocated until the instance is gone: the     *)
(* image, always; the digest operation, unless the handle refers to it     *)
(* still, which it does until there is a key (after a success it has been  *)
(* freed in that case); the identifier, only when the object could not be  *)
(* created, and then the host has its results with the error.  The sign    *)
(* operation is not lost: while it exists the handle refers to it, by      *)
(* which the close of the session frees it.                                *)
LeaksPerInvocation ==
  session # NoHost /\ tpc = "ready" =>
    /\ host[session] = "connected" => heap = {"sess"}
    /\ reply[session].code = "success" =>
         /\ {"sess", "img"} \subseteq heap /\ heap \cap {"objId", "signOp"} = {}
         /\ "digestOp" \in heap <=> op_handle # "digestOp"
    /\ "digestOp" \in heap /\ op_handle # "digestOp" => "key" \in heap
    /\ "signOp" \in heap => op_handle = "signOp"
    /\ "objId" \in heap => reply[session].code = "error" /\ reply[session].out = Image

(* The inductive invariant behind these properties.  SessionInv: the       *)
(* session is that of the one host that uses the instance, and such a host *)
(* has an image.                                                           *)
SessionInv ==
  /\ session = NoHost <=> tpc = "absent"
  /\ session # NoHost =>
       host[session] \in IF tpc = "ready" THEN {"connected", "returned"} ELSE {"invoking"}
  /\ \A h \in Hosts : host[h] \in {"connected", "invoking", "returned"} => session = h
  /\ \A h \in Hosts : host[h] \notin {"start", "failed"} => img[h] \in Images

(* How far the command has come with the image: it has its digest, the     *)
(* host has both, and the object is complete.  A host has no outcome       *)
(* before the command has returned.                                        *)
Saving    == {"create", "write", "delete", "close"}
Digested  == {"key", "genKey", "signOp", "sign", "copy", "objId", "free"} \cup Saving
CopiedOut == {"objId", "free"} \cup Saving

ResultInv ==
  /\ tpc \in Digested => res.digest = Hash[Image]
  /\ tpc \in CopiedOut =>
       reply[session].out = Image /\ reply[session].att.digest = Hash[Image]
  /\ tpc \in {"close", "free"} => store[Hash[Image]] = Image
  /\ \A h \in Hosts : host[h] \in {"start", "loaded", "connected", "invoking"} =>
       reply[h].code = "none"

CoreInv == TypeOK /\ SessionInv /\ ResultInv /\ NoTornObject /\ SuccessMeansStored

(* What is allocated at each step of the command. *)
HeapInv ==
  /\ tpc = "absent" => heap = {}
  /\ tpc = "malloc" => heap = {"sess"}
  /\ tpc = "digestOp" => heap = {"sess", "img"}
  /\ tpc \in Digested \cup {"digest"} => {"sess", "img", "digestOp"} \subseteq heap
  /\ tpc \in {"digest", "key", "genKey", "signOp"} =>
       op_handle = "digestOp" /\ "signOp" \notin heap
  /\ tpc \in {"genKey", "signOp", "sign"} => "key" \in heap
  /\ "digestOp" \in heap /\ op_handle # "digestOp" => "key" \in heap
  /\ "signOp" \in heap => op_handle = "signOp"
  /\ "objId" \in heap => tpc \in Saving \cup {"ready"}

IInv == CoreInv /\ HeapInv /\ LeaksPerInvocation

(* The instance is freed for the next host, whatever happens to this one.  *)
SessionFreed == \A h \in Hosts : session = h ~> session # h

(* To its hosts the application is a service with one session: a host is   *)
(* told one outcome, a host without the session only that it was refused,  *)
(* and the session passes from one host to another only when it is closed. *)
Outcome(h) == IF host[h] = "failed" THEN "error" ELSE reply[h].code

TS == INSTANCE TeeService WITH holder <- session, outcome <- [h \in Hosts |-> Outcome(h)]

ImplementsTeeService == TS!Spec

(* video_tee_ta.h: the signature of the result is the signed digest.       *)
SuccessMeansSigned ==
  \A h \in Hosts : host[h] = "done" =>
    reply[h].att.signature = <<reply[h].att.digest, reply[h].att.pub_key>>

(* op_handle keeps track of an operation of the session: it is null or the *)
(* operation it refers to has not been freed.                              *)
HandleTracksOperation ==
  session # NoHost /\ tpc = "ready" => op_handle = "null" \/ op_handle \in heap
=============================================================================
