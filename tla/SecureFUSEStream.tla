-------------------------- MODULE SecureFUSEStream --------------------------
(***************************************************************************)
(* The whole: the file system of Passthrough, and the one session of the   *)
(* trusted application (TeeService, which VideoTEE implements) for which   *)
(* the video_tee programs that it starts compete.  A program asks for the  *)
(* session when it has its image, and closes the file before the session:  *)
(* fclose() comes first in main, and exit() closes files in the order in   *)
(* which they were opened.  So the session is held until the pool thread   *)
(* of the file system has answered a flush.                                *)
(***************************************************************************)
EXTENDS Passthrough

VARIABLES
  holder, outcome,   \* as in TeeService
  blind              \* programs that go on without a file: fopen gave NULL

T == INSTANCE TeeService WITH Hosts <- VideoTees, NoHost <- NoProc

teeVars == <<holder, outcome, blind>>
allVars == <<vars, teeVars>>

CInit == Init /\ T!Init /\ blind = {}

-----------------------------------------------------------------------------
(* The program opens its file. *)
OpenOwnFile(v) == v \notin blind /\ JobOpen(v) /\ UNCHANGED teeVars

(* load_img does not look at what fopen returns; what it makes of an       *)
(* uninitialised header can pass for an image.                             *)
GoBlind(v) ==
  /\ st[v] = "started" /\ v \notin blind
  /\ blind' = blind \cup {v}
  /\ UNCHANGED <<vars, holder, outcome>>

(* TEEC_OpenSession and TEEC_InvokeCommand; a panic of the application     *)
(* ends the session too.                                                   *)
HasImage(v) == st[v] = "loaded" \/ (st[v] = "started" /\ v \in blind)

UseTee(v) ==
  /\ HasImage(v)
  /\ \/ T!Connect(v) \/ T!Refuse(v) \/ T!Reply(v)
     \/ T!Disconnect(v) /\ outcome'[v] = "error"
  /\ UNCHANGED <<vars, blind>>

(* fclose, or exit(): the file is closed after the outcome, or before an   *)
(* image was read.                                                         *)
CloseOwnFile(v) ==
  /\ st[v] = "loaded" => outcome[v] # "none"
  /\ Close(v)
  /\ UNCHANGED teeVars

(* TEEC_CloseSession, or exit() closes the session; fclose(NULL) crashes.  *)
BugCloseAfterSuccess(v) ==    \* only a success closes the session
  /\ st[v] = "exited" /\ outcome[v] = "success"
  /\ T!Disconnect(v)
  /\ UNCHANGED <<vars, blind>>

CloseSession(v) ==
  /\ st[v] = "exited" \/ (v \in blind /\ outcome[v] # "none")
  /\ T!Disconnect(v)
  /\ UNCHANGED <<vars, blind>>

(* Nothing was opened, and the program ends. *)
EndBlind(v) == holder # v /\ JobNotStarted(v) /\ UNCHANGED teeVars

(* The program has exited; the thread that waits for it learns the status. *)
Outcome(v) ==
  /\ holder # v
  /\ JobOutcome(v)
  /\ (st'[v] = "failed") <=> (outcome[v] # "success")
  /\ UNCHANGED teeVars

CJobNext(v) ==
  \/ OpenOwnFile(v) \/ GoBlind(v) \/ UseTee(v) \/ CloseOwnFile(v)
  \/ CloseSession(v) \/ EndBlind(v) \/ Outcome(v)
  \/ (RequestIO(v) \/ Return(v)) /\ UNCHANGED teeVars

Others ==
  \/ \E a \in Apps : AppNext(a)
  \/ DirNext
  \/ \E h \in dropped : Dispatch(h)
  \/ \E w \in Workers : Take(w) \/ Serve(w)

CNext == (\E v \in VideoTees : CJobNext(v)) \/ (Others /\ UNCHANGED teeVars)

(* As in Passthrough; every call of the trusted application returns. *)
CFairness ==
  /\ \A fd \in Fds : WF_allVars(\E h \in dropped : h.fd = fd /\ Dispatch(h) /\ UNCHANGED teeVars)
  /\ \A w \in Workers : WF_allVars((Take(w) \/ Serve(w)) /\ UNCHANGED teeVars)
  /\ \A v \in VideoTees : WF_allVars(CJobNext(v))
  /\ \A a \in Apps : WF_allVars(Return(a) /\ UNCHANGED teeVars)

CSpec == CInit /\ [][CNext]_allVars /\ CFairness

-----------------------------------------------------------------------------
(* The session is free for the next program some time, although the file   *)
(* system that starts the programs must answer a call of its holder first. *)
SessionComesFree == \A v \in VideoTees : holder = v ~> holder # v

(* The programs behave towards the file system as Passthrough assumes,     *)
(* also in that they keep going: waiting for the trusted application, or    *)
(* being refused by it, never keeps a program from closing its file.        *)
ImplementsPassthrough == FairSpec
=============================================================================
