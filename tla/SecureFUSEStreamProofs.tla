----------------------- MODULE SecureFUSEStreamProofs -----------------------
(***************************************************************************)
(* Proofs about SecureFUSEStream: seen from the file system the whole is   *)
(* Passthrough, seen from the trusted application it is TeeService, so     *)
(* what is proved of Passthrough holds of the whole.  Neither part learns  *)
(* what the other does between its own steps.                              *)
(***************************************************************************)
EXTENDS SecureFUSEStream, PassthroughProofs

(* Each step of the whole is a step of the file system, or none. *)
LEMMA FileSystemStep == [CNext]_allVars => [Next]_vars
<1> SUFFICES ASSUME [CNext]_allVars PROVE [Next]_vars
  OBVIOUS
<1>1. ASSUME NEW v \in VideoTees, CJobNext(v) PROVE Next \/ UNCHANGED vars
  <2>1. CASE GoBlind(v) \/ UseTee(v) \/ CloseSession(v)
    BY <2>1 DEF GoBlind, UseTee, CloseSession
  <2>2. CASE ~ (GoBlind(v) \/ UseTee(v) \/ CloseSession(v))
    <3>1. JobNext(v)
      BY <1>1, <2>2 DEF CJobNext, OpenOwnFile, CloseOwnFile, EndBlind, Outcome, JobNext
    <3> QED BY <3>1 DEF Next
  <2> QED BY <2>1, <2>2
<1>2. CASE Others
  BY <1>2 DEF Others, Next
<1>3. CASE UNCHANGED allVars
  BY <1>3 DEF allVars
<1> QED BY <1>1, <1>2, <1>3 DEF CNext

(* And a step of the service, or none. *)
LEMMA ServiceStep == [CNext]_allVars => [T!Next]_(T!teeVars)
<1> SUFFICES ASSUME [CNext]_allVars PROVE T!Next \/ UNCHANGED T!teeVars
  OBVIOUS
<1>1. ASSUME NEW v \in VideoTees, CJobNext(v) PROVE T!Next \/ UNCHANGED T!teeVars
  <2>1. CASE UseTee(v)
    BY <2>1 DEF UseTee, T!Next
  <2>2. CASE CloseSession(v)
    BY <2>2 DEF CloseSession, T!Next
  <2>3. CASE ~ (UseTee(v) \/ CloseSession(v))
    BY <1>1, <2>3
       DEF CJobNext, OpenOwnFile, GoBlind, CloseOwnFile, EndBlind, Outcome, teeVars, T!teeVars
  <2> QED BY <2>1, <2>2, <2>3
<1>2. CASE UNCHANGED teeVars
  BY <1>2 DEF teeVars, T!teeVars
<1> QED BY <1>1, <1>2 DEF CNext, allVars

(* The programs that compete for the session use the file system as        *)
(* Passthrough allows any program to.                                      *)
THEOREM WholeIsPassthrough == CSpec => Spec
<1>1. CInit => Init
  BY DEF CInit
<1> QED BY <1>1, FileSystemStep, PTL DEF CSpec, Spec

(* The programs that the file system starts use the trusted application as *)
(* one session at a time, whatever becomes of their files.                 *)
THEOREM WholeIsTeeService == CSpec => T!Spec
<1>1. CInit => T!Init
  BY DEF CInit
<1> QED BY <1>1, ServiceStep, PTL DEF CSpec, T!Spec

(* Refusals, panics of the application and files that cannot be opened do   *)
(* not lead to a second run of video_tee on a path.                        *)
THEOREM WholeOneJobPerPath == CSpec => []AtMostOneJobPerPath
BY WholeIsPassthrough, OneJobPerPath, PTL

(* Nor to a descriptor with two owners, or one that is used once closed. *)
THEOREM WholeOwnership == CSpec => []FdOwnership
BY WholeIsPassthrough, Ownership, PTL

(* Each file keeps its one way through the phases in the whole, too. *)
THEOREM WholeImplementation == CSpec => ImplementsProcessOnce
BY WholeIsPassthrough, Implementation, PTL
=============================================================================
