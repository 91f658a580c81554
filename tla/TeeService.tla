----------------------------- MODULE TeeService -----------------------------
(***************************************************************************)
(* What the trusted application is to the programs that use it: a service  *)
(* with one session.  A program gets the session or is refused; it is told *)
(* an outcome; and the session is free again before another program gets   *)
(* it.  Nothing here says what the application does with an image.         *)
(***************************************************************************)
CONSTANTS Hosts, NoHost

VARIABLES
  holder,     \* the program that has the session, or NoHost
  outcome     \* outcome[h]: "none" until h is told "success" or "error"

teeVars == <<holder, outcome>>

Init == holder = NoHost /\ outcome = [h \in Hosts |-> "none"]

Tell(h, o) == outcome[h] = "none" /\ outcome' = [outcome EXCEPT ![h] = o]

Connect(h) == holder = NoHost /\ outcome[h] = "none" /\ holder' = h /\ UNCHANGED outcome

(* The session is taken, or there is no way to the application. *)
Refuse(h) == holder # h /\ Tell(h, "error") /\ UNCHANGED holder

Reply(h) == holder = h /\ (Tell(h, "success") \/ Tell(h, "error")) /\ UNCHANGED holder

(* With an outcome, or as the program exits without one. *)
Disconnect(h) ==
  /\ holder = h /\ holder' = NoHost
  /\ UNCHANGED outcome \/ Tell(h, "error")

(* A crash ends the session; any program may fail with it. *)
Interrupt ==
  /\ holder' = NoHost
  /\ \E S \in SUBSET Hosts :
       outcome' = [h \in Hosts |-> IF h \in S THEN "error" ELSE outcome[h]]

Next ==
  \/ \E h \in Hosts : Connect(h) \/ Refuse(h) \/ Reply(h) \/ Disconnect(h)
  \/ Interrupt

Spec == Init /\ [][Next]_teeVars
=============================================================================
