------------------------ MODULE BeaconSessionProofs ------------------------
(***************************************************************************)
(* BeaconLink implements BeaconSession, for every value of the constants:  *)
(* each step of the two threads, of hostapd and of the connection is a     *)
(* step of the session or leaves it as it is.  Then, what causes the three *)
(* ways in which a command goes wrong: who is left waiting, who crashes,   *)
(* and who goes on too early.                                              *)
(***************************************************************************)
EXTENDS BeaconLinkProofs

----------------------------------------------------------------------------
(* Where the threads exit and leave, and what a connected thread has posted. *)

LEMMA SessionInvInit == Init => SessionInv
  BY DEF Init, SessionInv

LEMMA SessionInvMain == SessionInv /\ MainStep => SessionInv'
<1> SUFFICES ASSUME SessionInv, MainStep PROVE SessionInv'
  OBVIOUS
<1>1. UNCHANGED <<apc, phase>>
  BY Zenon DEF MainStep, MainStart, MainCall, MainQuit, MainDrop, MainPass, MainSend, MainSendFails, MainCrash, MainTakesEvent, MainTakesReply, MainNoReply, MainPost, MainResume, MainJoin, apVars
<1>2. terminate => terminate'
  BY Zenon DEF MainStep, MainStart, MainCall, MainQuit, MainDrop, MainPass, MainSend, MainSendFails, MainCrash, MainTakesEvent, MainTakesReply, MainNoReply, MainPost, MainResume, MainJoin, TerminateLoop
<1>3. mpc' # "start" /\ (mpc' = "post" => mres' # "dropped")
  BY DEF SessionInv, MainStep, MainStart, MainCall, MainQuit, MainDrop, MainPass, MainSend, MainSendFails, MainCrash, MainTakesEvent, MainTakesReply, MainNoReply, MainPost, MainResume, MainJoin, mainVars
<1>4. QED
  BY <1>1, <1>2, <1>3 DEF SessionInv

LEMMA SessionInvAp == IInv /\ SessionInv /\ ApStep => SessionInv'
<1> SUFFICES ASSUME IInv, SessionInv PROVE ApStep => SessionInv'
  OBVIOUS
<1>0. semaphore \in 0..SemValueMax /\ (phase = "boot" => apc \in BootPlaces)
  BY Zenon DEF IInv, TypeOK, PlacesOK, SemInv
<1>1. ASSUME ApInit PROVE SessionInv'
  BY <1>1 DEF SessionInv, ApInit, apRest, mainVars
<1>2. ASSUME ApInitFails PROVE SessionInv'
  BY <1>2 DEF SessionInv, ApInitFails, apRest, mainVars
<1>3. ASSUME ApOpen PROVE SessionInv'
  BY <1>3 DEF SessionInv, ApOpen, apRest, mainVars
<1>4. ASSUME ApOpenFails PROVE SessionInv'
  BY <1>4 DEF SessionInv, ApOpenFails, apRest, mainVars
<1>5. ASSUME ApAttach PROVE SessionInv'
  BY <1>5 DEF SessionInv, ApAttach, Reconnected, apRest, mainVars
<1>6. ASSUME ApAttached PROVE SessionInv'
  BY <1>6 DEF SessionInv, ApAttached, apRest, mainVars
<1>7. ASSUME ApNotAttached PROVE SessionInv'
  BY <1>7 DEF SessionInv, ApNotAttached, Reconnected, apRest, mainVars
<1>8. ASSUME ApAskStation PROVE SessionInv'
  BY <1>8 DEF SessionInv, ApAskStation, Reconnected, apRest, mainVars
<1>9. ASSUME ApStation PROVE SessionInv'
  BY <1>9 DEF SessionInv, ApStation, apRest, mainVars
<1>10. ASSUME ApStationsEnd PROVE SessionInv'
  BY <1>10 DEF SessionInv, ApStationsEnd, Reconnected, apRest, mainVars
<1>11. ASSUME ApTakesEvent PROVE SessionInv'
  BY <1>11 DEF SessionInv, ApTakesEvent, apVars, apRest, mainVars
<1>12. ASSUME ApSignal PROVE SessionInv'
  BY <1>0, BeaconLinkAssumption, <1>12 DEF SessionInv, ApSignal, mainVars, SemPost
<1>13. ASSUME ApSelect PROVE SessionInv'
  BY <1>13 DEF SessionInv, ApSelect, apRest, mainVars
<1>14. ASSUME ApLeave PROVE SessionInv'
  BY <1>0, <1>14 DEF SessionInv, ApLeave, Cleanup, apRest, BootPlaces, mainVars
<1>15. ASSUME ApReadable PROVE SessionInv'
  BY <1>15 DEF SessionInv, ApReadable, apRest, mainVars
<1>16. ASSUME ApRecv PROVE SessionInv'
  BY <1>16 DEF SessionInv, ApRecv, apVars, apRest, mainVars
<1>17. ASSUME ApRecvEnd PROVE SessionInv'
  BY <1>17 DEF SessionInv, ApRecvEnd, apRest, mainVars
<1>18. ASSUME ApTimer PROVE SessionInv'
  BY <1>18 DEF SessionInv, ApTimer, apRest, mainVars
<1>19. ASSUME ApPing PROVE SessionInv'
  BY <1>19 DEF SessionInv, ApPing, apRest, mainVars
<1>20. ASSUME ApPingReply PROVE SessionInv'
  BY <1>0, BeaconLinkAssumption, <1>20 DEF SessionInv, ApPingReply, mainVars, SemPost, PostCommand
<1>21. ASSUME ApPingFails PROVE SessionInv'
  BY <1>0, BeaconLinkAssumption, <1>21 DEF SessionInv, ApPingFails, mainVars, SemPost, PostCommand
<1>22. ASSUME ApClose PROVE SessionInv'
  BY <1>22 DEF SessionInv, ApClose, apRest, mainVars
<1>23. ASSUME ApDetached PROVE SessionInv'
  BY <1>23 DEF SessionInv, ApDetached, apRest, mainVars
<1>24. ASSUME ApFree PROVE SessionInv'
  BY <1>24 DEF SessionInv, ApFree
<1>90. QED
  BY <1>1, <1>2, <1>3, <1>4, <1>5, <1>6, <1>7, <1>8, <1>9, <1>10, <1>11, <1>12, <1>13, <1>14, <1>15, <1>16, <1>17, <1>18, <1>19, <1>20, <1>21, <1>22, <1>23, <1>24 DEF ApStep

LEMMA SessionInvStep == IInv /\ SessionInv /\ [Next]_vars => SessionInv'
<1> SUFFICES ASSUME IInv, SessionInv, [Next]_vars PROVE SessionInv'
  OBVIOUS
<1>1. CASE MainStep
  BY <1>1, SessionInvMain
<1>2. CASE ApStep
  BY <1>2, SessionInvAp
<1>3. CASE Interrupt
  BY <1>3 DEF Interrupt, SessionInv, mainVars, apVars
<1>4. CASE HostapdAnswers \/ HostapdStep \/ UNCHANGED vars
  <2>1. UNCHANGED <<semaphore, terminate, mainVars, apVars>>
    BY <1>4, Zenon DEF HostapdAnswers, HostapdStep, vars
  <2>2. QED
    BY <2>1 DEF SessionInv, mainVars, apVars
<1>5. QED
  BY <1>1, <1>2, <1>3, <1>4 DEF Next, Ended

LEMMA SessionInvariance == Spec => []SessionInv
  BY Invariance, SessionInvInit, SessionInvStep, PTL DEF Spec

----------------------------------------------------------------------------
(* The refinement. *)

LEMMA SessionInitial == Init => Session!Init
  BY BeaconLinkAssumption DEF Init, Session!Init


\* A step of the main thread that stays within its command.
LEMMA MainQuiet ==
  ASSUME mpc \in {"check", "send", "sent", "post"}, mpc' \in {"check", "send", "sent", "post"},
         UNCHANGED <<semaphore, terminate, mcmd, left, apVars>>
  PROVE  UNCHANGED Session!vars
<1>1. UNCHANGED Session!clientVars
  BY DEF Session!clientVars
<1>2. UNCHANGED Session!threadVars
  BY DEF Session!threadVars, apVars
<1>3. QED
  BY <1>1, <1>2 DEF Session!vars

\* A step of the ap thread on its own and the connection's state.
LEMMA ApQuiet ==
  ASSUME UNCHANGED <<apRest, phase>>, apc # "exited", apc' # "exited"
  PROVE  UNCHANGED Session!vars
<1>1. UNCHANGED Session!clientVars
  BY DEF Session!clientVars, apRest, mainVars
<1>2. UNCHANGED Session!threadVars
  BY DEF Session!threadVars, apRest
<1>3. QED
  BY <1>1, <1>2 DEF Session!vars, apRest

\* What a post and a wait do to the semaphore is the same in both.
LEMMA SemSame == (SemPost <=> Session!Post) /\ (SemWait <=> Session!Wait)
  BY DEF SemPost, SemWait, Session!Post, Session!Wait

\* Each step of the main thread, by the place it starts from.
LEMMA SessionMain ==
  ASSUME IInv, SessionInv, MainStep PROVE Session!Next \/ UNCHANGED Session!vars
<1>0. /\ mcmd \in {"SET", "UPDATE_BEACON", "QUIT"} /\ left \in 0..Messages
      /\ mcmd # "QUIT" => left > 0
      /\ mpc \in {"send", "sent", "post"} => mcmd # "QUIT"
  BY Zenon DEF IInv, TypeOK, PlacesOK
<1>1. ASSUME MainStart PROVE Session!Start
  BY <1>1, SemSame DEF MainStart, Session!Start, Session!threadVars, apVars
<1>2. ASSUME MainCall PROVE Session!Call
  BY <1>2 DEF MainCall, Session!Call, Session!threadVars, apVars
<1>3. ASSUME MainQuit PROVE Session!Quit
  BY <1>3, SemSame DEF MainQuit, TerminateLoop, Session!Quit, apVars
<1>4. ASSUME MainDrop PROVE Session!Drop
  BY <1>0, <1>4, BeaconLinkAssumption DEF MainDrop, Session!Drop, Session!threadVars, apVars
<1>5. ASSUME MainPass PROVE UNCHANGED Session!vars
  BY <1>5, MainQuiet DEF MainPass
<1>6. ASSUME MainSend PROVE UNCHANGED Session!vars
  BY <1>6, MainQuiet DEF MainSend
<1>7. ASSUME MainSendFails PROVE UNCHANGED Session!vars
  BY <1>7, MainQuiet DEF MainSendFails
<1>8. ASSUME MainCrash PROVE Session!Crash
  BY <1>0, <1>8, BeaconLinkAssumption DEF MainCrash, Session!Crash, Session!threadVars, apVars
<1>9. ASSUME MainTakesEvent PROVE UNCHANGED Session!vars
  BY <1>9, MainQuiet DEF MainTakesEvent, mainVars
<1>10. ASSUME MainTakesReply PROVE UNCHANGED Session!vars
  BY <1>10, MainQuiet DEF MainTakesReply
<1>11. ASSUME MainNoReply PROVE UNCHANGED Session!vars
  BY <1>11, MainQuiet DEF MainNoReply
<1>12. ASSUME MainPost PROVE Session!Accept
  BY <1>0, <1>12, SemSame, BeaconLinkAssumption DEF MainPost, PostCommand, SessionInv, Session!Accept, Session!threadVars, apVars
<1>13. ASSUME MainResume PROVE Session!Resume
  <2>1. mpc = "wait" /\ Session!Wait /\ UNCHANGED Session!threadVars
    BY <1>13, SemSame DEF MainResume, Session!threadVars, apVars
  <2>2. CASE mcmd = "SET"
    BY <1>0, <1>13, <2>1, <2>2, BeaconLinkAssumption DEF MainResume, NextCommand, LeftAfter, Session!Resume
  <2>3. CASE mcmd = "UPDATE_BEACON"
    BY <1>0, <1>13, <2>1, <2>3, BeaconLinkAssumption DEF MainResume, NextCommand, LeftAfter, Session!Resume
  <2>4. CASE mcmd = "QUIT"
    BY <1>0, <1>13, <2>1, <2>4 DEF MainResume, NextCommand, LeftAfter, Session!Resume
  <2>5. QED
    BY <1>0, <2>2, <2>3, <2>4
<1>14. ASSUME MainJoin PROVE Session!Join
  BY <1>14 DEF MainJoin, Session!Join, Session!threadVars, apVars
<1>15. QED
  BY <1>1, <1>2, <1>3, <1>4, <1>5, <1>6, <1>7, <1>8, <1>9, <1>10, <1>11, <1>12, <1>13, <1>14 DEF MainStep, Session!Next

\* Only the first connection, a failing start, the pings and the end of the
\* event loop are steps of the session.
LEMMA SessionAp ==
  ASSUME IInv, SessionInv PROVE ApStep => Session!Next \/ UNCHANGED Session!vars
<1>0. phase \in {"boot", "run", "leave"} /\ (phase = "boot" => apc \in BootPlaces)
  BY Zenon DEF IInv, TypeOK, PlacesOK, SemInv
<1>1. ASSUME ApInit PROVE UNCHANGED Session!vars
  BY <1>1, ApQuiet DEF ApInit
<1>2. ASSUME ApInitFails PROVE Session!Fail
  BY <1>2 DEF ApInitFails, apRest, mainVars, SessionInv, Session!Fail, Session!clientVars
<1>3. ASSUME ApOpen PROVE UNCHANGED Session!vars
  BY <1>3, ApQuiet DEF ApOpen
<1>4. ASSUME ApOpenFails PROVE UNCHANGED Session!vars
  BY <1>4, ApQuiet DEF ApOpenFails
<1>5. ASSUME ApAttach PROVE UNCHANGED Session!vars
  BY <1>5, ApQuiet DEF ApAttach, Reconnected
<1>6. ASSUME ApAttached PROVE UNCHANGED Session!vars
  BY <1>6, ApQuiet DEF ApAttached
<1>7. ASSUME ApNotAttached PROVE UNCHANGED Session!vars
  BY <1>7, ApQuiet DEF ApNotAttached, Reconnected
<1>8. ASSUME ApAskStation PROVE UNCHANGED Session!vars
  BY <1>8, ApQuiet DEF ApAskStation, Reconnected
<1>9. ASSUME ApStation PROVE UNCHANGED Session!vars
  BY <1>9, ApQuiet DEF ApStation
<1>10. ASSUME ApStationsEnd PROVE UNCHANGED Session!vars
  BY <1>10, ApQuiet DEF ApStationsEnd, Reconnected
<1>11. ASSUME ApTakesEvent PROVE UNCHANGED Session!vars
  BY <1>11, ApQuiet DEF ApTakesEvent, apVars
<1>12. ASSUME ApSignal PROVE Session!Connect
  BY <1>12, <1>0, SemSame DEF ApSignal, mainVars, SessionInv, Session!Connect, Session!clientVars
<1>13. ASSUME ApSelect PROVE UNCHANGED Session!vars
  BY <1>13, ApQuiet DEF ApSelect
<1>14. ASSUME ApLeave PROVE Session!Exit \/ UNCHANGED Session!vars
  <2>1. /\ apc = "loop" /\ terminate /\ apc' \in {"close", "exited"}
        /\ phase' = "leave" /\ UNCHANGED apRest
    BY <1>14 DEF ApLeave, Cleanup
  <2>2. phase = "run"
    BY <1>0, <2>1 DEF BootPlaces, SessionInv
  <2>3. UNCHANGED Session!clientVars
    BY <2>1 DEF apRest, mainVars, Session!clientVars
  <2>4. CASE apc' = "exited"
    BY <2>1, <2>2, <2>3, <2>4 DEF apRest, Session!Exit
  <2>5. CASE apc' = "close"
    BY <2>1, <2>2, <2>3, <2>5 DEF apRest, Session!vars, Session!threadVars
  <2>6. QED
    BY <2>1, <2>4, <2>5
<1>15. ASSUME ApReadable PROVE UNCHANGED Session!vars
  BY <1>15, ApQuiet DEF ApReadable
<1>16. ASSUME ApRecv PROVE UNCHANGED Session!vars
  BY <1>16, ApQuiet DEF ApRecv, apVars
<1>17. ASSUME ApRecvEnd PROVE UNCHANGED Session!vars
  BY <1>17, ApQuiet DEF ApRecvEnd
<1>18. ASSUME ApTimer PROVE UNCHANGED Session!vars
  BY <1>18, ApQuiet DEF ApTimer
<1>19. ASSUME ApPing PROVE UNCHANGED Session!vars
  BY <1>19, ApQuiet DEF ApPing
<1>20. ASSUME ApPingReply PROVE Session!Ping
  BY <1>20, <1>0, SemSame DEF ApPingReply, PostCommand, BootPlaces, mainVars, Session!Ping, Session!clientVars, Session!threadVars
<1>21. ASSUME ApPingFails PROVE Session!Ping
  BY <1>21, <1>0, SemSame DEF ApPingFails, PostCommand, BootPlaces, mainVars, Session!Ping, Session!clientVars, Session!threadVars
<1>22. ASSUME ApClose PROVE UNCHANGED Session!vars
  BY <1>22, ApQuiet DEF ApClose
<1>23. ASSUME ApDetached PROVE UNCHANGED Session!vars
  BY <1>23, ApQuiet DEF ApDetached
<1>24. ASSUME ApFree PROVE Session!Exit \/ UNCHANGED Session!vars
  <2>1. /\ apc = "free" /\ UNCHANGED <<semaphore, terminate, mpc, mcmd, mres, left, phase>>
        /\ apc' = IF phase = "leave" THEN "exited" ELSE "open"
    BY <1>24 DEF ApFree
  <2>2. UNCHANGED Session!clientVars
    BY <2>1 DEF Session!clientVars
  <2>3. CASE phase = "leave"
    BY <2>1, <2>2, <2>3 DEF SessionInv, Session!Exit
  <2>4. CASE phase # "leave"
    BY <2>1, <2>2, <2>4 DEF Session!vars, Session!threadVars
  <2>5. QED
    BY <2>3, <2>4
<1>90. QED
  BY <1>1, <1>2, <1>3, <1>4, <1>5, <1>6, <1>7, <1>8, <1>9, <1>10, <1>11, <1>12, <1>13, <1>14, <1>15, <1>16, <1>17, <1>18, <1>19, <1>20, <1>21, <1>22, <1>23, <1>24 DEF ApStep, Session!Next

\* Every step is a step of the session or none of its business.
LEMMA SessionStep ==
  IInv /\ SessionInv /\ [Next]_vars => [Session!Next]_Session!vars
<1> SUFFICES ASSUME IInv, SessionInv, [Next]_vars PROVE Session!Next \/ UNCHANGED Session!vars
  OBVIOUS
<1>1. CASE MainStep
  BY <1>1, SessionMain
<1>2. CASE ApStep
  BY <1>2, SessionAp
<1>3. CASE Interrupt
  <2>1. phase = "run" /\ terminate' = TRUE /\ UNCHANGED <<semaphore, mainVars, apVars>>
    BY <1>3, Zenon DEF Interrupt
  <2>2. apc # "exited"
    BY <2>1 DEF SessionInv
  <2>3. Session!Interrupt
    BY <2>1, <2>2 DEF Session!Interrupt, Session!clientVars, mainVars, apVars
  <2>4. QED
    BY <2>3 DEF Session!Next
<1>4. CASE HostapdAnswers \/ HostapdStep \/ UNCHANGED vars
  <2>1. UNCHANGED <<semaphore, terminate, mainVars, apVars>>
    BY <1>4, Zenon DEF HostapdAnswers, HostapdStep, vars
  <2>2. UNCHANGED Session!clientVars
    BY <2>1 DEF Session!clientVars, mainVars
  <2>3. UNCHANGED Session!threadVars
    BY <2>1 DEF Session!threadVars, apVars
  <2>4. QED
    BY <2>1, <2>2, <2>3 DEF Session!vars
<1>5. QED
  BY <1>1, <1>2, <1>3, <1>4 DEF Next, Ended

\* However the two threads, hostapd and the connection interleave, the callers
\* in transmit.c and wifi_beacon.c see a session: a post for each command that
\* was not dropped, a quit that is never dropped, no other posts but those of
\* the first connection and of the pings.
THEOREM Refinement == Spec => ImplementsSession
<1>1. QED
  BY SessionInvariance, Invariance, SessionInitial, SessionStep, PTL DEF Spec, ImplementsSession, Session!Spec

\* A main thread that waits for an ap thread that has gone does so because that
\* thread never came to connect, or because its command was dropped.
THEOREM AbandonmentHasACause == Spec => []AbandonedOnlyByFailure
<1>1. IInv /\ SessionInv => AbandonedOnlyByFailure
  <2> SUFFICES ASSUME IInv, SessionInv, apc = "exited", semaphore = 0
               PROVE  mpc \in {"start", "wait"} => phase = "boot" \/ mres = "dropped"
    BY DEF AbandonedOnlyByFailure
  <2>1. mpc = "start" => phase = "boot"
    BY DEF SessionInv
  <2>2. mpc = "wait" => mres = "dropped"
    BY DEF IInv, SemInv, SubmittedNeverBlocks
  <2>3. QED
    BY <2>1, <2>2
<1>2. QED
  BY <1>1, Invariance, SessionInvariance, PTL

----------------------------------------------------------------------------
(* What the crashes and the surplus posts come from. *)

\* As long as the connection is held during a command, its argument is what
\* ctrl_conn is.
HeldInv ==
  /\ mpc # "crashed"
  /\ mpc \in {"check", "send", "sent"} => (mctrl = "open" <=> Connected) /\ mctrl # "freed"
  /\ mpc \in {"send", "sent"} => mctrl = "open"

LEMMA HeldMain ==
  ASSUME IInv, HeldInv, MainStep
  PROVE  HeldInv'
<1>. USE DEF HeldInv
<1>1. CASE MainStart \/ MainQuit \/ MainDrop \/ MainPost \/ MainResume \/ MainJoin
  BY <1>1 DEF MainStart, MainQuit, MainDrop, MainPost, MainResume, MainJoin
<1>2. CASE MainCall
  BY <1>2 DEF MainCall, ctrlVars, Connected
<1>3. CASE MainPass
  <2>1. mctrl' = mctrl /\ Connected' = Connected /\ mpc = "check" /\ mpc' = "send" /\ Connected
    BY <1>3 DEF MainPass, ctrlVars, Connected
  <2>. QED  BY <2>1
<1>4. CASE MainSend \/ MainTakesEvent
  <2>1. mctrl' = mctrl /\ Connected' = Connected /\ mpc \in {"send", "sent"} /\ mpc' = "sent"
    BY <1>4, LinkKept DEF MainSend, MainTakesEvent, TakeEvent, mainVars, Connected
  <2>. QED  BY <2>1
<1>5. CASE MainSendFails \/ MainTakesReply \/ MainNoReply
  BY <1>5 DEF MainSendFails, MainTakesReply, MainNoReply
<1>6. CASE MainCrash
  BY <1>6 DEF MainCrash
<1>. QED  BY <1>1, <1>2, <1>3, <1>4, <1>5, <1>6 DEF MainStep

LEMMA HeldAp ==
  ASSUME IInv, HeldInv, ConnectionHeld, ApStep
  PROVE  HeldInv'
<1>1. CASE apc \in {"open", "free"}
  <2>1. mpc \notin {"check", "send", "sent"} /\ mpc' = mpc
    BY <1>1 DEF ConnectionHeld, ApStep, ApInit, ApInitFails, ApOpen, ApOpenFails, ApAttach, ApAttached,
       ApNotAttached, ApAskStation, ApStation, ApStationsEnd, ApTakesEvent, ApSignal, ApSelect, ApLeave,
       ApReadable, ApRecv, ApRecvEnd, ApTimer, ApPing, ApPingReply, ApPingFails, ApClose, ApDetached,
       ApFree, apRest, mainVars
  <2>. QED  BY <2>1 DEF HeldInv
<1>2. CASE apc \notin {"open", "free"}
  <2>1. UNCHANGED mainVars
    BY <1>2 DEF ApStep, ApInit, ApInitFails, ApOpen, ApOpenFails, ApAttach, ApAttached,
       ApNotAttached, ApAskStation, ApStation, ApStationsEnd, ApTakesEvent, ApSignal, ApSelect, ApLeave,
       ApReadable, ApRecv, ApRecvEnd, ApTimer, ApPing, ApPingReply, ApPingFails, ApClose, ApDetached,
       ApFree, apRest
  <2>2. UNCHANGED link
    <3>1. CASE ApInit \/ ApInitFails \/ ApSignal \/ ApSelect \/ ApLeave \/ ApReadable \/ ApRecvEnd \/ ApTimer
      BY <3>1, LinkKept DEF ApInit, ApInitFails, ApSignal, ApSelect, ApLeave, ApReadable, ApRecvEnd, ApTimer
    <3>2. CASE ApAttach \/ ApAttached \/ ApNotAttached \/ ApAskStation \/ ApStation \/ ApStationsEnd
      BY <3>2, LinkKept DEF ApAttach, ApAttached, ApNotAttached, ApAskStation, ApStation, ApStationsEnd,
         CannotSend, NoReply, TakeReply
    <3>3. CASE ApTakesEvent \/ ApRecv \/ ApPing \/ ApPingReply \/ ApPingFails \/ ApClose \/ ApDetached
      BY <3>3, LinkKept DEF ApTakesEvent, ApRecv, ApPing, ApPingReply, ApPingFails, ApClose, ApDetached,
         CannotSend, NoReply, TakeReply, TakeEvent
    <3>. QED  BY <1>2, <3>1, <3>2, <3>3 DEF ApStep, ApOpen, ApOpenFails, ApFree
  <2>. QED  BY <2>1, <2>2 DEF HeldInv, mainVars, Connected
<1>. QED  BY <1>1, <1>2

LEMMA HeldStep ==
  ASSUME IInv, HeldInv, ConnectionHeld, [Next]_vars
  PROVE  HeldInv'
<1>1. CASE MainStep \/ ApStep
  BY <1>1, HeldMain, HeldAp
<1>2. CASE HostapdAnswers \/ HostapdStep \/ Interrupt \/ Ended \/ UNCHANGED vars
  <2>1. Connected' = Connected /\ UNCHANGED mainVars
    <3>1. CASE HostapdAnswers \/ HostapdStep
      BY <3>1, LinkHostapd DEF HostapdAnswers, HostapdStep, Connected
    <3>2. CASE Interrupt \/ Ended \/ UNCHANGED vars
      BY <3>2, LinkKept DEF Interrupt, Ended, vars, Connected
    <3>. QED  BY <1>2, <3>1, <3>2
  <2>. QED  BY <2>1 DEF HeldInv, mainVars
<1>. QED  BY <1>1, <1>2 DEF Next

\* Every crash of the main thread, and every command that is passed on without
\* a connection, has this one cause: the ap thread opened or gave back the
\* connection while the command was between _wpa_ctrl_command's evaluation of
\* ctrl_conn and the end of wpa_ctrl_request.
THEOREM CrashesOnlyByTheRace ==
  Spec /\ []ConnectionHeld => [](mpc # "crashed" /\ UnconnectedCommandDropped)
<1>1. Init => HeldInv
  BY DEF Init, HeldInv
<1>2. HeldInv => mpc # "crashed" /\ UnconnectedCommandDropped
  BY DEF HeldInv, UnconnectedCommandDropped
<1>. QED  BY Invariance, <1>1, <1>2, HeldStep, PTL DEF Spec

\* Without pings a post is there for exactly the one that waits for it: the
\* main thread before its first command, or with one that was not dropped.
Awaited == \/ mpc = "start" /\ phase # "boot"
           \/ mpc = "wait" /\ mres # "dropped"

PostInv == semaphore = IF Awaited THEN 1 ELSE 0

LEMMA PostStep ==
  ASSUME IInv, SessionInv, PostInv, NoPings, [Next]_vars
  PROVE  PostInv'
<1>0. /\ SemValueMax \in Nat \ {0} /\ (phase = "boot" => mpc = "start")
      /\ mpc = "post" => mres # "dropped"
      /\ apc = "signal" => phase = "boot"
  BY BeaconLinkAssumption DEF IInv, SemInv, SessionInv
<1>. USE DEF PostInv, Awaited
<1>1. CASE MainStart \/ MainResume
  BY <1>0, <1>1 DEF MainStart, MainResume, SemWait, apVars
<1>2. CASE MainQuit \/ MainPost
  BY <1>0, <1>2 DEF MainQuit, MainPost, PostCommand, SemPost, apVars
<1>3. CASE MainStep /\ ~MainStart /\ ~MainResume /\ ~MainQuit /\ ~MainPost
  BY <1>0, <1>3 DEF MainStep, MainCall, MainDrop, MainPass, MainSend, MainSendFails, MainCrash,
     MainTakesEvent, MainTakesReply, MainNoReply, MainJoin, mainVars, apVars
<1>4. CASE ApSignal
  BY <1>0, <1>4 DEF ApSignal, SemPost, mainVars
<1>5. CASE ApLeave
  <2>1. UNCHANGED <<semaphore, mpc, mres>> /\ phase' = "leave" /\ apc = "loop"
    BY <1>5 DEF ApLeave, apRest, mainVars
  <2>2. phase # "boot"
    BY <2>1 DEF IInv, SemInv, BootPlaces
  <2>. QED  BY <2>1, <2>2
<1>6. CASE ApStep /\ ~ApSignal /\ ~ApLeave
  <2>1. UNCHANGED <<semaphore, mpc, mres, phase>>
    BY <1>6 DEF NoPings, ApStep, ApInit, ApInitFails, ApOpen, ApOpenFails, ApAttach, ApAttached,
       ApNotAttached, ApAskStation, ApStation, ApStationsEnd, ApTakesEvent, ApSelect, ApReadable,
       ApRecv, ApRecvEnd, ApTimer, ApPing, ApPingReply, ApPingFails, ApClose, ApDetached, ApFree,
       apRest, mainVars, apVars
  <2>. QED  BY <2>1
<1>7. CASE HostapdAnswers \/ HostapdStep \/ Interrupt \/ Ended \/ UNCHANGED vars
  <2>1. UNCHANGED <<semaphore, mpc, mres, phase>>
    BY <1>7 DEF HostapdAnswers, HostapdStep, Interrupt, Ended, vars, mainVars, apVars
  <2>. QED  BY <2>1
<1>. QED  BY <1>1, <1>2, <1>3, <1>4, <1>5, <1>6, <1>7 DEF Next

\* Only the post of a ping lets the main thread go on after a command that was
\* dropped: without pings the semaphore never exceeds one, and a dropped
\* command is waited for in vain.
THEOREM OnlyPingsStandIn == Spec /\ []NoPings => PostMeansProcessed
<1>1. Init => PostInv
  BY DEF Init, PostInv, Awaited
<1>2. PostInv /\ [Next]_vars => [mpc = "wait" /\ mpc' = "idle" => mres # "dropped"]_vars
  <2>. SUFFICES ASSUME PostInv, [Next]_vars, mpc = "wait", mpc' = "idle"
                PROVE  mres # "dropped"
    OBVIOUS
  <2>1. CASE MainStep
    <3>1. MainResume
      BY <2>1 DEF MainStep, MainStart, MainCall, MainQuit, MainDrop, MainPass, MainSend, MainSendFails,
         MainCrash, MainTakesEvent, MainTakesReply, MainNoReply, MainPost, MainJoin, mainVars
    <3>. QED  BY <3>1 DEF MainResume, SemWait, PostInv, Awaited
  <2>2. CASE ~MainStep
    <3>1. mpc' = mpc
      BY <2>2 DEF Next, HostapdAnswers, HostapdStep, Interrupt, Ended, vars, mainVars, ApStep, ApInit,
         ApInitFails, ApOpen, ApOpenFails, ApAttach, ApAttached, ApNotAttached, ApAskStation, ApStation,
         ApStationsEnd, ApTakesEvent, ApSignal, ApSelect, ApLeave, ApReadable, ApRecv, ApRecvEnd,
         ApTimer, ApPing, ApPingReply, ApPingFails, ApClose, ApDetached, ApFree, apRest
    <3>. QED  BY <3>1
  <2>. QED  BY <2>1, <2>2
<1>. QED
  BY Invariance, SessionInvariance, <1>1, <1>2, PostStep, PTL DEF Spec, PostMeansProcessed
============================================================================
