-------------------------- MODULE BeaconLinkProofs --------------------------
(***************************************************************************)
(* Theorems about BeaconLink for every queue length, number of messages,   *)
(* events, stations and failures, and every choice of thread faults: its   *)
(* types, the semaphore and the connection, and the way to the exit of an  *)
(* ap thread that was told to end.                                         *)
(***************************************************************************)
EXTENDS BeaconLink, TLAPS

----------------------------------------------------------------------------
(* The control connection keeps its type. *)

\* A new connection starts with an empty socket.
LEMMA OpenLinkType == CtrlTypeOK /\ OpenLink => CtrlTypeOK'
  BY DEF CtrlTypeOK, OpenLink

\* Closing marks the requests under way as having no socket to answer to.
LEMMA CloseLinkType == CtrlTypeOK /\ CloseLink => CtrlTypeOK'
<1>1. SUFFICES ASSUME CtrlTypeOK, CloseLink PROVE CtrlTypeOK'
  OBVIOUS
<1>2. PICK n \in Nat : requests \in [1..n -> Request]
  BY <1>1 DEF CtrlTypeOK
<1>3. ASSUME NEW r \in Request PROVE [r EXCEPT !.back = FALSE] \in Request
  BY <1>3 DEF Request
<1>4. requests' = [i \in 1..n |-> [requests[i] EXCEPT !.back = FALSE]]
  BY <1>1, <1>2 DEF CloseLink
<1>5. requests' \in [1..n -> Request]
  BY <1>2, <1>3, <1>4
<1>6. requests' \in Seq(Request)
  BY <1>5
<1>7. /\ link' = "none" /\ inbox' = <<>> /\ monitor' = FALSE
      /\ UNCHANGED <<hostapd, eventsLeft, faultsLeft>>
  BY <1>1, Zenon DEF CloseLink
<1>8. monitor' \in BOOLEAN
  BY <1>7, Zenon
<1>9. QED
  BY <1>1, <1>6, <1>7, <1>8 DEF CtrlTypeOK

\* A request that is sent is a request.
LEMMA SendType ==
  ASSUME NEW t \in Threads, NEW c \in Commands, CtrlTypeOK, Send(t, c)
  PROVE  CtrlTypeOK'
<1>1. [by |-> t, cmd |-> c, back |-> TRUE] \in Request
  BY DEF Request
<1>2. QED
  BY <1>1 DEF CtrlTypeOK, Send

\* What is left after a recv is a queue of datagrams.
LEMMA TakeType == CtrlTypeOK /\ TakeDatagram => CtrlTypeOK'
  BY DEF CtrlTypeOK, TakeDatagram

\* hostapd's answer is a datagram, for every request it may find first.
LEMMA AnswerType ==
  ASSUME NEW more \in BOOLEAN, CtrlTypeOK, Answer(more)
  PROVE  CtrlTypeOK'
<1>1. requests # <<>> /\ Head(requests) \in Request /\ Tail(requests) \in Seq(Request)
  BY DEF CtrlTypeOK, Answer
<1>2. PICK ok \in BOOLEAN :
        /\ requests' = Tail(requests)
        /\ inbox' = IF Head(requests).back /\ Len(inbox) < MaxQueue
                    THEN Append(inbox, [event |-> FALSE, ok |-> ok])
                    ELSE inbox
        /\ monitor' = CASE Head(requests).cmd = "ATTACH" /\ Head(requests).back -> ok
                        [] Head(requests).cmd = "DETACH" /\ Head(requests).back -> FALSE
                        [] OTHER -> monitor
        /\ UNCHANGED <<hostapd, link, eventsLeft, faultsLeft>>
  BY Zenon DEF Answer
<1>3. [event |-> FALSE, ok |-> ok] \in Datagram
  BY DEF Datagram
<1>4. inbox' \in Seq(Datagram)
  BY <1>2, <1>3 DEF CtrlTypeOK
<1>5. monitor' \in BOOLEAN
  BY <1>2, Zenon DEF CtrlTypeOK
<1>6. QED
  BY <1>1, <1>2, <1>4, <1>5 DEF CtrlTypeOK

\* Events, failures and restarts of hostapd stay within their bounds.
LEMMA HostapdType == CtrlTypeOK /\ (SendEvent \/ HostapdStops \/ HostapdStarts) => CtrlTypeOK'
<1>1. ASSUME CtrlTypeOK, SendEvent PROVE CtrlTypeOK'
  <2>1. Event \in Datagram
    BY DEF Event, Datagram
  <2>2. inbox' \in Seq(Datagram) /\ eventsLeft' \in 0..MaxEvents
    BY <1>1, <2>1, WpaCtrlAssumption DEF CtrlTypeOK, SendEvent
  <2>3. QED
    BY <1>1, <2>2 DEF CtrlTypeOK, SendEvent
<1>2. ASSUME CtrlTypeOK, HostapdStops PROVE CtrlTypeOK'
  <2>1. monitor' \in BOOLEAN
    BY <1>2, Zenon DEF HostapdStops
  <2>2. /\ hostapd' = "down" /\ link' \in {"none", "live", "dead"}
        /\ requests' = <<>> /\ faultsLeft' \in 0..MaxFaults
        /\ UNCHANGED <<inbox, eventsLeft>>
    BY <1>2, WpaCtrlAssumption DEF CtrlTypeOK, HostapdStops
  <2>3. QED
    BY <1>2, <2>1, <2>2 DEF CtrlTypeOK
<1>3. ASSUME CtrlTypeOK, HostapdStarts PROVE CtrlTypeOK'
  BY <1>3 DEF CtrlTypeOK, HostapdStarts
<1>4. QED
  BY <1>1, <1>2, <1>3

\* A step that leaves the connection alone.
LEMMA StillType == CtrlTypeOK /\ UNCHANGED ctrlVars => CtrlTypeOK'
  BY DEF CtrlTypeOK, ctrlVars

\* The semaphore stays within its bounds, and a post leaves it positive.
LEMMA SemPostValue ==
  ASSUME semaphore \in 0..SemValueMax, SemPost
  PROVE  semaphore' \in 0..SemValueMax /\ semaphore' > 0 /\ semaphore' >= semaphore
  BY BeaconLinkAssumption DEF SemPost
\* sem_wait takes one from a positive value.
LEMMA SemWaitValue ==
  ASSUME semaphore \in 0..SemValueMax, SemWait
  PROVE  semaphore' \in 0..SemValueMax
  BY BeaconLinkAssumption DEF SemWait

\* A SET is followed by its UPDATE_BEACON, that by the next SET or by QUIT,
\* and while a command is to be sent its message is not counted off.
LEMMA NextCommandType ==
  ASSUME NEW cmd \in {"SET", "UPDATE_BEACON", "QUIT"}, NEW n \in 0..Messages,
         cmd # "QUIT" => n > 0
  PROVE  /\ NextCommand(cmd, n) \in {"SET", "UPDATE_BEACON", "QUIT"}
         /\ LeftAfter(cmd, n) \in 0..Messages
         /\ NextCommand(cmd, n) # "QUIT" => LeftAfter(cmd, n) > 0
<1>1. CASE cmd = "SET"
  BY <1>1 DEF NextCommand, LeftAfter
<1>2. CASE cmd # "SET" /\ cmd = "UPDATE_BEACON" /\ n > 1
  BY <1>2, BeaconLinkAssumption DEF NextCommand, LeftAfter
<1>3. CASE cmd # "SET" /\ ~(cmd = "UPDATE_BEACON" /\ n > 1)
  BY <1>3, BeaconLinkAssumption DEF NextCommand, LeftAfter
<1>4. QED
  BY <1>1, <1>2, <1>3

----------------------------------------------------------------------------
(* Type correctness, part by part: the connection by the lemmas above, the *)
(* flags, and the variables with a range of places or numbers.             *)

LEMMA TypeInit == Init => TypeOK
<1>1. ASSUME Init PROVE CtrlTypeOK
  <2>1. monitor \in BOOLEAN
    BY <1>1, Zenon DEF Init, CtrlInit
  <2>2. /\ hostapd \in {"up", "down"} /\ link = "none"
        /\ requests = <<>> /\ inbox = <<>>
        /\ eventsLeft = MaxEvents /\ faultsLeft = MaxFaults
    BY <1>1 DEF Init, CtrlInit
  <2>3. QED
    BY <2>1, <2>2, WpaCtrlAssumption DEF CtrlTypeOK
<1>2. Init => FlagsOK
  BY Zenon DEF Init, FlagsOK
<1>3. Init => PlacesOK
  BY BeaconLinkAssumption, WpaCtrlAssumption DEF Init, PlacesOK, MainPlaces, ApPlaces
<1>4. QED
  BY <1>1, <1>2, <1>3 DEF TypeOK

\* A step of the main thread.
LEMMA TypeMain == TypeOK /\ MainStep => TypeOK'
<1> SUFFICES ASSUME TypeOK PROVE MainStep => TypeOK'
  OBVIOUS
<1>1. ASSUME MainStart PROVE TypeOK'
  <2>1. CtrlTypeOK'
    BY <1>1, StillType DEF TypeOK, MainStart
  <2>2. FlagsOK'
    BY <1>1, Zenon DEF TypeOK, FlagsOK, MainStart, apVars
  <2>3. PlacesOK'
    BY <1>1, SemWaitValue DEF TypeOK, PlacesOK, MainStart, MainPlaces, apVars
  <2>4. QED
    BY <2>1, <2>2, <2>3 DEF TypeOK
<1>2. ASSUME MainCall PROVE TypeOK'
  <2>1. CtrlTypeOK'
    BY <1>2, StillType DEF TypeOK, MainCall
  <2>2. FlagsOK'
    BY <1>2, Zenon DEF TypeOK, FlagsOK, MainCall, apVars
  <2>3. PlacesOK'
    BY <1>2 DEF TypeOK, PlacesOK, MainCall, MainPlaces, apVars
  <2>4. QED
    BY <2>1, <2>2, <2>3 DEF TypeOK
<1>3. ASSUME MainQuit PROVE TypeOK'
  <2>1. CtrlTypeOK'
    BY <1>3, StillType DEF TypeOK, MainQuit
  <2>2. FlagsOK'
    BY <1>3, Zenon DEF TypeOK, FlagsOK, MainQuit, TerminateLoop, apVars
  <2>3. PlacesOK'
    BY <1>3, SemPostValue DEF TypeOK, PlacesOK, MainQuit, TerminateLoop, MainPlaces, apVars
  <2>4. QED
    BY <2>1, <2>2, <2>3 DEF TypeOK
<1>4. ASSUME MainDrop PROVE TypeOK'
  <2>1. CtrlTypeOK'
    BY <1>4, StillType DEF TypeOK, MainDrop
  <2>2. FlagsOK'
    BY <1>4, Zenon DEF TypeOK, FlagsOK, MainDrop, apVars
  <2>3. PlacesOK'
    BY <1>4 DEF TypeOK, PlacesOK, MainDrop, MainPlaces, apVars
  <2>4. QED
    BY <2>1, <2>2, <2>3 DEF TypeOK
<1>5. ASSUME MainPass PROVE TypeOK'
  <2>1. CtrlTypeOK'
    BY <1>5, StillType DEF TypeOK, MainPass
  <2>2. FlagsOK'
    BY <1>5, Zenon DEF TypeOK, FlagsOK, MainPass, apVars
  <2>3. PlacesOK'
    BY <1>5 DEF TypeOK, PlacesOK, MainPass, MainPlaces, apVars
  <2>4. QED
    BY <2>1, <2>2, <2>3 DEF TypeOK
<1>6. ASSUME MainSend PROVE TypeOK'
  <2>1. "main" \in Threads /\ mcmd \in Commands
    BY <1>6 DEF TypeOK, PlacesOK, MainSend, Threads, Commands
  <2>2. CtrlTypeOK'
    BY <1>6, <2>1, SendType DEF TypeOK, MainSend
  <2>3. FlagsOK'
    BY <1>6, Zenon DEF TypeOK, FlagsOK, MainSend, apVars
  <2>4. PlacesOK'
    BY <1>6 DEF TypeOK, PlacesOK, MainSend, MainPlaces, apVars
  <2>5. QED
    BY <2>2, <2>3, <2>4 DEF TypeOK
<1>7. ASSUME MainSendFails PROVE TypeOK'
  <2>1. CtrlTypeOK'
    BY <1>7, StillType DEF TypeOK, MainSendFails, CannotSend
  <2>2. FlagsOK'
    BY <1>7, Zenon DEF TypeOK, FlagsOK, MainSendFails, apVars
  <2>3. PlacesOK'
    BY <1>7 DEF TypeOK, PlacesOK, MainSendFails, MainPlaces, apVars
  <2>4. QED
    BY <2>1, <2>2, <2>3 DEF TypeOK
<1>8. ASSUME MainCrash PROVE TypeOK'
  <2>1. CtrlTypeOK'
    BY <1>8, StillType DEF TypeOK, MainCrash
  <2>2. FlagsOK'
    BY <1>8, Zenon DEF TypeOK, FlagsOK, MainCrash, apVars
  <2>3. PlacesOK'
    BY <1>8 DEF TypeOK, PlacesOK, MainCrash, MainPlaces, apVars
  <2>4. QED
    BY <2>1, <2>2, <2>3 DEF TypeOK
<1>9. ASSUME MainTakesEvent PROVE TypeOK'
  <2>1. CtrlTypeOK'
    BY <1>9, TakeType DEF TypeOK, MainTakesEvent, TakeEvent
  <2>2. FlagsOK'
    BY <1>9, Zenon DEF TypeOK, FlagsOK, MainTakesEvent, apVars
  <2>3. PlacesOK'
    BY <1>9 DEF TypeOK, PlacesOK, MainTakesEvent, MainPlaces, apVars, mainVars
  <2>4. QED
    BY <2>1, <2>2, <2>3 DEF TypeOK
<1>10. ASSUME MainTakesReply PROVE TypeOK'
  <2>1. CtrlTypeOK'
    BY <1>10, TakeType DEF TypeOK, MainTakesReply, TakeReply
  <2>2. FlagsOK'
    BY <1>10, Zenon DEF TypeOK, FlagsOK, MainTakesReply, apVars
  <2>3. PlacesOK'
    BY <1>10 DEF TypeOK, PlacesOK, MainTakesReply, MainPlaces, apVars
  <2>4. QED
    BY <2>1, <2>2, <2>3 DEF TypeOK
<1>11. ASSUME MainNoReply PROVE TypeOK'
  <2>1. CtrlTypeOK'
    BY <1>11, StillType DEF TypeOK, MainNoReply, NoReply
  <2>2. FlagsOK'
    BY <1>11, Zenon DEF TypeOK, FlagsOK, MainNoReply, apVars
  <2>3. PlacesOK'
    BY <1>11 DEF TypeOK, PlacesOK, MainNoReply, MainPlaces, apVars
  <2>4. QED
    BY <2>1, <2>2, <2>3 DEF TypeOK
<1>12. ASSUME MainPost PROVE TypeOK'
  <2>1. CtrlTypeOK'
    BY <1>12, StillType DEF TypeOK, MainPost
  <2>2. FlagsOK'
    BY <1>12, Zenon DEF TypeOK, FlagsOK, MainPost, apVars
  <2>3. PlacesOK'
    BY <1>12, SemPostValue DEF TypeOK, PlacesOK, MainPost, PostCommand, MainPlaces, apVars
  <2>4. QED
    BY <2>1, <2>2, <2>3 DEF TypeOK
<1>13. ASSUME MainResume PROVE TypeOK'
  <2>1. CtrlTypeOK'
    BY <1>13, StillType DEF TypeOK, MainResume
  <2>2. FlagsOK'
    BY <1>13, Zenon DEF TypeOK, FlagsOK, MainResume, apVars
  <2>3. PlacesOK'
    BY <1>13, SemWaitValue, NextCommandType DEF TypeOK, PlacesOK, MainResume, MainPlaces, apVars
  <2>4. QED
    BY <2>1, <2>2, <2>3 DEF TypeOK
<1>14. ASSUME MainJoin PROVE TypeOK'
  <2>1. CtrlTypeOK'
    BY <1>14, StillType DEF TypeOK, MainJoin
  <2>2. FlagsOK'
    BY <1>14, Zenon DEF TypeOK, FlagsOK, MainJoin, apVars
  <2>3. PlacesOK'
    BY <1>14 DEF TypeOK, PlacesOK, MainJoin, MainPlaces, apVars
  <2>4. QED
    BY <2>1, <2>2, <2>3 DEF TypeOK
<1>90. QED
  BY <1>1, <1>2, <1>3, <1>4, <1>5, <1>6, <1>7, <1>8, <1>9, <1>10, <1>11, <1>12, <1>13, <1>14 DEF MainStep

\* A step of the ap thread.
LEMMA TypeAp == TypeOK /\ ApStep => TypeOK'
<1> SUFFICES ASSUME TypeOK PROVE ApStep => TypeOK'
  OBVIOUS
<1>1. ASSUME ApInit PROVE TypeOK'
  <2>1. CtrlTypeOK'
    BY <1>1, StillType DEF TypeOK, ApInit
  <2>2. FlagsOK'
    BY <1>1, Zenon DEF TypeOK, FlagsOK, ApInit, apRest
  <2>3. PlacesOK'
    BY <1>1 DEF TypeOK, PlacesOK, ApInit, ApPlaces, apRest, mainVars
  <2>4. QED
    BY <2>1, <2>2, <2>3 DEF TypeOK
<1>2. ASSUME ApInitFails PROVE TypeOK'
  <2>1. CtrlTypeOK'
    BY <1>2, StillType DEF TypeOK, ApInitFails
  <2>2. FlagsOK'
    BY <1>2, Zenon DEF TypeOK, FlagsOK, ApInitFails, apRest
  <2>3. PlacesOK'
    BY <1>2 DEF TypeOK, PlacesOK, ApInitFails, ApPlaces, apRest, mainVars
  <2>4. QED
    BY <2>1, <2>2, <2>3 DEF TypeOK
<1>3. ASSUME ApOpen PROVE TypeOK'
  <2>1. CtrlTypeOK'
    BY <1>3, OpenLinkType DEF TypeOK, ApOpen
  <2>2. FlagsOK'
    BY <1>3, Zenon DEF TypeOK, FlagsOK, ApOpen, apRest
  <2>3. PlacesOK'
    BY <1>3 DEF TypeOK, PlacesOK, ApOpen, ApPlaces, apRest, mainVars
  <2>4. QED
    BY <2>1, <2>2, <2>3 DEF TypeOK
<1>4. ASSUME ApOpenFails PROVE TypeOK'
  <2>1. CtrlTypeOK'
    BY <1>4, StillType DEF TypeOK, ApOpenFails
  <2>2. FlagsOK'
    BY <1>4, Zenon DEF TypeOK, FlagsOK, ApOpenFails, apRest
  <2>3. PlacesOK'
    BY <1>4 DEF TypeOK, PlacesOK, ApOpenFails, ApPlaces, apRest, mainVars
  <2>4. QED
    BY <2>1, <2>2, <2>3 DEF TypeOK
<1>5. ASSUME ApAttach PROVE TypeOK'
  <2>1. "ap" \in Threads /\ "ATTACH" \in Commands
    BY DEF Threads, Commands
  <2>2. CtrlTypeOK'
    BY <1>5, <2>1, SendType, StillType DEF TypeOK, ApAttach, CannotSend
  <2>3. FlagsOK'
    BY <1>5, Zenon DEF TypeOK, FlagsOK, ApAttach, apRest
  <2>4. PlacesOK'
    BY <1>5 DEF TypeOK, PlacesOK, ApAttach, Reconnected, ApPlaces, apRest, mainVars
  <2>5. QED
    BY <2>2, <2>3, <2>4 DEF TypeOK
<1>6. ASSUME ApAttached PROVE TypeOK'
  <2>1. CtrlTypeOK'
    BY <1>6, TakeType DEF TypeOK, ApAttached, TakeReply
  <2>2. FlagsOK'
    BY <1>6, Zenon DEF TypeOK, FlagsOK, ApAttached, apRest
  <2>3. PlacesOK'
    <3>1. listed' = 0 /\ apc' = "stations" /\ UNCHANGED <<apRest, phase>>
      BY <1>6, Zenon DEF ApAttached
    <3>2. listed' \in 0..MaxStations
      BY <3>1, WpaCtrlAssumption
    <3>3. QED
      BY <3>1, <3>2 DEF TypeOK, PlacesOK, ApPlaces, apRest, mainVars
  <2>4. QED
    BY <2>1, <2>2, <2>3 DEF TypeOK
<1>7. ASSUME ApNotAttached PROVE TypeOK'
  <2>1. CtrlTypeOK'
    BY <1>7, TakeType, StillType DEF TypeOK, ApNotAttached, TakeReply, NoReply
  <2>2. FlagsOK'
    BY <1>7, Zenon DEF TypeOK, FlagsOK, ApNotAttached, apRest
  <2>3. PlacesOK'
    BY <1>7 DEF TypeOK, PlacesOK, ApNotAttached, Reconnected, ApPlaces, apRest, mainVars
  <2>4. QED
    BY <2>1, <2>2, <2>3 DEF TypeOK
<1>8. ASSUME ApAskStation PROVE TypeOK'
  <2>1. "ap" \in Threads /\ "STA" \in Commands
    BY DEF Threads, Commands
  <2>2. CtrlTypeOK'
    BY <1>8, <2>1, SendType, StillType DEF TypeOK, ApAskStation, CannotSend
  <2>3. FlagsOK'
    BY <1>8, Zenon DEF TypeOK, FlagsOK, ApAskStation, apRest
  <2>4. PlacesOK'
    BY <1>8 DEF TypeOK, PlacesOK, ApAskStation, Reconnected, ApPlaces, apRest, mainVars
  <2>5. QED
    BY <2>2, <2>3, <2>4 DEF TypeOK
<1>9. ASSUME ApStation PROVE TypeOK'
  <2>1. CtrlTypeOK'
    BY <1>9, TakeType DEF TypeOK, ApStation, TakeReply
  <2>2. FlagsOK'
    BY <1>9, Zenon DEF TypeOK, FlagsOK, ApStation, apRest
  <2>3. PlacesOK'
    <3>1. listed < MaxStations /\ listed' = listed + 1 /\ apc' = "stations" /\ UNCHANGED <<apRest, phase>>
      BY <1>9, Zenon DEF ApStation
    <3>2. listed \in 0..MaxStations
      BY DEF TypeOK, PlacesOK
    <3>3. listed' \in 0..MaxStations
      BY <3>1, <3>2, WpaCtrlAssumption
    <3>4. QED
      BY <3>1, <3>3 DEF TypeOK, PlacesOK, ApPlaces, apRest, mainVars
  <2>4. QED
    BY <2>1, <2>2, <2>3 DEF TypeOK
<1>10. ASSUME ApStationsEnd PROVE TypeOK'
  <2>1. CtrlTypeOK'
    BY <1>10, TakeType, StillType DEF TypeOK, ApStationsEnd, TakeReply, NoReply
  <2>2. FlagsOK'
    BY <1>10, Zenon DEF TypeOK, FlagsOK, ApStationsEnd, apRest
  <2>3. PlacesOK'
    BY <1>10 DEF TypeOK, PlacesOK, ApStationsEnd, Reconnected, ApPlaces, apRest, mainVars
  <2>4. QED
    BY <2>1, <2>2, <2>3 DEF TypeOK
<1>11. ASSUME ApTakesEvent PROVE TypeOK'
  <2>1. CtrlTypeOK'
    BY <1>11, TakeType DEF TypeOK, ApTakesEvent, TakeEvent
  <2>2. FlagsOK'
    BY <1>11, Zenon DEF TypeOK, FlagsOK, ApTakesEvent, apRest, apVars
  <2>3. PlacesOK'
    BY <1>11 DEF TypeOK, PlacesOK, ApTakesEvent, ApPlaces, apRest, mainVars, apVars
  <2>4. QED
    BY <2>1, <2>2, <2>3 DEF TypeOK
<1>12. ASSUME ApSignal PROVE TypeOK'
  <2>1. CtrlTypeOK'
    BY <1>12, StillType DEF TypeOK, ApSignal
  <2>2. FlagsOK'
    BY <1>12, Zenon DEF TypeOK, FlagsOK, ApSignal
  <2>3. PlacesOK'
    BY <1>12, SemPostValue DEF TypeOK, PlacesOK, ApSignal, ApPlaces, mainVars
  <2>4. QED
    BY <2>1, <2>2, <2>3 DEF TypeOK
<1>13. ASSUME ApSelect PROVE TypeOK'
  <2>1. CtrlTypeOK'
    BY <1>13, StillType DEF TypeOK, ApSelect
  <2>2. FlagsOK'
    BY <1>13, Zenon DEF TypeOK, FlagsOK, ApSelect, apRest
  <2>3. PlacesOK'
    BY <1>13 DEF TypeOK, PlacesOK, ApSelect, ApPlaces, apRest, mainVars
  <2>4. QED
    BY <2>1, <2>2, <2>3 DEF TypeOK
<1>14. ASSUME ApLeave PROVE TypeOK'
  <2>1. CtrlTypeOK'
    BY <1>14, StillType DEF TypeOK, ApLeave
  <2>2. FlagsOK'
    BY <1>14, Zenon DEF TypeOK, FlagsOK, ApLeave, Unregister, apRest
  <2>3. PlacesOK'
    BY <1>14 DEF TypeOK, PlacesOK, ApLeave, Cleanup, ApPlaces, apRest, mainVars
  <2>4. QED
    BY <2>1, <2>2, <2>3 DEF TypeOK
<1>15. ASSUME ApReadable PROVE TypeOK'
  <2>1. CtrlTypeOK'
    BY <1>15, StillType DEF TypeOK, ApReadable
  <2>2. FlagsOK'
    BY <1>15, Zenon DEF TypeOK, FlagsOK, ApReadable, apRest
  <2>3. PlacesOK'
    BY <1>15 DEF TypeOK, PlacesOK, ApReadable, ApPlaces, apRest, mainVars
  <2>4. QED
    BY <2>1, <2>2, <2>3 DEF TypeOK
<1>16. ASSUME ApRecv PROVE TypeOK'
  <2>1. CtrlTypeOK'
    BY <1>16, TakeType DEF TypeOK, ApRecv
  <2>2. FlagsOK'
    BY <1>16, Zenon DEF TypeOK, FlagsOK, ApRecv, apRest, apVars
  <2>3. PlacesOK'
    BY <1>16 DEF TypeOK, PlacesOK, ApRecv, ApPlaces, apRest, mainVars, apVars
  <2>4. QED
    BY <2>1, <2>2, <2>3 DEF TypeOK
<1>17. ASSUME ApRecvEnd PROVE TypeOK'
  <2>1. CtrlTypeOK'
    BY <1>17, StillType DEF TypeOK, ApRecvEnd
  <2>2. FlagsOK'
    BY <1>17, Zenon DEF TypeOK, FlagsOK, ApRecvEnd, apRest
  <2>3. PlacesOK'
    BY <1>17 DEF TypeOK, PlacesOK, ApRecvEnd, ApPlaces, apRest, mainVars
  <2>4. QED
    BY <2>1, <2>2, <2>3 DEF TypeOK
<1>18. ASSUME ApTimer PROVE TypeOK'
  <2>1. CtrlTypeOK'
    BY <1>18, StillType DEF TypeOK, ApTimer
  <2>2. FlagsOK'
    BY <1>18, Zenon DEF TypeOK, FlagsOK, ApTimer, apRest
  <2>3. PlacesOK'
    BY <1>18 DEF TypeOK, PlacesOK, ApTimer, ApPlaces, apRest, mainVars
  <2>4. QED
    BY <2>1, <2>2, <2>3 DEF TypeOK
<1>19. ASSUME ApPing PROVE TypeOK'
  <2>1. "ap" \in Threads /\ "PING" \in Commands
    BY DEF Threads, Commands
  <2>2. CtrlTypeOK'
    BY <1>19, <2>1, SendType DEF TypeOK, ApPing
  <2>3. FlagsOK'
    BY <1>19, Zenon DEF TypeOK, FlagsOK, ApPing, apRest
  <2>4. PlacesOK'
    BY <1>19 DEF TypeOK, PlacesOK, ApPing, ApPlaces, apRest, mainVars
  <2>5. QED
    BY <2>2, <2>3, <2>4 DEF TypeOK
<1>20. ASSUME ApPingReply PROVE TypeOK'
  <2>1. CtrlTypeOK'
    BY <1>20, TakeType DEF TypeOK, ApPingReply, TakeReply
  <2>2. FlagsOK'
    BY <1>20, Zenon DEF TypeOK, FlagsOK, ApPingReply
  <2>3. PlacesOK'
    BY <1>20, SemPostValue DEF TypeOK, PlacesOK, ApPingReply, PostCommand, ApPlaces, mainVars
  <2>4. QED
    BY <2>1, <2>2, <2>3 DEF TypeOK
<1>21. ASSUME ApPingFails PROVE TypeOK'
  <2>1. CtrlTypeOK'
    BY <1>21, StillType DEF TypeOK, ApPingFails, CannotSend, NoReply
  <2>2. FlagsOK'
    BY <1>21, Zenon DEF TypeOK, FlagsOK, ApPingFails
  <2>3. PlacesOK'
    BY <1>21, SemPostValue DEF TypeOK, PlacesOK, ApPingFails, PostCommand, ApPlaces, mainVars
  <2>4. QED
    BY <2>1, <2>2, <2>3 DEF TypeOK
<1>22. ASSUME ApClose PROVE TypeOK'
  <2>1. "ap" \in Threads /\ "DETACH" \in Commands
    BY DEF Threads, Commands
  <2>2. CtrlTypeOK'
    BY <1>22, <2>1, SendType, StillType DEF TypeOK, ApClose, CannotSend
  <2>3. FlagsOK'
    BY <1>22, Zenon DEF TypeOK, FlagsOK, ApClose, Unregister, apRest
  <2>4. PlacesOK'
    BY <1>22 DEF TypeOK, PlacesOK, ApClose, ApPlaces, apRest, mainVars
  <2>5. QED
    BY <2>2, <2>3, <2>4 DEF TypeOK
<1>23. ASSUME ApDetached PROVE TypeOK'
  <2>1. CtrlTypeOK'
    BY <1>23, TakeType, StillType DEF TypeOK, ApDetached, TakeReply, NoReply
  <2>2. FlagsOK'
    BY <1>23, Zenon DEF TypeOK, FlagsOK, ApDetached, apRest
  <2>3. PlacesOK'
    BY <1>23 DEF TypeOK, PlacesOK, ApDetached, ApPlaces, apRest, mainVars
  <2>4. QED
    BY <2>1, <2>2, <2>3 DEF TypeOK
<1>24. ASSUME ApFree PROVE TypeOK'
  <2>1. CtrlTypeOK'
    BY <1>24, CloseLinkType DEF TypeOK, ApFree
  <2>2. FlagsOK'
    BY <1>24, Zenon DEF TypeOK, FlagsOK, ApFree
  <2>3. PlacesOK'
    BY <1>24 DEF TypeOK, PlacesOK, ApFree, ApPlaces
  <2>4. QED
    BY <2>1, <2>2, <2>3 DEF TypeOK
<1>90. QED
  BY <1>1, <1>2, <1>3, <1>4, <1>5, <1>6, <1>7, <1>8, <1>9, <1>10, <1>11, <1>12, <1>13, <1>14, <1>15, <1>16, <1>17, <1>18, <1>19, <1>20, <1>21, <1>22, <1>23, <1>24 DEF ApStep

\* A step of hostapd, a signal, the end of the process, or none of these.
LEMMA TypeEnvironment ==
  TypeOK /\ (HostapdAnswers \/ HostapdStep \/ Interrupt \/ Ended \/ UNCHANGED vars) => TypeOK'
<1> SUFFICES ASSUME TypeOK
    PROVE HostapdAnswers \/ HostapdStep \/ Interrupt \/ Ended \/ UNCHANGED vars => TypeOK'
  OBVIOUS
<1>1. ASSUME HostapdAnswers PROVE TypeOK'
  <2>1. (listed < MaxStations) \in BOOLEAN
    OBVIOUS
  <2>2. CtrlTypeOK'
    BY <1>1, <2>1, AnswerType DEF TypeOK, HostapdAnswers
  <2>3. FlagsOK'
    BY <1>1 DEF TypeOK, FlagsOK, HostapdAnswers, apVars
  <2>4. PlacesOK'
    BY <1>1 DEF TypeOK, PlacesOK, HostapdAnswers, mainVars, apVars
  <2>5. QED
    BY <2>2, <2>3, <2>4 DEF TypeOK
<1>2. ASSUME HostapdStep PROVE TypeOK'
  <2>1. CtrlTypeOK'
    BY <1>2, HostapdType DEF TypeOK, HostapdStep
  <2>2. FlagsOK'
    BY <1>2, Zenon DEF TypeOK, FlagsOK, HostapdStep, apVars
  <2>3. PlacesOK'
    BY <1>2 DEF TypeOK, PlacesOK, HostapdStep, mainVars, apVars
  <2>4. QED
    BY <2>1, <2>2, <2>3 DEF TypeOK
<1>3. ASSUME Interrupt PROVE TypeOK'
  <2>1. CtrlTypeOK'
    BY <1>3, StillType DEF TypeOK, Interrupt
  <2>2. FlagsOK'
    BY <1>3, Zenon DEF TypeOK, FlagsOK, Interrupt, apVars
  <2>3. PlacesOK'
    BY <1>3 DEF TypeOK, PlacesOK, Interrupt, mainVars, apVars
  <2>4. QED
    BY <2>1, <2>2, <2>3 DEF TypeOK
<1>4. ASSUME UNCHANGED vars PROVE TypeOK'
  <2>1. CtrlTypeOK'
    BY <1>4, StillType DEF TypeOK, vars
  <2>2. FlagsOK'
    BY <1>4, Zenon DEF TypeOK, FlagsOK, vars, apVars
  <2>3. PlacesOK'
    BY <1>4 DEF TypeOK, PlacesOK, vars, mainVars, apVars
  <2>4. QED
    BY <2>1, <2>2, <2>3 DEF TypeOK
<1>5. QED
  BY <1>1, <1>2, <1>3, <1>4 DEF Ended

LEMMA TypeStep == TypeOK /\ [Next]_vars => TypeOK'
  BY TypeMain, TypeAp, TypeEnvironment DEF Next

\* Every variable keeps its type: the semaphore stays within its range, the
\* queues of the connection hold requests and answers only, and the count of
\* messages left never passes zero.
THEOREM TypeCorrect == Spec => []TypeOK
  BY TypeInit, TypeStep, PTL DEF Spec
----------------------------------------------------------------------------
(* The semaphore protocol.  Only the main thread waits, so that a post of  *)
(* either thread, once made, is there until the main thread takes it.      *)

LEMMA SemInit == Init => SemInv
  BY DEF Init, SemInv, SubmittedNeverBlocks, BootPlaces

\* The main thread posts for itself, at the end of its command.
LEMMA SemMain == PlacesOK /\ SemInv /\ MainStep => SemInv'
<1> SUFFICES ASSUME PlacesOK, SemInv PROVE MainStep => SemInv'
  OBVIOUS
<1>1. semaphore \in 0..SemValueMax
  BY DEF PlacesOK
<1>2. ASSUME MainStart PROVE SemInv'
  BY <1>1, <1>2 DEF SemInv, SubmittedNeverBlocks, MainStart, SemWait, apVars
<1>3. ASSUME MainCall PROVE SemInv'
  BY <1>1, <1>3 DEF SemInv, SubmittedNeverBlocks, MainCall, apVars
<1>4. ASSUME MainQuit PROVE SemInv'
  BY <1>1, <1>4, SemPostValue DEF SemInv, SubmittedNeverBlocks, MainQuit, apVars
<1>5. ASSUME MainDrop PROVE SemInv'
  BY <1>1, <1>5 DEF SemInv, SubmittedNeverBlocks, MainDrop, apVars
<1>6. ASSUME MainPass PROVE SemInv'
  BY <1>1, <1>6 DEF SemInv, SubmittedNeverBlocks, MainPass, apVars
<1>7. ASSUME MainSend PROVE SemInv'
  BY <1>1, <1>7 DEF SemInv, SubmittedNeverBlocks, MainSend, apVars
<1>8. ASSUME MainSendFails PROVE SemInv'
  BY <1>1, <1>8 DEF SemInv, SubmittedNeverBlocks, MainSendFails, apVars
<1>9. ASSUME MainCrash PROVE SemInv'
  BY <1>1, <1>9 DEF SemInv, SubmittedNeverBlocks, MainCrash, apVars
<1>10. ASSUME MainTakesEvent PROVE SemInv'
  BY <1>1, <1>10 DEF SemInv, SubmittedNeverBlocks, MainTakesEvent, apVars, mainVars
<1>11. ASSUME MainTakesReply PROVE SemInv'
  BY <1>1, <1>11 DEF SemInv, SubmittedNeverBlocks, MainTakesReply, apVars
<1>12. ASSUME MainNoReply PROVE SemInv'
  BY <1>1, <1>12 DEF SemInv, SubmittedNeverBlocks, MainNoReply, apVars
<1>13. ASSUME MainPost PROVE SemInv'
  BY <1>1, <1>13, SemPostValue DEF SemInv, SubmittedNeverBlocks, MainPost, PostCommand, apVars
<1>14. ASSUME MainResume PROVE SemInv'
  BY <1>1, <1>14 DEF SemInv, SubmittedNeverBlocks, MainResume, SemWait, apVars
<1>15. ASSUME MainJoin PROVE SemInv'
  BY <1>1, <1>15 DEF SemInv, SubmittedNeverBlocks, MainJoin, apVars
<1>90. QED
  BY <1>2, <1>3, <1>4, <1>5, <1>6, <1>7, <1>8, <1>9, <1>10, <1>11, <1>12, <1>13, <1>14, <1>15 DEF MainStep

\* The ap thread never takes from the semaphore; it leaves "boot" with a post.
LEMMA SemAp == PlacesOK /\ SemInv /\ ApStep => SemInv'
<1> SUFFICES ASSUME PlacesOK, SemInv PROVE ApStep => SemInv'
  OBVIOUS
<1>1. semaphore \in 0..SemValueMax
  BY DEF PlacesOK
<1>2. ASSUME ApInit PROVE SemInv'
  BY <1>1, <1>2 DEF SemInv, SubmittedNeverBlocks, BootPlaces, ApInit, apRest, mainVars
<1>3. ASSUME ApInitFails PROVE SemInv'
  BY <1>1, <1>3 DEF SemInv, SubmittedNeverBlocks, BootPlaces, ApInitFails, apRest, mainVars
<1>4. ASSUME ApOpen PROVE SemInv'
  BY <1>1, <1>4 DEF SemInv, SubmittedNeverBlocks, BootPlaces, ApOpen, apRest, mainVars
<1>5. ASSUME ApOpenFails PROVE SemInv'
  BY <1>1, <1>5 DEF SemInv, SubmittedNeverBlocks, BootPlaces, ApOpenFails, apRest, mainVars
<1>6. ASSUME ApAttach PROVE SemInv'
  BY <1>1, <1>6 DEF SemInv, SubmittedNeverBlocks, BootPlaces, ApAttach, Reconnected, apRest, mainVars
<1>7. ASSUME ApAttached PROVE SemInv'
  BY <1>1, <1>7 DEF SemInv, SubmittedNeverBlocks, BootPlaces, ApAttached, apRest, mainVars
<1>8. ASSUME ApNotAttached PROVE SemInv'
  BY <1>1, <1>8 DEF SemInv, SubmittedNeverBlocks, BootPlaces, ApNotAttached, Reconnected, apRest, mainVars
<1>9. ASSUME ApAskStation PROVE SemInv'
  BY <1>1, <1>9 DEF SemInv, SubmittedNeverBlocks, BootPlaces, ApAskStation, Reconnected, apRest, mainVars
<1>10. ASSUME ApStation PROVE SemInv'
  BY <1>1, <1>10 DEF SemInv, SubmittedNeverBlocks, BootPlaces, ApStation, apRest, mainVars
<1>11. ASSUME ApStationsEnd PROVE SemInv'
  BY <1>1, <1>11 DEF SemInv, SubmittedNeverBlocks, BootPlaces, ApStationsEnd, Reconnected, apRest, mainVars
<1>12. ASSUME ApTakesEvent PROVE SemInv'
  BY <1>1, <1>12 DEF SemInv, SubmittedNeverBlocks, BootPlaces, ApTakesEvent, apRest, mainVars, apVars
<1>13. ASSUME ApSignal PROVE SemInv'
  BY <1>1, <1>13, SemPostValue DEF SemInv, SubmittedNeverBlocks, BootPlaces, ApSignal, mainVars
<1>14. ASSUME ApSelect PROVE SemInv'
  BY <1>1, <1>14 DEF SemInv, SubmittedNeverBlocks, BootPlaces, ApSelect, apRest, mainVars
<1>15. ASSUME ApLeave PROVE SemInv'
  BY <1>1, <1>15 DEF SemInv, SubmittedNeverBlocks, BootPlaces, ApLeave, Cleanup, apRest, mainVars
<1>16. ASSUME ApReadable PROVE SemInv'
  BY <1>1, <1>16 DEF SemInv, SubmittedNeverBlocks, BootPlaces, ApReadable, apRest, mainVars
<1>17. ASSUME ApRecv PROVE SemInv'
  BY <1>1, <1>17 DEF SemInv, SubmittedNeverBlocks, BootPlaces, ApRecv, apRest, mainVars, apVars
<1>18. ASSUME ApRecvEnd PROVE SemInv'
  BY <1>1, <1>18 DEF SemInv, SubmittedNeverBlocks, BootPlaces, ApRecvEnd, apRest, mainVars
<1>19. ASSUME ApTimer PROVE SemInv'
  BY <1>1, <1>19 DEF SemInv, SubmittedNeverBlocks, BootPlaces, ApTimer, apRest, mainVars
<1>20. ASSUME ApPing PROVE SemInv'
  BY <1>1, <1>20 DEF SemInv, SubmittedNeverBlocks, BootPlaces, ApPing, apRest, mainVars
<1>21. ASSUME ApPingReply PROVE SemInv'
  BY <1>1, <1>21, SemPostValue DEF SemInv, SubmittedNeverBlocks, BootPlaces, ApPingReply, PostCommand, mainVars
<1>22. ASSUME ApPingFails PROVE SemInv'
  BY <1>1, <1>22, SemPostValue DEF SemInv, SubmittedNeverBlocks, BootPlaces, ApPingFails, PostCommand, mainVars
<1>23. ASSUME ApClose PROVE SemInv'
  BY <1>1, <1>23 DEF SemInv, SubmittedNeverBlocks, BootPlaces, ApClose, apRest, mainVars
<1>24. ASSUME ApDetached PROVE SemInv'
  BY <1>1, <1>24 DEF SemInv, SubmittedNeverBlocks, BootPlaces, ApDetached, apRest, mainVars
<1>25. ASSUME ApFree PROVE SemInv'
  BY <1>1, <1>25 DEF SemInv, SubmittedNeverBlocks, BootPlaces, ApFree
<1>90. QED
  BY <1>2, <1>3, <1>4, <1>5, <1>6, <1>7, <1>8, <1>9, <1>10, <1>11, <1>12, <1>13, <1>14, <1>15, <1>16, <1>17, <1>18, <1>19, <1>20, <1>21, <1>22, <1>23, <1>24, <1>25 DEF ApStep

----------------------------------------------------------------------------
(* The connection: who may close it, and what is gone by then.             *)

\* What happens to ctrl_conn in the steps that use the connection.
LEMMA LinkKept ==
  /\ \A t, c : Send(t, c) => UNCHANGED link
  /\ TakeDatagram => UNCHANGED link
  /\ UNCHANGED ctrlVars => UNCHANGED link
  /\ OpenLink => Connected'
  /\ CloseLink => ~Connected'
  BY DEF Send, TakeDatagram, ctrlVars, OpenLink, CloseLink, Connected

\* hostapd may leave a connection dead, but only the client closes it.
LEMMA LinkHostapd ==
  /\ \A more : Answer(more) => UNCHANGED link
  /\ SendEvent \/ HostapdStops \/ HostapdStarts => Connected' = Connected
<1>1. ASSUME NEW more, Answer(more) PROVE UNCHANGED link
  BY <1>1, Zenon DEF Answer
<1>2. ASSUME SendEvent \/ HostapdStarts PROVE UNCHANGED link
  BY <1>2 DEF SendEvent, HostapdStarts
<1>3. ASSUME HostapdStops PROVE Connected' = Connected
  BY <1>3 DEF HostapdStops, Connected
<1>4. QED
  BY <1>1, <1>2, <1>3 DEF Connected

LEMMA ConnInit == Init => ConnInv
  BY DEF Init, CtrlInit, ConnInv, HandlerOnlyWhileAttached, ConnectedPlaces, Connected

\* The main thread has no part in it.
LEMMA ConnMain == ConnInv /\ MainStep => ConnInv'
<1> SUFFICES ASSUME ConnInv, MainStep PROVE ConnInv'
  OBVIOUS
<1>1. UNCHANGED link
  BY LinkKept, Zenon DEF MainStep, MainStart, MainCall, MainQuit, MainDrop, MainPass, MainSend, MainSendFails, MainCrash, MainTakesEvent, MainTakesReply, MainNoReply, MainPost, MainResume, MainJoin, CannotSend, TakeEvent, TakeReply, NoReply
<1>2. UNCHANGED apVars
  BY Zenon DEF MainStep, MainStart, MainCall, MainQuit, MainDrop, MainPass, MainSend, MainSendFails, MainCrash, MainTakesEvent, MainTakesReply, MainNoReply, MainPost, MainResume, MainJoin
<1>3. QED
  BY <1>1, <1>2 DEF ConnInv, HandlerOnlyWhileAttached, Connected, apVars

LEMMA ConnAp == ConnInv /\ ApStep => ConnInv'
<1> SUFFICES ASSUME ConnInv PROVE ApStep => ConnInv'
  OBVIOUS
<1>1. ASSUME ApInit PROVE ConnInv'
  BY <1>1, LinkKept DEF ConnInv, HandlerOnlyWhileAttached, ConnectedPlaces, Connected, ApInit
<1>2. ASSUME ApInitFails PROVE ConnInv'
  BY <1>2, LinkKept DEF ConnInv, HandlerOnlyWhileAttached, ConnectedPlaces, Connected, ApInitFails
<1>3. ASSUME ApOpen PROVE ConnInv'
  BY <1>3, LinkKept DEF ConnInv, HandlerOnlyWhileAttached, ConnectedPlaces, Connected, ApOpen
<1>4. ASSUME ApOpenFails PROVE ConnInv'
  BY <1>4, LinkKept DEF ConnInv, HandlerOnlyWhileAttached, ConnectedPlaces, Connected, ApOpenFails
<1>5. ASSUME ApAttach PROVE ConnInv'
  BY <1>5, LinkKept DEF ConnInv, HandlerOnlyWhileAttached, ConnectedPlaces, Connected, ApAttach, CannotSend, Reconnected
<1>6. ASSUME ApAttached PROVE ConnInv'
  BY <1>6, LinkKept DEF ConnInv, HandlerOnlyWhileAttached, ConnectedPlaces, Connected, ApAttached, TakeReply
<1>7. ASSUME ApNotAttached PROVE ConnInv'
  BY <1>7, LinkKept DEF ConnInv, HandlerOnlyWhileAttached, ConnectedPlaces, Connected, ApNotAttached, TakeReply, NoReply, Reconnected
<1>8. ASSUME ApAskStation PROVE ConnInv'
  BY <1>8, LinkKept DEF ConnInv, HandlerOnlyWhileAttached, ConnectedPlaces, Connected, ApAskStation, CannotSend, Reconnected
<1>9. ASSUME ApStation PROVE ConnInv'
  BY <1>9, LinkKept DEF ConnInv, HandlerOnlyWhileAttached, ConnectedPlaces, Connected, ApStation, TakeReply
<1>10. ASSUME ApStationsEnd PROVE ConnInv'
  BY <1>10, LinkKept DEF ConnInv, HandlerOnlyWhileAttached, ConnectedPlaces, Connected, ApStationsEnd, TakeReply, NoReply, Reconnected
<1>11. ASSUME ApTakesEvent PROVE ConnInv'
  BY <1>11, LinkKept DEF ConnInv, HandlerOnlyWhileAttached, ConnectedPlaces, Connected, ApTakesEvent, TakeEvent, apVars
<1>12. ASSUME ApSignal PROVE ConnInv'
  BY <1>12, LinkKept DEF ConnInv, HandlerOnlyWhileAttached, ConnectedPlaces, Connected, ApSignal
<1>13. ASSUME ApSelect PROVE ConnInv'
  BY <1>13, LinkKept DEF ConnInv, HandlerOnlyWhileAttached, ConnectedPlaces, Connected, ApSelect
<1>14. ASSUME ApLeave PROVE ConnInv'
  BY <1>14, LinkKept DEF ConnInv, HandlerOnlyWhileAttached, ConnectedPlaces, Connected, ApLeave, Unregister, Cleanup
<1>15. ASSUME ApReadable PROVE ConnInv'
  BY <1>15, LinkKept DEF ConnInv, HandlerOnlyWhileAttached, ConnectedPlaces, Connected, ApReadable
<1>16. ASSUME ApRecv PROVE ConnInv'
  BY <1>16, LinkKept DEF ConnInv, HandlerOnlyWhileAttached, ConnectedPlaces, Connected, ApRecv, apVars
<1>17. ASSUME ApRecvEnd PROVE ConnInv'
  BY <1>17, LinkKept DEF ConnInv, HandlerOnlyWhileAttached, ConnectedPlaces, Connected, ApRecvEnd
<1>18. ASSUME ApTimer PROVE ConnInv'
  BY <1>18, LinkKept DEF ConnInv, HandlerOnlyWhileAttached, ConnectedPlaces, Connected, ApTimer
<1>19. ASSUME ApPing PROVE ConnInv'
  BY <1>19, LinkKept DEF ConnInv, HandlerOnlyWhileAttached, ConnectedPlaces, Connected, ApPing
<1>20. ASSUME ApPingReply PROVE ConnInv'
  BY <1>20, LinkKept DEF ConnInv, HandlerOnlyWhileAttached, ConnectedPlaces, Connected, ApPingReply, TakeReply
<1>21. ASSUME ApPingFails PROVE ConnInv'
  BY <1>21, LinkKept DEF ConnInv, HandlerOnlyWhileAttached, ConnectedPlaces, Connected, ApPingFails, CannotSend, NoReply
<1>22. ASSUME ApClose PROVE ConnInv'
  BY <1>22, LinkKept DEF ConnInv, HandlerOnlyWhileAttached, ConnectedPlaces, Connected, ApClose, CannotSend, Unregister
<1>23. ASSUME ApDetached PROVE ConnInv'
  BY <1>23, LinkKept DEF ConnInv, HandlerOnlyWhileAttached, ConnectedPlaces, Connected, ApDetached, TakeReply, NoReply
<1>24. ASSUME ApFree PROVE ConnInv'
  BY <1>24, LinkKept DEF ConnInv, HandlerOnlyWhileAttached, ConnectedPlaces, Connected, ApFree
<1>90. QED
  BY <1>1, <1>2, <1>3, <1>4, <1>5, <1>6, <1>7, <1>8, <1>9, <1>10, <1>11, <1>12, <1>13, <1>14, <1>15, <1>16, <1>17, <1>18, <1>19, <1>20, <1>21, <1>22, <1>23, <1>24 DEF ApStep

----------------------------------------------------------------------------
(* The inductive invariant, and what follows from it. *)

LEMMA IInvStep == IInv /\ [Next]_vars => IInv'
<1> SUFFICES ASSUME IInv, [Next]_vars PROVE SemInv' /\ ConnInv'
  BY TypeStep DEF IInv
<1> USE DEF IInv, TypeOK
<1>1. CASE MainStep
  BY <1>1, SemMain, ConnMain
<1>2. CASE ApStep
  BY <1>2, SemAp, ConnAp
<1>3. CASE HostapdAnswers
  <2>1. UNCHANGED <<link, semaphore, mainVars, apVars>>
    BY <1>3, LinkHostapd, Zenon DEF HostapdAnswers
  <2>2. QED
    BY <2>1 DEF SemInv, ConnInv, SubmittedNeverBlocks, HandlerOnlyWhileAttached, Connected, mainVars, apVars
<1>4. CASE HostapdStep
  <2>1. (Connected' = Connected) /\ UNCHANGED <<semaphore, mainVars, apVars>>
    BY <1>4, LinkHostapd, Zenon DEF HostapdStep
  <2>2. SemInv'
    BY <2>1 DEF SemInv, SubmittedNeverBlocks, mainVars, apVars
  <2>3. ConnInv'
    BY <2>1 DEF ConnInv, HandlerOnlyWhileAttached, apVars
  <2>4. QED
    BY <2>2, <2>3
<1>5. CASE Interrupt \/ UNCHANGED vars
  <2>1. UNCHANGED <<ctrlVars, semaphore, mainVars, apVars>>
    BY <1>5, Zenon DEF Interrupt, vars
  <2>2. QED
    BY <2>1, LinkKept DEF SemInv, ConnInv, SubmittedNeverBlocks, HandlerOnlyWhileAttached, Connected, mainVars, apVars
<1>6. QED
  BY <1>1, <1>2, <1>3, <1>4, <1>5 DEF Next, Ended

\* The three parts together are inductive.
THEOREM Invariance == Spec => []IInv
<1>1. Init => IInv
  BY TypeInit, SemInit, ConnInit DEF IInv
<1>2. QED
  BY <1>1, IInvStep, PTL DEF Spec

\* A command that was not dropped never blocks the main thread, however the
\* pings of the ap thread interleave with it and however hostapd fails.
THEOREM SubmittedIsSafe == Spec => []SubmittedNeverBlocks
<1>1. IInv => SubmittedNeverBlocks
  BY DEF IInv, SemInv
<1>2. QED
  BY <1>1, Invariance, PTL

\* The main thread starts to transmit after the first connection only.
THEOREM StartIsSafe == Spec => []StartsConnected
<1>1. IInv => StartsConnected
  BY DEF IInv, SemInv, StartsConnected
<1>2. QED
  BY <1>1, Invariance, PTL

\* The event loop never watches the descriptor of a closed connection.
THEOREM HandlerIsSafe == Spec => []HandlerOnlyWhileAttached
<1>1. IInv => HandlerOnlyWhileAttached
  BY DEF IInv, ConnInv
<1>2. QED
  BY <1>1, Invariance, PTL

\* An exited ap thread has released everything it held.
THEOREM ExitIsClean == Spec => []LeavesNothingOpen
<1>1. IInv => LeavesNothingOpen
  BY DEF IInv, ConnInv, LeavesNothingOpen
<1>2. QED
  BY <1>1, Invariance, PTL

----------------------------------------------------------------------------
(* The way to the exit, once the event loop has been told to end. *)

\* The moves of the ap thread from place to place, but for those that list a
\* station, or begin or end the event loop.
Onward ==
  \/ apc = "init" /\ apc' \in {"open", "exited"}
  \/ apc = "open" /\ apc' \in {"attach", "loop"}
  \/ apc = "attach" /\ apc' \in {"attachWait", "recv"}
  \/ apc = "attachWait" /\ apc' = "recv"
  \/ apc = "stations" /\ apc' \in {"stationsWait", "recv"}
  \/ apc = "stationsWait" /\ apc' = "recv"
  \/ apc = "select" /\ apc' \in {"recv", "ping", "open"}
  \/ apc = "recv" /\ apc' = "loop"
  \/ apc = "ping" /\ apc' \in {"pingWait", "close"}
  \/ apc = "pingWait" /\ apc' \in {"recv", "close"}
  \/ apc = "close" /\ apc' \in {"detachWait", "free"}
  \/ apc = "detachWait" /\ apc' = "free"
  \/ apc = "free" /\ apc' = IF phase = "leave" THEN "exited" ELSE "open"

\* What the ap thread may do when it has once been connected and is told to end.
LEMMA ApMoves ==
  ASSUME ApStep, terminate, phase # "boot"
  PROVE  \/ UNCHANGED <<apc, phase, listed>> /\ inbox # <<>> /\ inbox' = Tail(inbox)
         \/ UNCHANGED <<phase, listed>> /\ Onward
         \/ phase' = phase /\ apc = "attachWait" /\ apc' = "stations" /\ listed' = 0
         \/ /\ phase' = phase /\ apc = "stationsWait" /\ apc' = "stations"
            /\ listed < MaxStations /\ listed' = listed + 1
         \/ listed' = listed /\ apc = "signal" /\ apc' = "loop" /\ phase' = "run"
         \/ listed' = listed /\ apc = "loop" /\ apc' \in {"close", "exited"} /\ phase' = "leave"
<1>. USE DEF Onward
<1>1. CASE ApInit \/ ApInitFails \/ ApOpen \/ ApOpenFails
  BY <1>1 DEF ApInit, ApInitFails, ApOpen, ApOpenFails
<1>2. CASE ApAttach \/ ApAttached \/ ApNotAttached
  BY <1>2 DEF ApAttach, ApAttached, ApNotAttached, Reconnected
<1>3. CASE ApAskStation \/ ApStation \/ ApStationsEnd
  BY <1>3 DEF ApAskStation, ApStation, ApStationsEnd, Reconnected
<1>4. CASE ApTakesEvent \/ ApRecv
  BY <1>4 DEF ApTakesEvent, ApRecv, TakeEvent, TakeDatagram, apVars
<1>5. CASE ApSignal \/ ApSelect \/ ApLeave
  BY <1>5 DEF ApSignal, ApSelect, ApLeave, Cleanup
<1>6. CASE ApReadable \/ ApRecvEnd \/ ApTimer
  BY <1>6 DEF ApReadable, ApRecvEnd, ApTimer
<1>7. CASE ApPing \/ ApPingReply \/ ApPingFails
  BY <1>7 DEF ApPing, ApPingReply, ApPingFails
<1>8. CASE ApClose \/ ApDetached \/ ApFree
  BY <1>8 DEF ApClose, ApDetached, ApFree
<1>. QED  BY <1>1, <1>2, <1>3, <1>4, <1>5, <1>6, <1>7, <1>8 DEF ApStep

LEMMA DistanceValues ==
  ASSUME NEW n \in 0..MaxStations, NEW l \in BOOLEAN
  PROVE  /\ DistanceFrom("exited", l, n) = 0
         /\ DistanceFrom("free", l, n) = IF l THEN 1 ELSE 11 + 2 * MaxStations
         /\ DistanceFrom("detachWait", l, n) = IF l THEN 2 ELSE 12 + 2 * MaxStations
         /\ DistanceFrom("close", l, n) = IF l THEN 3 ELSE 13 + 2 * MaxStations
         /\ DistanceFrom("loop", l, n) = 4
         /\ DistanceFrom("recv", l, n) = 5
         /\ DistanceFrom("stationsWait", l, n) = 6 + 2 * (MaxStations - n)
         /\ DistanceFrom("stations", l, n) = 7 + 2 * (MaxStations - n)
         /\ DistanceFrom("attachWait", l, n) = 8 + 2 * MaxStations
         /\ DistanceFrom("attach", l, n) = 9 + 2 * MaxStations
         /\ DistanceFrom("open", l, n) = 10 + 2 * MaxStations
         /\ DistanceFrom("pingWait", l, n) = 14 + 2 * MaxStations
         /\ DistanceFrom("ping", l, n) = 15 + 2 * MaxStations
         /\ \A p \in {"select", "init", "signal"} : DistanceFrom(p, l, n) = 16 + 2 * MaxStations
BY DEF DistanceFrom

\* Away from close, detachWait and free it makes no difference whether the
\* thread is leaving, and away from the stations how many are listed.
LEMMA DistanceFalls ==
  ASSUME TypeOK, ApStep, terminate, phase # "boot"
  PROVE  \/ Distance' < Distance
         \/ Distance' = Distance /\ Len(inbox') < Len(inbox)
<1>. DEFINE r == phase = "leave"
<1>0. /\ MaxStations \in Nat /\ listed \in 0..MaxStations /\ inbox \in Seq(Datagram)
      /\ apc \in ApPlaces /\ r \in BOOLEAN /\ 0 \in 0..MaxStations
  <2>1. MaxStations \in Nat /\ inbox \in Seq(Datagram) /\ apc \in ApPlaces /\ listed \in 0..MaxStations
    BY WpaCtrlAssumption DEF TypeOK, CtrlTypeOK, PlacesOK
  <2>. QED  BY <2>1
<1>1. CASE UNCHANGED <<apc, phase, listed>> /\ inbox # <<>> /\ inbox' = Tail(inbox)
  <2>1. Distance' = Distance
    BY <1>1 DEF Distance
  <2>2. Len(inbox') < Len(inbox)
    BY <1>0, <1>1
  <2>. QED  BY <2>1, <2>2
<1>2. CASE UNCHANGED <<phase, listed>> /\ Onward
  <2>1. Distance = DistanceFrom(apc, r, listed) /\ Distance' = DistanceFrom(apc', r, listed)
    BY <1>2 DEF Distance
  <2>. HIDE DEF r
  <2>2. DistanceFrom(apc', r, listed) < DistanceFrom(apc, r, listed)
    <3>1. CASE apc \in {"init", "open"}
      BY <1>0, <1>2, <3>1, DistanceValues DEF Onward
    <3>5. CASE apc \in {"attach", "attachWait"}
      BY <1>0, <1>2, <3>5, DistanceValues DEF Onward
    <3>6. CASE apc \in {"select", "recv"}
      BY <1>0, <1>2, <3>6, DistanceValues DEF Onward
    <3>7. CASE apc \in {"ping", "pingWait"}
      BY <1>0, <1>2, <3>7, DistanceValues DEF Onward
    <3>2. CASE apc \in {"stations", "stationsWait"}
      BY <1>0, <1>2, <3>2, DistanceValues DEF Onward
    <3>3. CASE apc \in {"close", "detachWait"}
      BY <1>0, <1>2, <3>3, DistanceValues DEF Onward
    <3>4. CASE apc = "free"
      <4>1. apc' = IF r THEN "exited" ELSE "open"
        BY <1>2, <3>4 DEF Onward, r
      <4>. QED  BY <1>0, <3>4, <4>1, DistanceValues
    <3>. QED  BY <1>2, <3>1, <3>2, <3>3, <3>4, <3>5, <3>6, <3>7 DEF Onward
  <2>. QED  BY <2>1, <2>2
<1>3. CASE phase' = phase /\ apc = "attachWait" /\ apc' = "stations" /\ listed' = 0
  <2>1. Distance = DistanceFrom("attachWait", r, listed) /\ Distance' = DistanceFrom("stations", r, 0)
    BY <1>3 DEF Distance
  <2>. HIDE DEF r
  <2>. QED  BY <1>0, <2>1, DistanceValues
<1>4. CASE /\ phase' = phase /\ apc = "stationsWait" /\ apc' = "stations"
           /\ listed < MaxStations /\ listed' = listed + 1
  <2>1. /\ Distance = DistanceFrom("stationsWait", r, listed)
        /\ Distance' = DistanceFrom("stations", r, listed + 1)
    BY <1>4 DEF Distance
  <2>. HIDE DEF r
  <2>2. listed + 1 \in 0..MaxStations
    BY <1>0, <1>4
  <2>. QED  BY <1>0, <2>1, <2>2, DistanceValues
<1>5. CASE listed' = listed /\ apc = "signal" /\ apc' = "loop" /\ phase' = "run"
  <2>1. Distance = DistanceFrom("signal", r, listed) /\ Distance' = 4
    BY <1>5 DEF Distance, DistanceFrom
  <2>. HIDE DEF r
  <2>. QED  BY <1>0, <2>1, DistanceValues
<1>6. CASE listed' = listed /\ apc = "loop" /\ apc' \in {"close", "exited"} /\ phase' = "leave"
  <2>1. Distance = 4
    BY <1>6 DEF Distance, DistanceFrom
  <2>2. Distance' = 3 \/ Distance' = 0
    BY <1>6 DEF Distance, DistanceFrom
  <2>. QED  BY <2>1, <2>2
<1>. QED  BY <1>1, <1>2, <1>3, <1>4, <1>5, <1>6, ApMoves

\* Nobody but the ap thread changes where it is.
LEMMA DistanceStays ==
  ASSUME [Next]_vars, ~ApStep
  PROVE  Distance' = Distance
<1>1. UNCHANGED apVars
  <2>1. CASE MainStep
    BY <2>1 DEF MainStep, MainStart, MainCall, MainQuit, MainDrop, MainPass, MainSend, MainSendFails,
       MainCrash, MainTakesEvent, MainTakesReply, MainNoReply, MainPost, MainResume, MainJoin
  <2>2. CASE Interrupt \/ HostapdAnswers \/ HostapdStep \/ Ended \/ UNCHANGED vars
    BY <2>2 DEF Interrupt, HostapdAnswers, HostapdStep, Ended, vars
  <2>. QED  BY <2>1, <2>2 DEF Next
<1>. QED  BY <1>1 DEF apVars, Distance

\* Who tells the event loop to end does it after the first connection.
TellInv == terminate => phase # "boot"

LEMMA TellKeeps ==
  ASSUME IInv, TellInv, [Next]_vars
  PROVE  TellInv'
<1>1. CASE MainStep
  <2>1. phase' = phase /\ (terminate' = terminate \/ MainQuit)
    BY <1>1 DEF MainStep, MainStart, MainCall, MainDrop, MainPass, MainSend, MainSendFails, MainQuit,
       MainCrash, MainTakesEvent, MainTakesReply, MainNoReply, MainPost, MainResume, MainJoin, apVars
  <2>2. MainQuit => phase # "boot"
    BY DEF MainQuit, IInv, SemInv
  <2>. QED  BY <2>1, <2>2 DEF TellInv
<1>2. CASE ApStep
  <2>1. terminate' = terminate /\ (phase' = phase \/ phase' \in {"run", "leave"})
    BY <1>2 DEF ApStep, ApInit, ApInitFails, ApOpen, ApOpenFails, ApAttach, ApAttached, ApNotAttached,
       ApAskStation, ApStation, ApStationsEnd, ApTakesEvent, ApSignal, ApSelect, ApLeave, ApReadable,
       ApRecv, ApRecvEnd, ApTimer, ApPing, ApPingReply, ApPingFails, ApClose, ApDetached, ApFree,
       apRest, apVars
  <2>. QED  BY <2>1 DEF TellInv
<1>3. CASE Interrupt
  BY <1>3 DEF Interrupt, TellInv, apVars
<1>4. CASE HostapdAnswers \/ HostapdStep \/ Ended \/ UNCHANGED vars
  BY <1>4 DEF HostapdAnswers, HostapdStep, Ended, vars, apVars, TellInv
<1>. QED  BY <1>1, <1>2, <1>3, <1>4 DEF Next

\* For every number of stations, events and failures of hostapd, and wherever
\* the ap thread is when it is told to end, each of its steps takes it nearer to
\* its exit or a datagram off the socket: it never pings, reconnects or attaches
\* a second time.
THEOREM QuitIsNear == Spec => NeverBeginsAnew
<1>1. Init => IInv /\ TellInv
  BY TypeInit, SemInit, ConnInit DEF IInv, Init, TellInv
<1>2. IInv /\ TellInv /\ [Next]_vars => IInv' /\ TellInv'
  BY IInvStep, TellKeeps
<1>3. IInv /\ TellInv /\ [Next]_vars
      => [terminate => \/ Distance' < Distance
                       \/ Distance' = Distance /\ (ApStep => Len(inbox') < Len(inbox))]_vars
  BY DistanceFalls, DistanceStays DEF IInv, TellInv
<1>. QED  BY <1>1, <1>2, <1>3, PTL DEF Spec, NeverBeginsAnew
============================================================================
