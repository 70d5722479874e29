------------------------------ MODULE WpaCtrl ------------------------------
(***************************************************************************)
(* The control connection between transmit and the hostapd daemon, as      *)
(* ap_interface.c uses it: one UNIX datagram socket, opened with           *)
(* wpa_ctrl_open2 and shared by both threads of the program.  hostapd and  *)
(* its wpa_ctrl library are not part of the repository; what is modelled   *)
(* here is the contract the callers in ap_interface.c rely on.             *)
(*                                                                         *)
(* A request is a datagram that hostapd executes and answers in the order  *)
(* of arrival.  wpa_ctrl_request sends one and then takes datagrams from   *)
(* the socket until one is not an event: nothing ties a reply to the       *)
(* request it answers.                                                     *)
(***************************************************************************)
EXTENDS Naturals, Sequences

CONSTANTS
  MaxQueue,     \* datagrams a socket queues before the kernel refuses more
  MaxEvents,    \* bound: events hostapd sends to its monitors in a behaviour
  MaxFaults,    \* bound: times hostapd goes down in a behaviour
  MaxStations   \* stations associated with the access point

ASSUME WpaCtrlAssumption ==
  /\ MaxQueue \in Nat \ {0}
  /\ MaxEvents \in Nat
  /\ MaxFaults \in Nat
  /\ MaxStations \in Nat

VARIABLES
  hostapd,     \* "up" or "down"
  link,        \* "none": ctrl_conn = NULL; "live": open; "dead": open, its hostapd has gone
  requests,    \* sent to hostapd and not yet executed
  inbox,       \* received on the client's socket and not yet read
  monitor,     \* hostapd sends its events to the client
  eventsLeft,  \* events still to come
  faultsLeft   \* failures of hostapd still to come

ctrlVars == <<hostapd, link, requests, inbox, monitor, eventsLeft, faultsLeft>>

Threads  == {"main", "ap"}
Commands == {"SET", "UPDATE_BEACON", "PING", "ATTACH", "DETACH", "STA"}

\* back: the socket the request came from is still open.
Request  == [by : Threads, cmd : Commands, back : BOOLEAN]
\* Nothing in an answer names its request.
Datagram == [event : BOOLEAN, ok : BOOLEAN]

Event == [event |-> TRUE, ok |-> TRUE]

CtrlTypeOK ==
  /\ hostapd \in {"up", "down"}
  /\ link \in {"none", "live", "dead"}
  /\ requests \in Seq(Request)
  /\ inbox \in Seq(Datagram)
  /\ monitor \in BOOLEAN
  /\ eventsLeft \in 0..MaxEvents
  /\ faultsLeft \in 0..MaxFaults

CtrlInit ==
  /\ hostapd \in {"up", "down"}
  /\ link = "none"
  /\ requests = <<>>
  /\ inbox = <<>>
  /\ monitor = FALSE
  /\ eventsLeft = MaxEvents
  /\ faultsLeft = MaxFaults

----------------------------------------------------------------------------
(* The client's side: the pieces of wpa_ctrl_open2, wpa_ctrl_close and     *)
(* wpa_ctrl_request that the actions of BeaconLink are made of.            *)

Connected == link # "none"

OpenLink ==
  /\ hostapd = "up"
  /\ link' = "live"
  /\ inbox' = <<>>
  /\ UNCHANGED <<hostapd, requests, monitor, eventsLeft, faultsLeft>>

\* What was sent stays with hostapd; its answer has nowhere to go.
CloseLink ==
  /\ link' = "none"
  /\ inbox' = <<>>
  /\ requests' = [i \in DOMAIN requests |-> [requests[i] EXCEPT !.back = FALSE]]
  /\ monitor' = FALSE
  /\ UNCHANGED <<hostapd, eventsLeft, faultsLeft>>

CanSend == link = "live" /\ Len(requests) < MaxQueue

Send(t, c) ==
  /\ CanSend
  /\ requests' = Append(requests, [by |-> t, cmd |-> c, back |-> TRUE])
  /\ UNCHANGED <<hostapd, link, inbox, monitor, eventsLeft, faultsLeft>>

CannotSend ==
  /\ ~CanSend
  /\ UNCHANGED ctrlVars

TakeDatagram ==
  /\ inbox # <<>>
  /\ inbox' = Tail(inbox)
  /\ UNCHANGED <<hostapd, link, requests, monitor, eventsLeft, faultsLeft>>

TakeEvent == TakeDatagram /\ Head(inbox).event
TakeReply == TakeDatagram /\ ~Head(inbox).event

\* The select of wpa_ctrl_request ran out of time, or the other thread
\* emptied the socket between the select and the recv.
NoReply ==
  /\ inbox = <<>>
  /\ UNCHANGED ctrlVars

----------------------------------------------------------------------------
(* hostapd *)

\* hostapd executes the oldest request and answers it; an answer that does
\* not fit into the client's socket is lost.  more: the station list goes on.
Answer(more) ==
  \E ok \in BOOLEAN :
    LET r     == Head(requests)
        reply == [event |-> FALSE, ok |-> ok]
    IN  /\ requests # <<>>
        /\ r.cmd = "STA" => ok = more
        /\ requests' = Tail(requests)
        /\ inbox' = IF r.back /\ Len(inbox) < MaxQueue THEN Append(inbox, reply) ELSE inbox
        /\ monitor' = CASE r.cmd = "ATTACH" /\ r.back -> ok
                        [] r.cmd = "DETACH" /\ r.back -> FALSE
                        [] OTHER -> monitor
        /\ UNCHANGED <<hostapd, link, eventsLeft, faultsLeft>>

\* An event: a station came or went.
SendEvent ==
  /\ monitor
  /\ eventsLeft > 0
  /\ Len(inbox) < MaxQueue
  /\ inbox' = Append(inbox, Event)
  /\ eventsLeft' = eventsLeft - 1
  /\ UNCHANGED <<hostapd, link, requests, monitor, faultsLeft>>

HostapdStops ==
  /\ hostapd = "up"
  /\ faultsLeft > 0
  /\ hostapd' = "down"
  /\ faultsLeft' = faultsLeft - 1
  /\ link' = IF link = "live" THEN "dead" ELSE link
  /\ requests' = <<>>
  /\ monitor' = FALSE
  /\ UNCHANGED <<inbox, eventsLeft>>

\* A new hostapd knows nothing of the sockets connected to the old one.
HostapdStarts ==
  /\ hostapd = "down"
  /\ hostapd' = "up"
  /\ UNCHANGED <<link, requests, inbox, monitor, eventsLeft, faultsLeft>>
============================================================================
