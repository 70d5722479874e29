----------------------------- MODULE BeaconLink -----------------------------
(***************************************************************************)
(* The Wi-Fi Beacon transport: the main thread of transmit (wifi_beacon.c, *)
(* called from transmit.c) and the thread that runs ap_interface_init      *)
(* (ap_interface.c), with the semaphore, the event loop's terminate flag   *)
(* and the hostapd connection they share.                                  *)
(*                                                                         *)
(* The ap thread opens the connection, attaches to hostapd's events, posts *)
(* the semaphore and then serves an event loop: every ping_interval a PING *)
(* that closes and reopens a lost connection, and a handler that reads     *)
(* whatever arrives on the socket.  The main thread sends each message as  *)
(* a SET and an UPDATE_BEACON over the same connection and waits for the   *)
(* semaphore after each; at the end it asks the loop to quit and joins.    *)
(*                                                                         *)
(* ctrl_conn # NULL is Connected (module WpaCtrl): ctrl_conn changes only  *)
(* where the link is opened and closed.                                    *)
(***************************************************************************)
EXTENDS WpaCtrl

CONSTANTS
  SemValueMax,   \* the largest value of a semaphore; sem_post fails beyond it
  Messages,      \* messages the main thread sends before it quits
  ThreadFaults   \* subset of {"init", "signal"}: ap_interface_init may fail; SIGINT or SIGTERM may come

ASSUME BeaconLinkAssumption ==
  /\ SemValueMax \in Nat \ {0}
  /\ Messages \in Nat \ {0}
  /\ ThreadFaults \subseteq {"init", "signal"}

VARIABLES
  semaphore,   \* the value of the process-wide semaphore
  terminate,   \* eloop_terminate has been called
  mpc,         \* where the main thread is
  mcmd,        \* the command it issues next or is issuing
  mctrl,       \* the ctrl argument of its wpa_request: "null", "open", or "freed" since
  mres,        \* how its last command ended
  left,        \* messages it has still to send
  apc,         \* where the ap thread is
  phase,       \* of the ap thread: "boot" (first connection), "run" (event loop), "leave"
  attached,    \* hostapd_cli_attached
  event_handler_registered,
  listed,      \* stations the current update_stations has listed
  executed     \* history: hostapd has executed the main thread's command

mainVars == <<mpc, mcmd, mctrl, mres, left>>
apVars   == <<apc, phase, attached, event_handler_registered, listed>>
vars     == <<ctrlVars, semaphore, terminate, mainVars, apVars, executed>>

MainPlaces == {"start", "idle", "check", "send", "sent", "post", "wait", "join", "done", "crashed"}
ApPlaces   == {"init", "open", "attach", "attachWait", "stations", "stationsWait", "signal",
               "loop", "select", "recv", "ping", "pingWait", "close", "detachWait", "free", "exited"}

FlagsOK ==
  /\ terminate \in BOOLEAN
  /\ attached \in BOOLEAN
  /\ event_handler_registered \in BOOLEAN
  /\ executed \in BOOLEAN

PlacesOK ==
  /\ semaphore \in 0..SemValueMax
  /\ mpc \in MainPlaces
  /\ mcmd \in {"SET", "UPDATE_BEACON", "QUIT"}
  /\ mpc \in {"send", "sent", "post"} => mcmd # "QUIT"
  /\ mctrl \in {"null", "open", "freed"}
  /\ mres \in {"none", "reply", "no reply", "not sent", "dropped", "quit"}
  /\ left \in 0..Messages
  /\ mcmd # "QUIT" => left > 0
  /\ apc \in ApPlaces
  /\ phase \in {"boot", "run", "leave"}
  /\ listed \in 0..MaxStations

TypeOK == CtrlTypeOK /\ FlagsOK /\ PlacesOK

Init ==
  /\ CtrlInit
  /\ semaphore = 0
  /\ terminate = FALSE
  /\ mpc = "start" /\ mcmd = "SET" /\ mctrl = "null" /\ mres = "none" /\ left = Messages
  /\ apc = "init" /\ phase = "boot"
  /\ attached = FALSE /\ event_handler_registered = FALSE /\ listed = 0
  /\ executed = FALSE

SemPost == semaphore' = IF semaphore < SemValueMax THEN semaphore + 1 ELSE semaphore

SemWait == semaphore > 0 /\ semaphore' = semaphore - 1

\* Variants: the post comes after the error returns; a ping does not post.
PostCommandIfReplied(t, ret) ==
  IF ret = "reply" THEN SemPost ELSE UNCHANGED semaphore
PostCommandOfMain(t, ret) ==
  IF t = "main" THEN SemPost ELSE UNCHANGED semaphore

\* The end of _wpa_ctrl_command, for a command of thread t: sem_post, before
\* anyone looks at how wpa_ctrl_request ended.
PostCommand(t, ret) == SemPost

\* Variant: quit needs a connection, like the other commands.
TerminateConnected == terminate' = (terminate \/ Connected)

\* eloop_terminate in hostapd_cli_cmd_quit.
TerminateLoop == terminate' = TRUE

\* The command after cmd, with n messages left, cmd's one included.
NextCommand(cmd, n) ==
  CASE cmd = "SET" -> "UPDATE_BEACON"
    [] cmd = "UPDATE_BEACON" /\ n > 1 -> "SET"
    [] OTHER -> "QUIT"

\* Variant: the commands are counted, not the messages.
LeftAfterCommand(cmd, n) == n - 1

LeftAfter(cmd, n) == IF cmd = "UPDATE_BEACON" THEN n - 1 ELSE n

----------------------------------------------------------------------------
(* The main thread *)

\* sem_wait in main: the ap thread has connected.
MainStart ==
  /\ mpc = "start"
  /\ SemWait
  /\ mpc' = "idle"
  /\ UNCHANGED <<ctrlVars, terminate, mcmd, mctrl, mres, left, apVars, executed>>

\* The call of wpa_request evaluates its argument ctrl_conn.
MainCall ==
  /\ mpc = "idle"
  /\ mpc' = "check"
  /\ mctrl' = IF Connected THEN "open" ELSE "null"
  /\ executed' = FALSE
  /\ UNCHANGED <<ctrlVars, semaphore, terminate, mcmd, mres, left, apVars>>

\* hostapd_cli_cmd_quit
MainQuit ==
  /\ mpc = "check" /\ mcmd = "QUIT"
  /\ TerminateLoop
  /\ SemPost
  /\ mpc' = "wait" /\ mres' = "quit"
  /\ UNCHANGED <<ctrlVars, mcmd, mctrl, left, apVars, executed>>

\* _wpa_ctrl_command looks at ctrl_conn, not at its argument.
MainDrop ==
  /\ mpc = "check" /\ mcmd # "QUIT" /\ ~Connected
  /\ mpc' = "wait" /\ mres' = "dropped"
  /\ UNCHANGED <<ctrlVars, semaphore, terminate, mcmd, mctrl, left, apVars, executed>>

MainPass ==
  /\ mpc = "check" /\ mcmd # "QUIT" /\ Connected
  /\ mpc' = "send"
  /\ UNCHANGED <<ctrlVars, semaphore, terminate, mcmd, mctrl, mres, left, apVars, executed>>

\* A freed ctrl may have been reused for the connection open now.
MainSend ==
  /\ mpc = "send" /\ mctrl # "null"
  /\ Send("main", mcmd)
  /\ mpc' = "sent"
  /\ UNCHANGED <<semaphore, terminate, mcmd, mctrl, mres, left, apVars, executed>>

MainSendFails ==
  /\ mpc = "send"
  /\ \/ mctrl = "open" /\ CannotSend
     \/ mctrl = "freed" /\ UNCHANGED ctrlVars
  /\ mpc' = "post" /\ mres' = "not sent"
  /\ UNCHANGED <<semaphore, terminate, mcmd, mctrl, left, apVars, executed>>

\* wpa_ctrl_request dereferences NULL, or memory given back by wpa_ctrl_close.
MainCrash ==
  /\ \/ mpc = "send" /\ mctrl # "open"
     \/ mpc = "sent" /\ mctrl = "freed"
  /\ mpc' = "crashed"
  /\ UNCHANGED <<ctrlVars, semaphore, terminate, mcmd, mctrl, mres, left, apVars, executed>>

MainTakesEvent ==
  /\ mpc = "sent"
  /\ TakeEvent
  /\ UNCHANGED <<semaphore, terminate, mainVars, apVars, executed>>

MainTakesReply ==
  /\ mpc = "sent"
  /\ TakeReply
  /\ mpc' = "post" /\ mres' = "reply"
  /\ UNCHANGED <<semaphore, terminate, mcmd, mctrl, left, apVars, executed>>

MainNoReply ==
  /\ mpc = "sent"
  /\ \/ NoReply
     \/ mctrl = "freed" /\ UNCHANGED ctrlVars
  /\ mpc' = "post" /\ mres' = "no reply"
  /\ UNCHANGED <<semaphore, terminate, mcmd, mctrl, left, apVars, executed>>

MainPost ==
  /\ mpc = "post"
  /\ PostCommand("main", mres)
  /\ mpc' = "wait" /\ mctrl' = "null"
  /\ UNCHANGED <<ctrlVars, terminate, mcmd, mres, left, apVars, executed>>

\* sem_wait after wpa_request, and the choice of what to send next.
MainResume ==
  /\ mpc = "wait"
  /\ SemWait
  /\ mctrl' = "null"
  /\ mpc' = IF mcmd = "QUIT" THEN "join" ELSE "idle"
  /\ left' = LeftAfter(mcmd, left)
  /\ mcmd' = NextCommand(mcmd, left)
  /\ UNCHANGED <<ctrlVars, terminate, mres, apVars, executed>>

MainJoin ==
  /\ mpc = "join" /\ apc = "exited"
  /\ mpc' = "done"
  /\ UNCHANGED <<ctrlVars, semaphore, terminate, mcmd, mctrl, mres, left, apVars, executed>>

MainStep ==
  \/ MainStart \/ MainCall \/ MainQuit \/ MainDrop \/ MainPass
  \/ MainSend \/ MainSendFails \/ MainCrash
  \/ MainTakesEvent \/ MainTakesReply \/ MainNoReply
  \/ MainPost \/ MainResume \/ MainJoin

----------------------------------------------------------------------------
(* The ap thread *)

apRest == <<semaphore, terminate, mainVars, executed>>

\* Variant: the flag outlives the registration.
UnregisterSocketOnly == UNCHANGED event_handler_registered

\* unregister_event_handler
Unregister == event_handler_registered' = (event_handler_registered /\ ~Connected)

\* What follows hostapd_cli_reconnect: sem_post after the first connection,
\* hostapd_cli_recv_pending in hostapd_cli_ping.
Reconnected == apc' = IF phase = "boot" THEN "signal" ELSE "recv"

\* Variant: the semaphore says that the thread runs.
ApInitPosts ==
  /\ apc = "init"
  /\ SemPost
  /\ apc' = "open"
  /\ UNCHANGED <<ctrlVars, terminate, mainVars, executed, phase, attached, event_handler_registered, listed>>

\* os_program_init and eloop_init.
ApInit ==
  /\ apc = "init"
  /\ apc' = "open"
  /\ UNCHANGED <<ctrlVars, apRest, phase, attached, event_handler_registered, listed>>

\* pthread_exit before the semaphore was posted.
ApInitFails ==
  /\ "init" \in ThreadFaults
  /\ apc = "init"
  /\ apc' = "exited"
  /\ UNCHANGED <<ctrlVars, apRest, phase, attached, event_handler_registered, listed>>

\* hostapd_cli_open_connection; a failure is retried, at boot after a
\* second's sleep and otherwise at the next ping.
ApOpen ==
  /\ apc = "open"
  /\ OpenLink
  /\ apc' = "attach"
  /\ UNCHANGED <<apRest, phase, attached, event_handler_registered, listed>>

ApOpenFails ==
  /\ apc = "open" /\ phase = "run"
  /\ hostapd = "down"
  /\ apc' = "loop"
  /\ UNCHANGED <<ctrlVars, apRest, phase, attached, event_handler_registered, listed>>

\* wpa_ctrl_attach in hostapd_cli_reconnect.
ApAttach ==
  /\ apc = "attach"
  /\ \/ Send("ap", "ATTACH") /\ apc' = "attachWait"
     \/ CannotSend /\ Reconnected
  /\ UNCHANGED <<apRest, phase, attached, event_handler_registered, listed>>

\* Only "OK" will do; then register_event_handler, where eloop_register_read_sock
\* may fail (out of memory: then no event wakes the loop), and update_stations.
ApAttached ==
  /\ apc = "attachWait"
  /\ TakeReply /\ Head(inbox).ok
  /\ attached' = TRUE /\ event_handler_registered' \in BOOLEAN
  /\ listed' = 0
  /\ apc' = "stations"
  /\ UNCHANGED <<apRest, phase>>

ApNotAttached ==
  /\ apc = "attachWait"
  /\ (TakeReply /\ ~Head(inbox).ok) \/ NoReply
  /\ Reconnected
  /\ UNCHANGED <<apRest, phase, attached, event_handler_registered, listed>>

\* update_stations: STA-FIRST, then STA-NEXT until there is no other.
ApAskStation ==
  /\ apc = "stations"
  /\ \/ Send("ap", "STA") /\ apc' = "stationsWait"
     \/ CannotSend /\ Reconnected
  /\ UNCHANGED <<apRest, phase, attached, event_handler_registered, listed>>

ApStation ==
  /\ apc = "stationsWait"
  /\ TakeReply /\ Head(inbox).ok /\ listed < MaxStations
  /\ listed' = listed + 1
  /\ apc' = "stations"
  /\ UNCHANGED <<apRest, phase, attached, event_handler_registered>>

ApStationsEnd ==
  /\ apc = "stationsWait"
  /\ \/ TakeReply /\ ~(Head(inbox).ok /\ listed < MaxStations)
     \/ NoReply
  /\ Reconnected
  /\ UNCHANGED <<apRest, phase, attached, event_handler_registered, listed>>

\* wpa_ctrl_request passes events on to its callback and keeps waiting.
ApTakesEvent ==
  /\ apc \in {"attachWait", "stationsWait", "pingWait", "detachWait"}
  /\ TakeEvent
  /\ UNCHANGED <<apRest, apVars>>

\* Variant: the connection counts when hostapd has accepted the attachment.
ApSignalAttached ==
  /\ apc = "signal"
  /\ IF attached THEN SemPost ELSE UNCHANGED semaphore
  /\ apc' = "loop" /\ phase' = "run"
  /\ UNCHANGED <<ctrlVars, terminate, mainVars, executed, attached, event_handler_registered, listed>>

\* "Indicate that connection has been established", then hostapd_cli_interactive.
ApSignal ==
  /\ apc = "signal"
  /\ SemPost
  /\ apc' = "loop" /\ phase' = "run"
  /\ UNCHANGED <<ctrlVars, terminate, mainVars, executed, attached, event_handler_registered, listed>>

\* Variant: the loop is not told to end by the flag.
ApSelectAnyway ==
  /\ apc = "loop"
  /\ apc' = "select"
  /\ UNCHANGED <<ctrlVars, apRest, phase, attached, event_handler_registered, listed>>

\* The head of eloop_run.
ApSelect ==
  /\ apc = "loop" /\ ~terminate
  /\ apc' = "select"
  /\ UNCHANGED <<ctrlVars, apRest, phase, attached, event_handler_registered, listed>>

\* Variant: only an attached connection is closed.
CleanupAttached == apc' = IF attached THEN "close" ELSE "exited"

\* hostapd_cli_cleanup: hostapd_cli_close_connection, if there is one.
Cleanup == apc' = IF Connected THEN "close" ELSE "exited"

\* The event loop has ended: unregister_event_handler, hostapd_cli_cleanup.
ApLeave ==
  /\ apc = "loop" /\ terminate
  /\ phase' = "leave"
  /\ Unregister
  /\ Cleanup
  /\ UNCHANGED <<ctrlVars, apRest, attached, listed>>

\* hostapd_cli_receive
ApReadable ==
  /\ apc = "select" /\ event_handler_registered /\ inbox # <<>>
  /\ apc' = "recv"
  /\ UNCHANGED <<ctrlVars, apRest, phase, attached, event_handler_registered, listed>>

\* hostapd_cli_recv_pending prints a reply like an event, and it is gone.
ApRecv ==
  /\ apc = "recv"
  /\ TakeDatagram
  /\ UNCHANGED <<apRest, apVars>>

ApRecvEnd ==
  /\ apc = "recv" /\ inbox = <<>>
  /\ apc' = "loop"
  /\ UNCHANGED <<ctrlVars, apRest, phase, attached, event_handler_registered, listed>>

\* hostapd_cli_ping, from the timeout of the event loop.
ApTimer ==
  /\ apc = "select"
  /\ apc' = IF Connected THEN "ping" ELSE "open"
  /\ UNCHANGED <<ctrlVars, apRest, phase, attached, event_handler_registered, listed>>

ApPing ==
  /\ apc = "ping"
  /\ Send("ap", "PING")
  /\ apc' = "pingWait"
  /\ UNCHANGED <<apRest, phase, attached, event_handler_registered, listed>>

\* Any reply will do.  A PING posts the semaphore like any other command.
ApPingReply ==
  /\ apc = "pingWait"
  /\ TakeReply
  /\ PostCommand("ap", "reply")
  /\ apc' = "recv"
  /\ UNCHANGED <<terminate, mainVars, executed, phase, attached, event_handler_registered, listed>>

\* "Connection to hostapd lost": hostapd_cli_close_connection.
ApPingFails ==
  /\ \/ apc = "ping" /\ CannotSend
     \/ apc = "pingWait" /\ NoReply
  /\ PostCommand("ap", "no reply")
  /\ apc' = "close"
  /\ UNCHANGED <<terminate, mainVars, executed, phase, attached, event_handler_registered, listed>>

\* unregister_event_handler, and wpa_ctrl_detach if attached.
ApClose ==
  /\ apc = "close"
  /\ Unregister
  /\ \/ attached /\ Send("ap", "DETACH") /\ apc' = "detachWait"
     \/ ~attached /\ UNCHANGED ctrlVars /\ apc' = "free"
     \/ attached /\ CannotSend /\ apc' = "free"
  /\ UNCHANGED <<apRest, phase, attached, listed>>

ApDetached ==
  /\ apc = "detachWait"
  /\ TakeReply \/ NoReply
  /\ apc' = "free"
  /\ UNCHANGED <<apRest, phase, attached, event_handler_registered, listed>>

\* hostapd_cli_attached = 0, wpa_ctrl_close, ctrl_conn = NULL; a ping then reconnects.
ApFree ==
  /\ apc = "free"
  /\ CloseLink
  /\ attached' = FALSE
  /\ mctrl' = IF mctrl = "open" THEN "freed" ELSE mctrl
  /\ apc' = IF phase = "leave" THEN "exited" ELSE "open"
  /\ UNCHANGED <<semaphore, terminate, mpc, mcmd, mres, left, executed, phase, event_handler_registered, listed>>

ApStep ==
  \/ ApInit \/ ApInitFails \/ ApOpen \/ ApOpenFails
  \/ ApAttach \/ ApAttached \/ ApNotAttached
  \/ ApAskStation \/ ApStation \/ ApStationsEnd \/ ApTakesEvent
  \/ ApSignal \/ ApSelect \/ ApLeave
  \/ ApReadable \/ ApRecv \/ ApRecvEnd
  \/ ApTimer \/ ApPing \/ ApPingReply \/ ApPingFails
  \/ ApClose \/ ApDetached \/ ApFree

----------------------------------------------------------------------------
(* The environment *)

\* The main thread's command is the last of its requests, if it was sent.
LastOfMain(i) == \A j \in DOMAIN requests : j > i => requests[j].by # "main"

HostapdAnswers ==
  /\ Answer(listed < MaxStations)
  /\ executed' = (executed \/ (mpc = "sent" /\ Head(requests).by = "main" /\ LastOfMain(1)))
  /\ UNCHANGED <<semaphore, terminate, mainVars, apVars>>

HostapdStep ==
  /\ SendEvent \/ HostapdStops \/ HostapdStarts
  /\ UNCHANGED <<semaphore, terminate, mainVars, apVars, executed>>

\* hostapd_cli_eloop_terminate, registered by hostapd_cli_interactive.
Interrupt ==
  /\ "signal" \in ThreadFaults
  /\ phase = "run"
  /\ terminate' = TRUE
  /\ UNCHANGED <<ctrlVars, semaphore, mainVars, apVars, executed>>

\* The process has ended.
Ended ==
  /\ mpc \in {"done", "crashed"}
  /\ UNCHANGED vars

Next ==
  \/ mpc # "crashed" /\ (MainStep \/ ApStep \/ Interrupt)
  \/ HostapdAnswers \/ HostapdStep
  \/ Ended

\* Both threads are scheduled; every blocking call in them has a timeout,
\* a semaphore or a join behind it.
Spec == Init /\ [][Next]_vars
        /\ WF_vars(mpc # "crashed" /\ MainStep)
        /\ WF_vars(mpc # "crashed" /\ ApStep)
        /\ WF_vars(HostapdAnswers)
----------------------------------------------------------------------------
(* Properties *)

\* A command that ran to the end of its handler (wpa_request returned after
\* a sem_post) never leaves the main thread blocked in the sem_wait that
\* follows; only a command dropped for want of a connection can.
SubmittedNeverBlocks == mpc = "wait" /\ mres # "dropped" => semaphore > 0

\* The main thread passes its first sem_wait only when the ap thread has
\* opened its first connection: no other post comes earlier.
StartsConnected == mpc # "start" => phase # "boot"

\* hostapd_cli_receive is registered for the socket of an open connection
\* that is attached, never for one that has been closed: the descriptor
\* would be another file's.
HandlerOnlyWhileAttached == event_handler_registered => attached /\ Connected

\* When the ap thread has exited it has given back the connection, the
\* attachment and the event handler, whatever state it was interrupted in.
LeavesNothingOpen ==
  apc = "exited" => ~Connected /\ ~attached /\ ~event_handler_registered

\* Once the ap thread has exited nobody posts any more.  The main thread is
\* then left in a sem_wait for two reasons only: the thread could not start at
\* all, or the command it waits for was dropped.  Neither is forbidden here: the
\* code has both (transmit.c:390, ap_interface.c:176), and no third.
AbandonedOnlyByFailure ==
  apc = "exited" /\ mpc \in {"start", "wait"} /\ semaphore = 0
  => phase = "boot" \/ mres = "dropped"

\* Where the ap thread may be before its first post, and where it relies on
\* an open connection.
BootPlaces      == {"init", "open", "attach", "attachWait", "stations", "stationsWait", "signal", "exited"}
ConnectedPlaces == {"attach", "attachWait", "stations", "stationsWait", "ping", "pingWait",
                    "close", "detachWait", "free"}

\* No post before the first connection; from then on a command that was not
\* dropped has its post.
SemInv ==
  /\ phase = "boot" => mpc = "start" /\ semaphore = 0 /\ apc \in BootPlaces
  /\ SubmittedNeverBlocks

\* hostapd_cli_attached stands for an open connection, the handler is gone
\* before the connection is, and both before the thread exits or reconnects.
ConnInv ==
  /\ attached => Connected
  /\ HandlerOnlyWhileAttached
  /\ apc \in ConnectedPlaces => Connected
  /\ apc \in {"detachWait", "free"} => ~event_handler_registered
  /\ apc \in {"init", "open", "exited"} => ~Connected /\ ~attached /\ ~event_handler_registered

\* The invariant that every step preserves, and that implies the four above.  It
\* is about the ap thread's use of its connection; that main may use one that was
\* closed under it is the matter of UnconnectedCommandDropped.
IInv == TypeOK /\ SemInv /\ ConnInv

\* The session that this is an implementation of: where the main thread is in
\* its command, the commands before the quit, and the life of the ap thread.
Session == INSTANCE BeaconSession WITH
  Issued  <- 2 * Messages,
  client  <- IF mpc \in {"check", "send", "sent", "post"} THEN "busy" ELSE mpc,
  before  <- CASE mcmd = "SET" -> 2 * left
               [] mcmd = "UPDATE_BEACON" -> 2 * left - 1
               [] OTHER -> 0,
  dropped <- mpc = "wait" /\ mres = "dropped",
  thread  <- IF apc = "exited" THEN "exited" ELSE IF phase = "boot" THEN "boot" ELSE "run",
  told    <- terminate

\* What else the steps of the session rely on: a command that was dropped is
\* not on its way, a thread exits or leaves only where it must, and one that
\* has connected has posted.
SessionInv ==
  /\ mpc = "post" => mres # "dropped"
  /\ apc \in {"init", "signal"} => phase = "boot"
  /\ apc = "exited" => phase # "run"
  /\ mpc = "start" /\ phase # "boot" => semaphore > 0
  /\ phase = "leave" => terminate /\ apc \in {"close", "detachWait", "free", "exited"}

\* Both threads, hostapd and the connection together do what the callers in
\* transmit.c and wifi_beacon.c rely on and nothing else: one post for each
\* command that was not dropped, none before the first connection, a quit that
\* is never dropped, and a thread that exits only when it was told to.
ImplementsSession == Session!Spec

\* Once the main thread has told the event loop to quit, both threads end,
\* whether or not there is a hostapd to answer.
QuitCompletes == mpc = "wait" /\ mcmd = "QUIT" ~> mpc = "done"

\* How far the ap thread is from its exit once it has been told to end: the
\* places of the event loop in the order in which it can still pass them, with
\* the stations it may still list, and then those of hostapd_cli_cleanup.
DistanceFrom(place, leaving, n) ==
  LET Rounds == 2 * (MaxStations - n)
      Far    == 2 * MaxStations
  IN  CASE place = "exited"       -> 0
        [] place = "free"         -> IF leaving THEN 1 ELSE 11 + Far
        [] place = "detachWait"   -> IF leaving THEN 2 ELSE 12 + Far
        [] place = "close"        -> IF leaving THEN 3 ELSE 13 + Far
        [] place = "loop"         -> 4
        [] place = "recv"         -> 5
        [] place = "stationsWait" -> 6 + Rounds
        [] place = "stations"     -> 7 + Rounds
        [] place = "attachWait"   -> 8 + Far
        [] place = "attach"       -> 9 + Far
        [] place = "open"         -> 10 + Far
        [] place = "pingWait"     -> 14 + Far
        [] place = "ping"         -> 15 + Far
        [] OTHER                  -> 16 + Far

Distance == DistanceFrom(apc, phase = "leave", listed)

\* Why a quit is over soon (hostapd_cli_cmd_quit, hostapd_cli_interactive):
\* once told, the ap thread may still find its connection lost, reconnect,
\* attach and list stations, but it never begins anew.  Each of its steps takes
\* it nearer to its exit or a datagram off the socket, and nobody else's step
\* takes it back.
NeverBeginsAnew ==
  [][terminate => \/ Distance' < Distance
                  \/ Distance' = Distance /\ (ApStep => Len(inbox') < Len(inbox))]_vars

\* A transmission ends if hostapd comes back whenever it has gone and the
\* event loop is told to end by nobody but the main thread: a command that was
\* dropped leaves the main thread waiting for a post, and the pings of the ap
\* thread supply it.
TransmissionEnds ==
  []<>(hostapd = "up") /\ [](terminate => mcmd = "QUIT") => <>(mpc \in {"done", "crashed"})

\* ap_interface.c:183, "Indicate the command has been processed to the end":
\* a post that lets the main thread go on to its next command means that
\* this one was not dropped.
PostMeansProcessed == [][mpc = "wait" /\ mpc' = "idle" => mres # "dropped"]_vars

\* No ping is under way.
NoPings == apc \notin {"ping", "pingWait"}

\* README.md:117, messages "not properly acknowledged by the lower SW
\* layers": a command of the main thread is left without a reply only when
\* hostapd has not answered it.
UnacknowledgedByHostapd == mpc = "post" /\ mres = "no reply" => ~executed

\* What would spare the main thread its crashes: the ap thread opens and gives
\* back the connection only while no command is between the evaluation of
\* ctrl_conn and the end of its wpa_ctrl_request.
ConnectionHeld == ~(mpc \in {"check", "send", "sent"} /\ apc \in {"open", "free"})

\* ap_interface.c:176, "Not connected to hostapd - command dropped.": without
\* a connection at the time of the call the command goes nowhere.
UnconnectedCommandDropped == mpc = "send" => mctrl # "null"
============================================================================
