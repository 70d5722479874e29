------------------------------ MODULE Transmit ------------------------------
(***************************************************************************)
(* The life of the program (transmit.c): the main thread from the command  *)
(* line to exit, the loop of messages with their counters, the gps thread  *)
(* (module GpsFeed), signals, and cleanup.                                 *)
(*                                                                         *)
(* The ap thread is here what BeaconLink shows of it: it posts once it is  *)
(* connected, takes over SIGINT and SIGTERM for its event loop, pings      *)
(* hostapd, closes the connection it has lost and opens another, and ends  *)
(* when that loop is told to quit or is signalled.  A command posts as a   *)
(* whole, or is dropped and does not; that it may take its connection from *)
(* under a close is the step MainCrashes.  The Bluetooth transports are in *)
(* HciAdvertising.                                                         *)
(***************************************************************************)
EXTENDS GpsFeed

CONSTANTS
  CommandLines,  \* the options given, as records [beacon, bt, packs, gps]
  CounterRange,  \* values of a uint8_t message counter, 256
  PacksPerLoop,  \* rounds of send_packs, 10
  SemValueMax,   \* the largest value of a semaphore; sem_post fails beyond it
  MaxSignals     \* bound: SIGINT or SIGTERM in a behaviour

Bluetooth == {"btl", "bt4", "bt5"}
Options   == [beacon : BOOLEAN, bt : SUBSET Bluetooth, packs : BOOLEAN, gps : BOOLEAN]

ASSUME TransmitAssumption ==
  /\ CommandLines \subseteq Options
  /\ CounterRange \in Nat \ {0}
  /\ PacksPerLoop \in Nat \ {0}
  /\ SemValueMax \in Nat \ {0}
  /\ MaxSignals \in Nat

VARIABLES
  config,      \* the options of this run
  mpc,         \* where the main thread is
  position,    \* the message of the loop under way
  encoding,    \* fields of the location still to be encoded
  encoded,     \* the location as it was encoded last
  legs,        \* transports the message has still to be given to
  counters,    \* config.msg_counters
  heard,       \* history: the last counter given to a transport, per type
  ap,          \* where the ap thread is
  ended,       \* its event loop has been told to end
  connected,   \* ctrl_conn is not NULL
  semaphore,   \* what has been posted and not been waited for
  disposition, \* of SIGINT and SIGTERM: "default", "eloop", "sig_handler"
  signals      \* still to come

mainVars == <<config, mpc, position, encoding, encoded, legs, counters, heard>>
apVars   == <<ap, ended, connected>>
vars     == <<gpsVars, kill_program, mainVars, apVars, semaphore, disposition, signals>>

Transports == Bluetooth \cup {"beacon"}
Types == {"BASIC_ID", "LOCATION", "AUTH", "SELF_ID", "SYSTEM", "OPERATOR_ID", "PACKED"}
None  == CounterRange  \* no counter yet

\* parse_command_line goes on past its errors and its help.
Accepted(o) ==
  /\ o.beacon \/ o.bt # {}
  /\ "btl" \in o.bt => o.bt = {"btl"}
  /\ o.packs => o.bt \cap {"btl", "bt4"} = {}

Places == {"start", "waitAp", "setUp", "signals", "openGps", "loop", "message", "encode", "send",
           "setWait", "update", "updateWait", "cleanup", "quit", "quitWait", "joinAp", "joinGps",
           "exit", "crashed", "killed", "aborted"}

ApPlaces == {"none", "starting", "posted", "running", "pinging", "losing", "failed", "exited"}

\* The process is no more, and with it none of its threads.
Ended == mpc \in {"exit", "crashed", "killed", "aborted"}

\* send_single_messages and send_packs.
SingleSchedule == <<"BASIC_ID", "BASIC_ID", "LOCATION", "AUTH", "AUTH", "AUTH",
                    "SELF_ID", "SYSTEM", "OPERATOR_ID">>
Schedule == IF config.packs THEN [i \in 1..PacksPerLoop |-> "PACKED"] ELSE SingleSchedule

LocationOrder == <<"latitude", "longitude", "altitude", "height">>

\* The location goes into its own message, or into the pack that
\* create_message_pack makes once for all rounds.
Encodes == IF config.packs THEN position = 1 ELSE Schedule[position] = "LOCATION"

\* send_message: Bluetooth first; send_packs: the beacon first, and bt5.
Using(t) == IF t \in config.bt \/ (t = "beacon" /\ config.beacon) THEN <<t>> ELSE <<>>
\* Variant: one of the extended transports.
LegsOneExtended ==
  IF config.packs THEN Using("beacon") \o Using("bt5")
  ELSE Using("btl") \o (IF "bt4" \in config.bt THEN <<"bt4">> ELSE Using("bt5")) \o Using("beacon")

Legs == IF config.packs THEN Using("beacon") \o Using("bt5")
                        ELSE Using("btl") \o Using("bt4") \o Using("bt5") \o Using("beacon")

TypeOK ==
  /\ GpsTypeOK
  /\ config \in CommandLines
  /\ mpc \in Places
  /\ position \in 1..(Len(Schedule) + 1)
  /\ encoding \in Seq(Fields)
  /\ encoded \in [Fields -> 0..MaxFixes]
  /\ legs \in Seq(Transports)
  /\ counters \in [Types -> 0..(CounterRange - 1)]
  /\ heard \in [Transports -> [Types -> 0..None]]
  /\ ap \in ApPlaces
  /\ ended \in BOOLEAN /\ connected \in BOOLEAN
  /\ semaphore \in 0..SemValueMax
  /\ disposition \in {"default", "eloop", "sig_handler"}
  /\ signals \in 0..MaxSignals

Init ==
  /\ GpsInit
  /\ config \in {o \in CommandLines : Accepted(o)}
  /\ mpc = "start"
  /\ position = 1
  /\ encoding = <<>>
  /\ encoded = [f \in Fields |-> 0]
  /\ legs = <<>>
  /\ counters = [m \in Types |-> 0]
  /\ heard = [t \in Transports |-> [m \in Types |-> None]]
  /\ ap = "none" /\ ended = FALSE /\ connected = FALSE
  /\ semaphore = 0
  /\ disposition = "default"
  /\ signals = MaxSignals

----------------------------------------------------------------------------
(* The main thread *)

gpsAll == <<gpsVars, kill_program>>
aside  == <<gpsAll, apVars, disposition, signals>>
others == <<aside, semaphore>>

SemPost == semaphore' = IF semaphore < SemValueMax THEN semaphore + 1 ELSE semaphore
SemWait == semaphore > 0 /\ semaphore' = semaphore - 1

\* wpa_request of a "set" or "update_beacon": posted when it has been handled,
\* in whichever way, but not when it was dropped for the lack of a connection.
Request == IF connected THEN SemPost ELSE UNCHANGED semaphore

Goto(place) == mpc' = place /\ UNCHANGED <<config, position, encoding, encoded, legs, counters, heard>>

\* pthread_create of ap_interface_init.
MainStarts ==
  /\ mpc = "start"
  /\ \/ config.beacon /\ ap' = "starting" /\ Goto("waitAp")
     \/ ~config.beacon /\ UNCHANGED ap /\ Goto("setUp")
  /\ UNCHANGED <<gpsAll, ended, connected, semaphore, disposition, signals>>

\* sem_wait; a thread that failed early has not posted.
MainConnected ==
  /\ mpc = "waitAp" /\ SemWait
  /\ Goto("setUp")
  /\ UNCHANGED aside

\* fill_example_data and init_bluetooth.
MainSetsUp ==
  /\ mpc = "setUp"
  /\ Goto(IF config.gps THEN "signals" ELSE "loop")
  /\ UNCHANGED others

MainTakesSignals ==
  /\ mpc = "signals"
  /\ disposition' = "sig_handler"
  /\ Goto("openGps")
  /\ UNCHANGED <<gpsAll, apVars, semaphore, signals>>

\* init_gps, and the gps thread.
MainOpensGps ==
  /\ mpc = "openGps"
  /\ Goto("loop")
  /\ GpsCreate
  /\ UNCHANGED <<apVars, semaphore, disposition, signals>>

\* "No gpsd running or network error": cleanup without a gps thread.
MainFindsNoGps ==
  /\ mpc = "openGps"
  /\ Goto("cleanup")
  /\ UNCHANGED others

\* The loop of messages: until kill_program with gps, and else once.
MainBegins ==
  /\ mpc = "loop" /\ ~(config.gps /\ kill_program)
  /\ mpc' = "message" /\ position' = 1
  /\ UNCHANGED <<others, config, encoding, encoded, legs, counters, heard>>

MainStops ==
  /\ mpc = "loop" /\ config.gps /\ kill_program
  /\ Goto("cleanup")
  /\ UNCHANGED others

MainEncodes ==
  /\ mpc = "message"
  /\ legs' = Legs
  /\ \/ Encodes /\ mpc' = "encode" /\ encoding' = LocationOrder
     \/ ~Encodes /\ mpc' = "send" /\ UNCHANGED encoding
  /\ UNCHANGED <<others, config, position, encoded, counters, heard>>

\* encodeLocationMessage reads a field while the gps thread may write.
MainReadsField ==
  /\ mpc = "encode"
  /\ encoded' = [encoded EXCEPT ![Head(encoding)] = location[Head(encoding)]]
  /\ encoding' = Tail(encoding)
  /\ mpc' = IF Len(encoding) = 1 THEN "send" ELSE "encode"
  /\ UNCHANGED <<others, config, position, legs, counters, heard>>

\* Variants: a count for each transport; one that does not wrap around.
CountedEach(m) == counters' = [counters EXCEPT ![m] = (@ + 1) % CounterRange]
CountedWide(m) ==
  IF config.packs \/ Len(legs) = 1
  THEN counters' = [counters EXCEPT ![m] = @ + 1]
  ELSE UNCHANGED counters

\* msg_counters[m]++ is an argument of send_message, called once for all
\* transports, but in send_packs of the function of each transport.
Counted(m) ==
  IF config.packs \/ Len(legs) = 1
  THEN counters' = [counters EXCEPT ![m] = (@ + 1) % CounterRange]
  ELSE UNCHANGED counters

\* The message under way goes to the next of its transports; the last of them
\* is the end of it.
Give ==
  /\ mpc = "send"
  /\ heard' = [heard EXCEPT ![Head(legs)][Schedule[position]] = counters[Schedule[position]]]
  /\ Counted(Schedule[position])
  /\ legs' = Tail(legs)
  /\ position' = IF Len(legs) = 1 THEN position + 1 ELSE position
  /\ UNCHANGED <<config, encoding, encoded>>

\* What follows a transport: the next one, the next message, or the end of
\* send_single_messages or send_packs.
Onward(rest, next) ==
  CASE rest # <<>> -> "send"
    [] rest = <<>> /\ next <= Len(Schedule) -> "message"
    [] OTHER -> IF config.gps THEN "loop" ELSE "cleanup"

MainGives ==
  /\ Give /\ Head(legs) \in Bluetooth
  /\ mpc' = Onward(legs', position')
  /\ UNCHANGED others

\* send_beacon_message and send_beacon_message_pack: the "set" with the
\* message, its sem_wait, the "update_beacon" and its own.
MainSets ==
  /\ Give /\ Head(legs) = "beacon"
  /\ Request
  /\ mpc' = "setWait"
  /\ UNCHANGED aside

MainIsSet ==
  /\ mpc = "setWait" /\ SemWait
  /\ Goto("update")
  /\ UNCHANGED aside

MainUpdates ==
  /\ mpc = "update" /\ Request
  /\ Goto("updateWait")
  /\ UNCHANGED aside

MainIsUpdated ==
  /\ mpc = "updateWait" /\ SemWait
  /\ Goto(Onward(legs, position))
  /\ UNCHANGED aside

\* The ap thread closes the connection that a command is using, and frees it.
MainCrashes ==
  /\ mpc = "update" \/ (mpc = "send" /\ Head(legs) = "beacon")
  /\ ap = "losing" \/ (ap = "running" /\ ended)
  /\ Goto("crashed")
  /\ UNCHANGED others

\* exit(EXIT_FAILURE) in open_hci_device or send_cmd.
MainAborts ==
  /\ \/ mpc \in {"setUp", "cleanup"} /\ config.bt # {}
     \/ mpc = "send" /\ Head(legs) \in Bluetooth
  /\ Goto("aborted")
  /\ UNCHANGED others

\* cleanup: close_bluetooth, then the threads one after the other.
AfterBeacon == Goto(IF config.gps THEN "joinGps" ELSE "exit")

MainCleansUp ==
  /\ mpc = "cleanup"
  /\ \/ config.beacon /\ Goto("quit")
     \/ ~config.beacon /\ AfterBeacon
  /\ UNCHANGED others

\* Variant: the ap thread is left to end by itself.
MainQuitsNot ==
  /\ mpc = "quit"
  /\ Goto("joinAp")
  /\ UNCHANGED others

\* send_quit: the command ends the event loop and posts, connected or not.
MainQuits ==
  /\ mpc = "quit"
  /\ ended' = TRUE /\ SemPost
  /\ Goto("quitWait")
  /\ UNCHANGED <<gpsAll, ap, connected, disposition, signals>>

MainHasQuit ==
  /\ mpc = "quitWait" /\ SemWait
  /\ Goto("joinAp")
  /\ UNCHANGED aside

MainJoinsAp ==
  /\ mpc = "joinAp" /\ ap = "exited"
  /\ AfterBeacon
  /\ UNCHANGED others

MainJoinsGps ==
  /\ mpc = "joinGps" /\ gpc = "exited"
  /\ Goto("exit")
  /\ UNCHANGED others

\* pthread_join of a thread that was never created, and its result.
MainJoinsNoThread ==
  /\ mpc = "joinGps" /\ gpc = "none"
  /\ Goto("exit") \/ Goto("crashed")
  /\ UNCHANGED others

MainStep ==
  \/ MainStarts \/ MainConnected \/ MainSetsUp \/ MainTakesSignals
  \/ MainOpensGps \/ MainFindsNoGps
  \/ MainBegins \/ MainStops \/ MainEncodes \/ MainReadsField
  \/ MainGives \/ MainSets \/ MainIsSet \/ MainUpdates \/ MainIsUpdated \/ MainCrashes \/ MainAborts
  \/ MainCleansUp \/ MainQuits \/ MainHasQuit \/ MainJoinsAp \/ MainJoinsGps \/ MainJoinsNoThread

----------------------------------------------------------------------------
(* The other threads, and signals *)

apRest == <<gpsAll, mainVars, signals>>

\* "Indicate that connection has been established", once hostapd is there.
ApPosts ==
  /\ ap = "starting" /\ ap' = "posted"
  /\ connected' = TRUE /\ SemPost
  /\ UNCHANGED <<apRest, ended, disposition>>

\* os_program_init or eloop_init has failed.
ApFails ==
  /\ ap = "starting" /\ ap' = "failed"
  /\ UNCHANGED <<apRest, ended, connected, semaphore, disposition>>

\* eloop_register_signal_terminate, then eloop_run.
ApRegisters ==
  /\ ap = "posted" /\ ap' = "running"
  /\ disposition' = "eloop"
  /\ UNCHANGED <<apRest, ended, connected, semaphore>>

\* hostapd_cli_ping, every ping_interval: a PING on a connection there is.
ApPings ==
  /\ ap = "running" /\ connected /\ ~ended
  /\ ap' = "pinging"
  /\ UNCHANGED <<apRest, ended, connected, semaphore, disposition>>

\* The PING posts whether it was answered or has failed.
ApPinged ==
  /\ ap = "pinging" /\ SemPost
  /\ ap' \in {"running", "losing"}
  /\ UNCHANGED <<apRest, ended, connected, disposition>>

\* "Connection to hostapd lost"
ApCloses ==
  /\ ap = "losing" /\ ap' = "running"
  /\ connected' = FALSE
  /\ UNCHANGED <<apRest, ended, semaphore, disposition>>

\* "Connection to hostapd re-established": now or at a later ping, or never.
\* The event loop may have been told to end while that is under way.
ApReconnects ==
  /\ ap = "running" /\ ~connected
  /\ connected' = TRUE
  /\ UNCHANGED <<apRest, ap, ended, semaphore, disposition>>

\* eloop_run returns, and hostapd_cli_cleanup closes the connection.
ApEnds ==
  /\ ap = "running" /\ ended
  /\ ap' = "exited" /\ connected' = FALSE
  /\ UNCHANGED <<apRest, ended, semaphore, disposition>>

ApRuns  == ApRegisters \/ ApPings \/ ApPinged \/ ApCloses \/ ApEnds
ApStep  == ApPosts \/ ApFails \/ ApReconnects \/ ApRuns

GpsRuns == GpsStep /\ UNCHANGED <<mainVars, apVars, semaphore, disposition, signals>>

\* Variant: sig_handler knows SIGINT alone, and this is SIGTERM.
HandledNot == UNCHANGED kill_program

\* sig_handler
Handled == kill_program' = TRUE

\* SIGINT or SIGTERM, to whoever has its handler installed.
Signal ==
  /\ signals > 0 /\ signals' = signals - 1
  /\ \/ disposition = "default" /\ Goto("killed") /\ UNCHANGED <<kill_program, ended>>
     \/ disposition = "eloop" /\ ended' = TRUE /\ UNCHANGED <<mainVars, kill_program>>
     \/ disposition = "sig_handler" /\ Handled /\ UNCHANGED <<mainVars, ended>>
  /\ UNCHANGED <<gpsVars, ap, connected, semaphore, disposition>>

Next ==
  \/ ~Ended /\ (MainStep \/ ApStep \/ GpsRuns \/ Signal)
  \/ Ended /\ UNCHANGED vars

\* The threads are scheduled, and a ping ends by its timeout at the latest;
\* hostapd, that it starts or comes back, gpsd and signals owe nothing.
Spec == Init /\ [][Next]_vars
        /\ WF_vars(~Ended /\ MainStep)
        /\ WF_vars(~Ended /\ ApRuns)
        /\ WF_vars(~Ended /\ GpsRuns)

----------------------------------------------------------------------------
(* Properties *)

\* bluetooth.c:165 and wifi_beacon.c:34, a message counter "starting at 0x00
\* and wrapping around at 0xFF": on each transport the counters of a type
\* of message start at 0 and go up by one, whatever loops, packs and other
\* transports there are.
CounterSequence ==
  [][\A t \in Transports :
       mpc = "send" /\ Head(legs) = t /\ legs' = Tail(legs)
       => LET m == Schedule[position]
          IN  heard'[t][m] = IF heard[t][m] = None THEN 0 ELSE (heard[t][m] + 1) % CounterRange]_vars

\* Between two loops every transport in use has been given the last message
\* of every type: none lags behind another.
TransportsAgree ==
  mpc = "loop" => \A t, u \in {x \in Transports : Using(x) # <<>>} : heard[t] = heard[u]

\* Whatever ends the gps thread has kill_program set: main finishes the loop of
\* messages it is in with the last positions, and begins no other.
DeadGpsStopsLoop == gpc = "exited" => kill_program

\* The gps thread gives up only on a gpsd that was silent, or could not be
\* read, in as many tries in a row as retries++ > MAX lets pass, which is two
\* more than the constant (62 polls, where gpsmod.h:10 speaks of 60 tries);
\* trouble that passes is forgotten.
DataKeepsItAlive ==
  exit_status = 1 => silent = MaxWaitRetries + 2 \/ broken = MaxReadRetries + 2

\* Main is in the sem_wait of a beacon command that was dropped, no post of a
\* ping is left over, and without a connection no ping posts.
Stranded == mpc \in {"setWait", "updateWait"} /\ semaphore = 0 /\ ~connected

\* Once kill_program is set, by gps_loop or by sig_handler, the loop of
\* messages is left, neither join is for a thread that runs on, and the process
\* ends; or else hostapd is gone for good, or a signal has ended the event loop,
\* and main stays for ever in the sem_wait of a beacon command that was dropped
\* (ap_interface.c:175, wifi_beacon.c:53).  Nothing else keeps it from the end.
KillEndsProgram == kill_program ~> Ended \/ []Stranded

\* SIGINT or SIGTERM stops the transmission, whichever of the two handlers is
\* installed last and wherever the threads are: the process ends, or main stays
\* in the sem_wait of a dropped beacon command (README.md:159, "It can be
\* difficult to stop the transmit instance").  It was dropped because the event
\* loop that heard the signal has closed the connection, or because the
\* connection was lost and hostapd does not come back.
InterruptStops == signals < MaxSignals ~> Ended \/ []Stranded

\* The life of the program is the one that Lifecycle describes.
Life == INSTANCE Lifecycle WITH
  stage   <- CASE mpc \in {"start", "waitAp", "setUp", "signals", "openGps"} -> "starting"
               [] mpc \in {"loop", "message", "encode", "send", "setWait", "update", "updateWait"} -> "transmitting"
               [] mpc \in {"cleanup", "quit", "quitWait", "joinAp", "joinGps"} -> "stopping"
               [] mpc = "exit" -> "over"
               [] OTHER -> "cut",
  thread  <- [t \in {"ap", "gps"} |->
                IF t = "ap"
                THEN CASE ap = "none" -> "none" [] ap \in {"failed", "exited"} -> "gone" [] OTHER -> "live"
                ELSE CASE gpc = "none" -> "none" [] gpc = "exited" -> "gone" [] OTHER -> "live"],
  told    <- (IF ended THEN {"ap"} ELSE {}) \cup (IF kill_program THEN {"gps"} ELSE {}),
  awaited <- IF mpc = "joinAp" THEN {"ap"} ELSE IF mpc = "joinGps" THEN {"gps"} ELSE {}

\* The threads are created, told to end, waited for and gone in the order that
\* Lifecycle allows: the program never transmits after a start that failed,
\* neither join of cleanup is for a thread that was not told to end, and exit
\* leaves none behind (transmit.c, main, cleanup, sig_handler and gps_loop).
ImplementsLifecycle == Life!Spec

\* README.md:57, gpsd updates the location messages "after each loop of
\* messages": what was encoded is a position of one fix, not half of one.
EncodedLocationIsOneFix == mpc = "send" => encoded["latitude"] = encoded["longitude"]

\* gpsd only ever moves the position on (gpsmod.c:25): no field of it, and none
\* that was encoded, goes back to an earlier fix.
PositionsAdvance ==
  [][\A f \in Fields : location[f] <= location'[f] /\ encoded[f] <= encoded'[f]]_vars

\* What would spare the messages their half positions: encodeLocationMessage
\* and process_gps_data, each as a whole, exclude one another.
Apart == ~(mpc = "encode" /\ gpc = "process")

\* transmit.c:410, "No gpsd running or network error": that is reported, the
\* program cleans up and exits; it does not crash.
NoGpsdIsReported == [][mpc = "joinGps" => mpc' # "crashed"]_vars
============================================================================
