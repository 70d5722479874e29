--------------------------- MODULE HciAdvertising ---------------------------
(***************************************************************************)
(* The Bluetooth transports (bluetooth.c): the host sends HCI commands to  *)
(* the controller through a raw socket and reads one event after each.     *)
(*                                                                         *)
(* A function of bluetooth.c is a script, the sequence of the commands it  *)
(* sends.  The controller (external) executes the commands in order and    *)
(* answers each with an event; the socket's filter lets every event        *)
(* through, also those that answer no command of this program.             *)
(*                                                                         *)
(* The controller outlives the program, which may be killed between any    *)
(* two calls and be started again, also with another transport.            *)
(***************************************************************************)
EXTENDS Naturals, Sequences

CONSTANTS
  Configs,      \* the transports in use: subsets of {"btl", "bt4", "bt5"}
  MaxMessages,  \* messages transmitted before the transports are closed
  MaxStrays,    \* bound: events that answer no command of the program
  MaxFaults,    \* bound: system calls that fail
  MaxRestarts   \* bound: runs of the program after the first

ASSUME HciAssumption ==
  /\ Configs \subseteq SUBSET {"btl", "bt4", "bt5"}
  /\ MaxMessages \in Nat
  /\ MaxStrays \in Nat
  /\ MaxFaults \in Nat
  /\ MaxRestarts \in Nat

VARIABLES
  config,     \* config_data.use_btl, use_bt4, use_bt5
  stage,      \* "init", "idle", "sending", "closing", "closed"; "exited": exit(EXIT_FAILURE), or killed
  todo,       \* what the function under way has still to send
  reading,    \* the first command of todo was sent and its event is to be read
  sent,       \* messages handed to the Bluetooth transports
  commands,   \* sent to the controller and not yet executed
  events,     \* in the socket and not yet read
  extra,      \* events read by no command: strays, failed reads, an earlier run's
  exclusive,  \* the controller refuses to mix legacy and extended commands
  controller, \* what the controller keeps: see Controllers
  straysLeft,
  faultsLeft,
  restartsLeft

hostVars == <<config, stage, todo, reading, sent>>
bounds   == <<straysLeft, faultsLeft, restartsLeft>>
vars     == <<hostVars, commands, events, extra, exclusive, controller, bounds>>

Transports == {"btl", "bt4", "bt5"}
Extended   == {"bt4", "bt5"}

\* The commands of the hci_* functions; set: the advertising sets concerned.
Command(op, sets, data) == [op |-> op, sets |-> sets, data |-> data]

----------------------------------------------------------------------------
(* The controller (Bluetooth Core Specification 5.1, Vol 2, Part E, 7.8).  *)
(* Legacy advertising is treated as one more set, "btl".                   *)

\* made: has parameters; addressed: has its random address; on: advertises.
NoSet == [made |-> FALSE, addressed |-> FALSE, on |-> FALSE, data |-> 0]
ResetController == [api |-> "any", sets |-> [t \in Transports |-> NoSet]]

LegacyOps   == {"parameters", "address", "data", "enable", "disable"}
ExtendedOps == {"ext parameters", "set address", "ext data", "ext enable", "ext disable", "remove"}

Api(op) == CASE op \in LegacyOps -> "legacy"
             [] op \in ExtendedOps -> "extended"
             [] OTHER -> "any"

Mixes(c, cmd) == exclusive /\ c.api # "any" /\ Api(cmd.op) \notin {"any", c.api}

Accepts(c, cmd) ==
  CASE cmd.op \in {"parameters", "ext parameters"} -> \A t \in cmd.sets : ~c.sets[t].on
    [] cmd.op \in {"set address", "ext data"} -> \A t \in cmd.sets : c.sets[t].made
    [] cmd.op \in {"enable", "ext enable"} -> /\ cmd.sets # {}
                                             /\ \A t \in cmd.sets : c.sets[t].made /\ c.sets[t].addressed
    [] cmd.op = "remove" -> \A t \in cmd.sets : c.sets[t].made /\ ~c.sets[t].on
    [] OTHER -> TRUE

\* The effect of a command on a set it concerns.
Effect(s, cmd) ==
  CASE cmd.op \in {"parameters", "ext parameters"} -> [s EXCEPT !.made = TRUE]
    [] cmd.op \in {"address", "set address"} -> [s EXCEPT !.addressed = TRUE]
    [] cmd.op \in {"data", "ext data"} -> [s EXCEPT !.data = cmd.data]
    [] cmd.op \in {"enable", "ext enable"} -> [s EXCEPT !.on = TRUE]
    [] cmd.op \in {"disable", "ext disable"} -> [s EXCEPT !.on = FALSE]
    [] cmd.op = "remove" -> NoSet
    [] OTHER -> s

Execute(c, cmd) ==
  CASE cmd.op = "reset" -> ResetController
    [] cmd.op # "reset" /\ (Mixes(c, cmd) \/ ~Accepts(c, cmd)) -> c
    [] OTHER -> [api  |-> IF c.api = "any" THEN Api(cmd.op) ELSE c.api,
                 sets |-> [t \in Transports |-> IF t \in cmd.sets THEN Effect(c.sets[t], cmd)
                                                                  ELSE c.sets[t]]]

\* What the controller may take a command for.  To enable two sets takes ten
\* bytes, five for each; bluetooth.c:317 sends eight, with the two handles next
\* to each other.  Nothing is assumed of what comes of that: any of the sets may
\* be read from it, or none, which is refused.
Readings(cmd) ==
  IF cmd.op = "ext enable" /\ cmd.sets = Extended
  THEN {[cmd EXCEPT !.sets = s] : s \in SUBSET Extended}
  ELSE {cmd}

OnAir == {t \in Transports : controller.sets[t].on}

----------------------------------------------------------------------------
(* The scripts of bluetooth.c *)

Reset        == <<Command("reset", {}, 0)>>
ReadFeatures == <<Command("features", {}, 0)>>

\* Variant: only the legacy advertising is stopped before the sets are removed.
StopTransmitLegacy ==
  <<Command("disable", {"btl"}, 0), Command("remove", {"bt4"}, 0), Command("remove", {"bt5"}, 0)>>

StopTransmit ==
  <<Command("disable", {"btl"}, 0), Command("ext disable", Extended, 0),
    Command("remove", {"bt4"}, 0), Command("remove", {"bt5"}, 0)>>

LegacySetUp == <<Command("parameters", {"btl"}, 0), Command("address", {"btl"}, 0)>>

ExtendedSetUp(t) == <<Command("ext parameters", {t}, 0), Command("set address", {t}, 0)>>

\* hci_le_set_extended_advertising_enable: meant for every set in use at once,
\* see Readings for what is sent for two.
EnableExtended(cfg) == <<Command("ext enable", cfg \cap Extended, 0)>>

When(condition, script) == IF condition THEN script ELSE <<>>

\* Variant: the reset at the start is thought to be enough.
InitBluetoothOneReset(cfg) ==
  Reset \o StopTransmit \o ReadFeatures
  \o When("btl" \in cfg, LegacySetUp)
  \o When("bt4" \in cfg, ExtendedSetUp("bt4"))
  \o When("bt5" \in cfg, ExtendedSetUp("bt5"))
  \o When("btl" \in cfg, <<Command("enable", {"btl"}, 0)>>)
  \o When(cfg \cap Extended # {}, EnableExtended(cfg))

InitBluetooth(cfg) ==
  Reset \o StopTransmit \o ReadFeatures
  \o When("btl" \in cfg, Reset \o LegacySetUp)
  \o When("bt4" \in cfg, Reset \o ExtendedSetUp("bt4"))
  \o When("bt5" \in cfg, Reset \o ExtendedSetUp("bt5"))
  \o When("btl" \in cfg, <<Command("enable", {"btl"}, 0)>>)
  \o When("bt4" \in cfg, EnableExtended(cfg))
  \o When("bt5" \in cfg, EnableExtended(cfg))

\* Variant: the handle of the bt4 set for every set.
SendMessageOneHandle(cfg, n) ==
  When("btl" \in cfg, <<Command("data", {"btl"}, n)>>)
  \o When(cfg \cap Extended # {}, <<Command("ext data", {"bt4"}, n)>>)

\* send_bluetooth_message, send_bluetooth_message_extended_api and, for bt5
\* alone, send_bluetooth_message_pack; n stands for the message.
SendMessage(cfg, n) ==
  When("btl" \in cfg, <<Command("data", {"btl"}, n)>>)
  \o When("bt4" \in cfg, <<Command("ext data", {"bt4"}, n)>>)
  \o When("bt5" \in cfg, <<Command("ext data", {"bt5"}, n)>>)

----------------------------------------------------------------------------
(* The state *)

Ops == LegacyOps \cup ExtendedOps \cup {"reset", "features"}
CommandSet  == [op : Ops, sets : SUBSET Transports, data : 0..MaxMessages]
Controllers == [api  : {"any", "legacy", "extended"},
                sets : [Transports -> [made : BOOLEAN, addressed : BOOLEAN, on : BOOLEAN,
                                       data : 0..MaxMessages]]]

TypeOK ==
  /\ config \in Configs
  /\ stage \in {"init", "idle", "sending", "closing", "closed", "exited"}
  /\ todo \in Seq(CommandSet)
  /\ reading \in BOOLEAN
  /\ reading => todo # <<>>
  /\ sent \in 0..MaxMessages
  /\ commands \in Seq(CommandSet)
  /\ events \in Seq(Ops \cup {"stray"})
  /\ extra \in 0..(MaxStrays + MaxFaults + MaxRestarts + 1)
  /\ exclusive \in BOOLEAN
  /\ controller \in Controllers
  /\ straysLeft \in 0..MaxStrays
  /\ faultsLeft \in 0..MaxFaults
  /\ restartsLeft \in 0..MaxRestarts

Init ==
  /\ config \in Configs
  /\ stage = "init"
  /\ todo = InitBluetooth(config)
  /\ reading = FALSE
  /\ sent = 0
  /\ commands = <<>>
  /\ events = <<>>
  /\ extra = 0
  /\ exclusive \in BOOLEAN
  /\ controller = ResetController
  /\ straysLeft = MaxStrays
  /\ faultsLeft = MaxFaults
  /\ restartsLeft = MaxRestarts

----------------------------------------------------------------------------
(* The host *)

\* Variant: the command is sent twice, to be safe.
HostSendTwice ==
  /\ todo # <<>> /\ ~reading
  /\ commands' = commands \o <<Head(todo), Head(todo)>>
  /\ reading' = TRUE
  /\ UNCHANGED <<config, stage, todo, sent, events, extra, exclusive, controller, bounds>>

\* send_cmd: hci_send_cmd.
HostSend ==
  /\ todo # <<>> /\ ~reading
  /\ commands' = Append(commands, Head(todo))
  /\ reading' = TRUE
  /\ UNCHANGED <<config, stage, todo, sent, events, extra, exclusive, controller, bounds>>

\* exit(EXIT_FAILURE), without stop_transmit.
HostSendFails ==
  /\ todo # <<>> /\ ~reading
  /\ faultsLeft > 0 /\ faultsLeft' = faultsLeft - 1
  /\ stage' = "exited" /\ todo' = <<>>
  /\ UNCHANGED <<config, reading, sent, commands, events, extra, exclusive, controller, straysLeft, restartsLeft>>

\* Variants: the answer to the last command is waited for still;
\* close_bluetooth leaves the device open.
ReturnReading ==
  /\ reading' = (Len(todo) = 1)
  /\ todo' = Tail(todo)
  /\ stage' = IF Len(todo) > 1 THEN stage ELSE IF stage = "closing" THEN "closed" ELSE "idle"
  /\ UNCHANGED <<config, sent>>
ReturnOpen ==
  /\ reading' = FALSE
  /\ todo' = Tail(todo)
  /\ stage' = IF Len(todo) > 1 THEN stage ELSE "idle"
  /\ UNCHANGED <<config, sent>>

\* send_cmd returns, and with the last command the function under way.
Return ==
  /\ reading' = FALSE
  /\ todo' = Tail(todo)
  /\ stage' = IF Len(todo) > 1 THEN stage ELSE IF stage = "closing" THEN "closed" ELSE "idle"
  /\ UNCHANGED <<config, sent>>

\* Variant: everything in the socket is read.
HostReadAll ==
  /\ reading /\ events # <<>>
  /\ events' = <<>>
  /\ Return
  /\ UNCHANGED <<commands, extra, exclusive, controller, bounds>>

\* send_cmd: one event is read, and whatever it is it is taken for the answer.
HostRead ==
  /\ reading /\ events # <<>>
  /\ events' = Tail(events)
  /\ Return
  /\ UNCHANGED <<commands, extra, exclusive, controller, bounds>>

\* "While loop for reading event failed": the answer is still to come.
HostReadFails ==
  /\ reading
  /\ faultsLeft > 0 /\ faultsLeft' = faultsLeft - 1
  /\ extra' = extra + 1
  /\ Return
  /\ UNCHANGED <<commands, events, exclusive, controller, straysLeft, restartsLeft>>

\* send_bluetooth_message and the like, for the next message.
HostTransmit ==
  /\ stage = "idle" /\ sent < MaxMessages
  /\ stage' = "sending"
  /\ sent' = sent + 1
  /\ todo' = SendMessage(config, sent + 1)
  /\ UNCHANGED <<config, reading, commands, events, extra, exclusive, controller, bounds>>

\* close_bluetooth
HostClose ==
  /\ stage = "idle"
  /\ stage' = "closing"
  /\ todo' = StopTransmit
  /\ UNCHANGED <<config, reading, sent, commands, events, extra, exclusive, controller, bounds>>

Awaited == IF reading THEN 1 ELSE 0

\* SIGKILL, or a signal that nothing handles (without gps and the beacon that
\* is every one): stop_transmit is not called, and no answer is waited for.
HostKilled ==
  /\ stage \notin {"closed", "exited"}
  /\ stage' = "exited" /\ todo' = <<>> /\ reading' = FALSE
  /\ extra' = extra + Awaited
  /\ UNCHANGED <<config, sent, commands, events, exclusive, controller, bounds>>

\* The program is run again: open_hci_device opens a new socket, to which the
\* answers to what the earlier run has sent come as well.
HostRestart ==
  /\ stage \in {"closed", "exited"}
  /\ restartsLeft > 0 /\ restartsLeft' = restartsLeft - 1
  /\ config' \in Configs
  /\ stage' = "init" /\ todo' = InitBluetooth(config') /\ sent' = 0
  /\ events' = <<>> /\ extra' = Len(commands)
  /\ UNCHANGED <<reading, commands, exclusive, controller, straysLeft, faultsLeft>>

HostFault == HostSendFails \/ HostReadFails \/ HostKilled \/ HostRestart
HostStep  == HostSend \/ HostRead \/ HostTransmit \/ HostClose

----------------------------------------------------------------------------
(* The controller *)

ControllerExecutes ==
  /\ commands # <<>>
  /\ \E read \in Readings(Head(commands)) : controller' = Execute(controller, read)
  /\ commands' = Tail(commands)
  /\ events' = Append(events, Head(commands).op)
  /\ UNCHANGED <<hostVars, extra, exclusive, bounds>>

StrayEvent ==
  /\ straysLeft > 0 /\ straysLeft' = straysLeft - 1
  /\ events' = Append(events, "stray")
  /\ extra' = extra + 1
  /\ UNCHANGED <<hostVars, commands, exclusive, controller, faultsLeft, restartsLeft>>

Ended ==
  /\ stage \in {"closed", "exited"} /\ commands = <<>>
  /\ UNCHANGED vars

Next == HostStep \/ HostFault \/ ControllerExecutes \/ StrayEvent \/ Ended

\* The program runs and the controller answers; nothing obliges a system
\* call to fail or an event to stray.
Spec == Init /\ [][Next]_vars /\ WF_vars(HostStep) /\ WF_vars(ControllerExecutes)

----------------------------------------------------------------------------
(* Properties *)

InStep == commands = <<>> /\ stage # "exited"

\* One event is read for each command, so that what is under way is what
\* the strays and failed reads have added, and the command being read for:
\* the program neither loses an answer nor ever falls back into step.
OneEventPerCommand == Len(commands) + Len(events) = extra + Awaited

\* What the proof of OneEventPerCommand needs of the types.
StepInv ==
  /\ todo \in Seq(CommandSet)
  /\ commands \in Seq(CommandSet)
  /\ events \in Seq(Ops \cup {"stray"})
  /\ reading \in BOOLEAN
  /\ reading => todo # <<>>
  /\ stage \in {"idle", "closed", "exited"} => todo = <<>>
  /\ sent \in 0..MaxMessages
  /\ extra \in Nat
  /\ OneEventPerCommand

\* bluetooth.c:75: as long as nothing has strayed the event read answers the
\* command sent, and its opcode is the one expected.
OpcodeExpected == reading /\ events # <<>> /\ extra = 0 => Head(events) = Head(todo).op

\* Once the controller has caught up with init_bluetooth, exactly the
\* transports asked for are on air: what an earlier run left is gone,
\* wherever it was killed, and the resets between the legacy and the
\* extended commands let every command of the set-up through.
OnAirAsConfigured == stage \in {"idle", "sending"} /\ InStep => OnAir = config

\* Between messages every transport broadcasts the last message given to it.
BroadcastsLast ==
  stage = "idle" /\ InStep => \A t \in config : controller.sets[t].data = sent

\* After close_bluetooth nothing is on air, however many events have strayed,
\* once the controller has executed what it was sent.
SilentOnceClosed == stage = "closed" /\ InStep => OnAir = {}

\* Closing always ends, and ends in silence unless the program is killed in the
\* middle: neither a stray event nor a refused command keeps it from the end of
\* stop_transmit.
CloseEnds ==
  /\ stage = "closing" ~> stage \in {"closed", "exited"}
  /\ stage = "closing" ~> stage = "exited" \/ OnAir = {}

\* bluetooth.c:313, "Max two advertising sets is supported by this function":
\* with bt4 and bt5 both in use two sets are on air once init_bluetooth is done.
TwoSetsSupported == stage = "idle" /\ InStep /\ Extended \subseteq config => Extended \subseteq OnAir

\* At no time is more than one set on air, whichever transports are asked for
\* and whatever the controller reads from the command that enables two: a set is
\* made only behind a reset, which leaves no other one.
OneOnAir == \A t, u \in OnAir : t = u

============================================================================
