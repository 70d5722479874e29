# TLA+ models of the Open Drone ID Linux transmitter

`transmit` broadcasts drone identification messages on Wi-Fi Beacons (through
`hostapd`) and on Bluetooth (through raw HCI commands), with a position that is
fixed or comes from `gpsd`. This directory holds models of its threads and
protocols, the TLC configurations that check them and proofs for TLAPS.

## 1. Inventory

| Component | Source | State | Operations | Interacts with |
|---|---|---|---|---|
| Main thread | `transmit.c` | `config`, `msg_counters`, `uasData`, `kill_program` | options, start-up, loops of messages, `cleanup`, `sig_handler` | starts and joins the two threads; calls every transport |
| GPS thread | `transmit.c:gps_loop`, `gpsmod.c` | `retries`, `read_retries`, `exit_status` | poll, read, `process_gps_data` | writes `uasData.Location` and `kill_program`, shared with main, no lock |
| hostapd client ("ap thread") | `ap_interface.c` | `ctrl_conn`, `hostapd_cli_attached`, `event_handler_registered`, event loop | connect, attach, ping, reconnect, receive, terminate | shares the connection and the semaphore with main |
| Beacon messages | `wifi_beacon.c` | none of its own | `send_beacon_message`, `..._pack`, `send_quit` | runs in main: `wpa_request`, then `sem_wait` |
| Command table | `ap_interface.c` | none | some seventy `hostapd_cli` commands, searched by name | only `set`, `update_beacon` and `quit` are used |
| Bluetooth transports | `bluetooth.c` | `device_descriptor`; the controller's advertising sets | `init_bluetooth`, `send_bluetooth_*`, `close_bluetooth` | one HCI command, one event read |
| Utilities | `utils.c`, `print_bt_features.c` | none | hexadecimal digits, printing | the digits of a beacon element |
| Outside | hostapd, gpsd, the controller, the message encoders | - | - | modelled only as the code relies on them |

What is hard in this code:

* **The shared control socket.** Both threads send requests on it and both read
  it; nothing ties a reply to its request.
* **The shared semaphore.** Every command posts it when it is done, also the
  pings of the ap thread, for which nobody waits; a dropped command does not.
* **`ctrl_conn`.** The ap thread closes and reopens the connection at any time
  while the main thread uses it.
* **`kill_program` and signals.** There are two sets of handlers, installed in
  an order that depends on the scheduler, and `kill_program` is looked at only
  between loops.
* **`uasData.Location`** is written by one thread while the other encodes it.
* **HCI without correlation.** Any event is taken for the answer to the last
  command.
* **Bytes.** A pack is read through `char`, written in digits, and preceded by
  lengths of its own; a message that cannot be encoded leaves the one before it
  in the buffer; the beacon needs two commands, of which either may be lost.
* **Failure.** hostapd goes away and returns; gpsd is silent; a system call fails;
  the program is killed while it is on air, and run again.

What makes the components correct: the semaphore lets main go on when its
command is done and never earlier; the connection is given back exactly once,
with its handler gone before; quitting always ends; what is on air is what was
asked for; counters follow the standard's sequence on each transport; once its
gps thread or a signal has said so the process ends, or main is left in the wait
of a beacon command that was dropped, and nothing else keeps it from its end. Where the code
fails one of these, a run shows it (section 4). `PROJECT.json` lists every hazard at
its line, with the properties aimed at it, or why none is.

## 2. Modules

| Module | Models |
|---|---|
| `WpaCtrl` | the control connection (external): a request queue to hostapd, one inbox for replies and events, hostapd stopping and starting |
| `BeaconSession` | abstract: what the beacon transport promises its callers |
| `BeaconLink` | both threads of the Wi-Fi Beacon transport, over `WpaCtrl`; implements `BeaconSession` |
| `HciAdvertising` | the Bluetooth transports: scripts of HCI commands, the controller (external), the event queue, kill and restart |
| `GpsFeed` | `gps_loop` and `process_gps_data` |
| `Lifecycle` | abstract: what the program promises of its two threads |
| `Transmit` | the life of the program, over `GpsFeed`, with the ap thread abstracted; implements `Lifecycle` |
| `FrameLayout` | the bytes of the vendor element and of the advertising data, and how they are read (external); no state |
| `CommandDispatch` | the search of `wpa_request` in the command table |
| `MessageFrames` | a message from the encoders to a receiver, over `FrameLayout` and `CommandDispatch` |
| `...Proofs` | the theorems of the module they are named for (`BeaconSessionProofs`: those of the refinement; `OnAirProofs`: more of `HciAdvertising`) |
| `MC...` | instances for TLC |

### BeaconLink and WpaCtrl

`semaphore`, `terminate` (the event loop's flag), `attached` and
`event_handler_registered` are the variables of the code; `link` stands for
`ctrl_conn` (`"none"` is NULL, `"dead"` is open although its hostapd is gone).
`mpc` and `apc` are the two program counters. One action is one access to shared
state: the test of `ctrl_conn` (`MainPass`), the send (`MainSend`), each
datagram read, the post (`MainPost`), each step of closing and opening. `mctrl`
is the argument that `wpa_request` received, which may have become `"freed"`;
using memory given back is a choice between a crash and a wrong result, and so
is the case where it has been reused for the new connection. The main
thread sends `Messages` messages, each a `SET` and an `UPDATE_BEACON`, and quits.

A timeout of `wpa_ctrl_request` (`NoReply`) is possible when the inbox is empty:
because no reply has come in time, or because the other thread has taken it.
What hostapd replies (`OK` or not) is free, and so is whether the event handler can be registered. `eloop` runs one callback at a time.
It has its own alarm that ends the program two seconds after a signal it
could not process; that belongs to hostapd's sources and is not modelled.

### BeaconSession

Seen from `wifi_beacon.c` and `transmit.c` there is no hostapd, no connection
and no event loop: a command is accepted, and a post follows, or it is dropped,
and then nothing need follow; quit is never dropped and ends the thread; pings
post when they like; a failing start neither posts nor runs. The mapping
(`Session` in `BeaconLink`) takes the places between the call and the end of a
command for `"busy"`, counts a message as two commands, and has the thread in
`"boot"` until its first post.

### HciAdvertising

A function of `bluetooth.c` is the sequence of the commands it sends, for
example `InitBluetooth(config)`. `HostSend` and `HostRead` are the two halves of
`send_cmd`: the event at the head of the socket is read whatever it is. The
controller keeps for each advertising set whether it has parameters and an
address, is on air, and which message it holds, and refuses commands for sets it
does not have; whether it also refuses to mix the legacy and the extended API
(the specification says so, not every controller does) is chosen at the start.
The command that enables bt4 and bt5 together is malformed: eight bytes are sent where two
sets take ten, with the two handles next to each other (`bluetooth.c:317`). `Readings`
leaves open which of the two sets, if any, the controller reads from it. Apart from that the
controller is the one of the specification; what `src/README.md:142` reports of one
desktop, that with both configured only bt4 was broadcast, no such controller would do, as
it has no bt4 set after the reset at `bluetooth.c:373`. Both agree that the two are
never on air together, which is all that is claimed.

The controller outlives the program. `HostKilled` ends it between any two calls,
without `stop_transmit` and perhaps with commands the controller has not yet
executed; `HostSendFails` is the `exit` of `send_cmd`. `HostRestart` runs it
again, with any transport of the configuration: a new socket, on which the
answers to the earlier run's commands arrive too.

### GpsFeed and Transmit

A value of `location` is the number of the fix it comes from, one field for each
pair that is assigned together. `process_gps_data` assigns, and
`encodeLocationMessage` reads, one field per step. `Transmit` follows `main`
from the options to every way the process ends: `exit`, `killed` by a signal
without handler, `aborted` by `exit(EXIT_FAILURE)` in `bluetooth.c`, `crashed`.
`legs` are the transports the message under way has still to be given to, in the
order of `send_message` or `send_packs`; `heard` remembers the counter each was given
last. The beacon is given a message in four steps: `set`, its `sem_wait`,
`update_beacon` and its own.

The ap thread keeps of `BeaconLink` what main can see of it: `connected` (`ctrl_conn` is
not NULL) and `semaphore`. It posts once it has connected; every ping posts, whether it was
answered or not, but there is a ping only while there is a connection (`ap_interface.c:1821`);
a ping that fails closes the connection, and another may be opened at any later time, or
never; told to end, it closes the connection and exits. A command of main posts with a
connection and does not without one (`Request`), and main waits for a post in either
case. So main is left waiting when hostapd has gone for good, or a signal has ended
the event loop: `Stranded`. A command is one step here, with its post; what happens to one during which
the connection is closed is a choice between that and `crashed` (`MainCrashes`). Whose
reply it reads and how long it waits are in `BeaconLink`.

### Lifecycle

Of all that `main` does only this is left: a thread is created while the program
starts, the gps thread as the loop of messages begins; transmission needs a start in
which no thread failed; a thread that ends was told to, or has told itself (which is
what `kill_program` in `gps_loop` is for); the loop of messages ends only with a gps thread
that was told to; `cleanup` waits for one thread after the other, and tells each before;
`exit` leaves none behind. Signals and `exit(EXIT_FAILURE)` may cut it short at any time
(`Cut`). The mapping (`Life` in `Transmit`) has `told` from `kill_program` and
from the end of the event loop, and `awaited` from the places of the two joins.

### FrameLayout, CommandDispatch and MessageFrames

`FrameLayout` has the templates of the source, byte by byte, with the
conversions between `char`, `int` and `uint8_t` that the code makes, and the end
of a string at its first NUL. `FromElement` and `FromParameters` are what
hostapd, the controller and a receiver do with the result: a frame that
contradicts its own lengths is `Garbage`.

`CommandDispatch` is the loop of `wpa_request` with `cmd` (`row`), `match` and
`count`. `Table` is a constant, for the runs the names built without `CONFIG_`
options.

`MessageFrames` puts them together. A round encodes one message or a pack, of
which some may fail (`Held`: what the shared buffer holds then), and gives it to
the transports that are enabled; for the beacon, `set` is searched and run,
then `update_beacon`, and hostapd may execute either, both or none. `given`
remembers what the transports were given, and `air` where in it that comes from
which a receiver has. What keeps hostapd from executing a command is in
`BeaconLink`; here it is a free choice.

## 3. Runs that pass

| Run | Question | Bounds |
|---|---|---|
| `link_safety` | the semaphore and the connection are safe in every interleaving, with a signal and a failing start; the whole implements `BeaconSession`; an ap thread that was told to end is on a straight way to its exit | 1 message (2 commands and quit), queues of 2, 1 event, 1 failure of hostapd, 1 station, semaphore up to 2 |
| `link_ends` | quit ends both threads, though hostapd may stay down; a transmission gets that far if hostapd always comes back | the same without events and stations |
| `hci_single` | what is on air, for each Bluetooth transport alone, through a kill and a second run | 2 messages, 1 stray event, 1 failing call, 1 restart |
| `transmit_program` | counters and transports agree; the gps thread gives up only for cause, and never unnoticed; the threads live as `Lifecycle` allows, with a hostapd that is lost and comes back; the process ends when the gps thread has given up and on a signal, or main is left in the wait of a dropped beacon command | the accepted options but packs on both transports, and gps beside single messages on the beacon and Bluetooth at once; counters modulo 3, 2 packs per loop, 1 signal, semaphore up to 2, wait retries up to 1, no read retry |
| `frames` | what is received is what was given; every request finds its handler | 1 message or pack of 9 with all byte values, counters 9, 127 and 254, three sets of failing encodings, two configurations, a pack given twice, the whole table |

The bounds suffice for what is asked. Two threads can steal a reply, lose the
connection between check and use, and leave a surplus post within one message
and one failure, as the violation runs of section 4 show on instances as small;
the proofs cover every value. A queue of two is the least in which
replies of both threads are in one socket. One stray event puts the program out
of step for the rest of a run, a failing read by one more, and one restart meets
every state a kill can leave, with each transport after each. A counter modulo
3 wraps within two loops, as one modulo 256 does in more. The retry limits
appear in the code only in comparisons with a counter. The options
`transmit_program` leaves out give main no new kind of place to wait: the gps thread
is beside packs on each transport, single messages on each, and the beacon and
Bluetooth are used at once without it; a Bluetooth transport never waits. A semaphore of 2 holds a surplus post besides the one main
waits for. The counters of `frames`
change both digits, the sign of a `char` and wrap around within the calls of one pack;
its messages hold bytes of both signs; with both configurations the pack's
counter goes up by one for each call and by one for two.

Deadlock is checked except where the program can really wait for ever: an ap
thread that failed before its first post, a command dropped with nobody to post
for it.

**Fairness.** Both (or all three) threads are scheduled: weak fairness of each
one's steps. Every blocking call has a timeout (`wpa_ctrl_request`, `gps_waiting`,
`select`), a semaphore, or a join behind it, which are guards of the model. hostapd
answers what it has received while it is up; that it is restarted is not assumed,
but a hypothesis of `TransmissionEnds` alone (`[]<>(hostapd = "up")`). The controller executes its commands. Nothing
obliges hostapd to be there, gpsd to deliver, an event to stray, a call to
fail, or a program that was killed to be run again. The actions of a thread share one fairness condition, so that none of its
alternatives (a timeout, say) is promised. In `Transmit` too there is only weak fairness, one
condition for each thread; the ap thread's is about what it does by itself
(`ApRuns`: a ping ends by its timeout at the latest), not about a connection, the
first or a later one, for which hostapd is needed. What hostapd's absence does to the end of the
process is therefore in the properties: `KillEndsProgram` and `InterruptStops` have the
disjunct `[]Stranded`, and fail without it.

Every property is tried against a mutant of the code, named in `PROJECT.json`:
the definitions marked "Variant" in the modules.

## 4. Runs that find a violation

| Run | What the code does |
|---|---|
| `link_post` | a ping's post lets main go on after a dropped command (`ap_interface.c:1821`, `:183`) |
| `link_ack` | the ap thread reads main's reply, in the request of a ping (`ap_interface.c:1821`, `:180`, the shortest trace) or as a pending event (`:1791`), and main times out on a command that was executed; a cause of the unacknowledged messages of `README.md:117` |
| `link_drop` | the connection is tested on the global and used by the argument: NULL is passed on after a reconnection (`ap_interface.c:175`) |
| `hci_both` | with `4` and `5` the second reset removes the bt4 set (`bluetooth.c:373`) before the commands that are to enable both: whatever is read from these, two sets are not on air |
| `pack_counter` | `b 5 p` gives the beacon the even and bt5 the odd counters (`transmit.c:247`) |
| `torn_location` | a message with fields of different fixes (`gpsmod.c:25`) |
| `no_gpsd` | without gpsd, `cleanup` joins a thread that was never created (`transmit.c:411`) |

Four theorems say why, for every instance. `CrashesOnlyByTheRace`: if the ap thread opens
and gives back the connection only while no command is between the test and the end of its
request (`ConnectionHeld`), main never crashes and `UnconnectedCommandDropped` holds.
`OnlyPingsStandIn`: without pings (`NoPings`) `PostMeansProcessed` holds. `ALockSuffices`:
if `encodeLocationMessage` and `process_gps_data` exclude one another (`Apart`) every location
encoded is of one fix. `NeverTwoOnAir`: no two sets are on air at any time of any run, so that
every run with `4` and `5` fails as the one of `hci_both` does. The first three have a hypothesis on the behaviour, which the code as it is
does not guarantee; they show that nothing else is needed to mend what the run shows.

`DataKeepsItAlive` also shows that the gps thread polls 62 times, where the comment
of `gpsmod.h:10` speaks of 60 tries: `retries++ > MAX` compares the old value.

## 5. Proofs

All theorems hold for every value of the constants, from the named assumptions
of the modules only. Each is proved for a specification's `Init` and
`[Next]_vars`; fairness is not used.

**BeaconLinkProofs** (`WpaCtrlAssumption`, `BeaconLinkAssumption`: natural
numbers, the queue and the semaphore hold at least one). `TypeCorrect`;
`Invariance`: `Spec => []IInv`, where `IInv` is `TypeOK /\ SemInv /\ ConnInv`;
`SubmittedIsSafe`, `StartIsSafe`, `HandlerIsSafe`, `ExitIsClean` follow from it.
The four are not inductive alone. `SemInv` adds that during the boot phase
the semaphore is 0, the main thread has not started and the ap thread is in one
of the places before its first post. `ConnInv` adds that an attachment needs a connection,
that the places which use the connection have one, that the handler is gone by
the time the connection is closed, and that the thread reopens or exits with
nothing left. Types, semaphore and connection are three chains of lemmas, one
step per action. `QuitIsNear` (`Spec => NeverBeginsAnew`) is the part of `QuitCompletes` that is
not about fairness: `DistanceFrom` numbers the places of the ap thread in the order in which
it can still pass them once `terminate` is set, twice per station that may still be listed;
a step lowers the number or keeps it and takes a datagram off the socket, and a step of anyone else
leaves it as it is. `TellInv` is what it needs of
`terminate`: whoever sets it does so after the first connection.

**BeaconSessionProofs.** `Refinement`: `Spec => ImplementsSession`. Every step of
`BeaconLink` is a step of `BeaconSession` or leaves its variables as they are.
That needs `SessionInv` besides `IInv`: a command that posts was not dropped,
the thread is in its boot phase in the places before its first post and leaves
only when it was told to. `AbandonmentHasACause` is a consequence: who
waits in vain for a thread that has exited met a failing start or a dropped
command. `CrashesOnlyByTheRace` and `OnlyPingsStandIn` (section 4) trace the crash
and the early return in the same way. `HeldInv`: as long as the connection is held,
the connection that was tested is the one that is used, and `mctrl` is neither NULL nor freed. `PostInv`:
without pings the semaphore is one exactly where main is about to wait for a post that
came (of the start, or of a command that was not dropped), and zero everywhere else.

**HciAdvertisingProofs.** `OneEventForEachCommand` from `StepInv`: commands
and events under way are exactly the strays, the reads that failed, what an earlier
run was answered, and the command awaited. `AnswersMatch`: while nothing is extra, the one command or
event under way is the one awaited (`AnswerInv`). `SilenceAfterClose`: whatever
the controller accepts or refuses, from the call of `stop_transmit` on each set either is off
and nothing still to be executed turns it on, or a command that turns it off is
still to be executed and none after it turns it on (`SilenceInv`). `ApiInv` is
why that command is not refused for a mix: a set is on air only under the
interface that turns it off. `TypeCorrect` bounds
the extra events by what strays, faults and restarts are left (`BudgetInv`).

**OnAirProofs** (over `HciAdvertisingProofs`). `ConfiguredOnAir` and
`LastMessageOnAir`, with the hypothesis `OneSet`: every command line asks for one
Bluetooth transport. Without it the first is false (`hci_both`). `AirInv` says how
the commands still to be executed continue what the controller has done:
either a reset is among them and the set-up and then only data come
after it, or the controller is at step k of the set-up and the rest of it is what
comes first (`OnItsWay`); and the last data among them, or in the controller, are
the message sent last (`LastIs`). What an earlier run left in the queue or
in the controller is therefore without effect, and no command of a set-up behind
a reset is refused. `NeverTwoOnAir` has no hypothesis, and rests on the resets and on a controller
that enables only what was made: `MadeInv` says
that the controller has made at most one set, that only a made set is on air, and that each
command still to be executed that makes one comes right behind a reset or meets a controller
without any (`Fresh`). What is read from the malformed command (`Readings`) is no more than it names.

**TransmitProofs.** `TypeCorrect`, `DeadGpsNoticed`, `GivesUpOnlyOnSilence`: the
retry counters equal the failures in a row and stay within two of the limits
(`GpsInv`). `CountersAscend` and `NoneLagsBehind` have the hypothesis `OnePack`, that no
command line sends packs to the beacon and to bt5 at once: without it they are
false (`pack_counter`). `CountInv` says for each transport and type that it has
heard the counter before the current one, or the current one if it was already given
the message under way, each transport occurring once in `legs`. `LifecycleImplemented` (`Spec => ImplementsLifecycle`)
goes through the steps of main, of the gps thread, of the ap thread and the signals; `LifeInv`
is what the mapping cannot see: at which places of main which thread exists, that an ap thread
that has exited or was joined had been told to end, and that from `cleanup` on either there never was a gps
thread or `kill_program` is set. `PositionsNeverGoBack` (`Spec => PositionsAdvance`) from `FixInv`:
no field is ahead of gpsd and nothing encoded is ahead of the field, and latitude and
longitude differ only between the two assignments of `process_gps_data` (`Half`).
`ALockSuffices` (section 4) from `ApartInv`: the latitude and the longitude that were encoded agree,
except while the message is half read, and then the latitude read is still the one that is there.

**FrameLayoutProofs.** A receiver finds the counter and the bytes that were
given: `SingleElementRead`, `PackElementRead`, `SingleParametersRead`,
`PackParametersRead`, for every message, counter and number of messages in a
pack. Lemmas: two digits give back their byte, none of them is NUL so that the
string ends where the array does, and the lengths written are those of what follows.

**MessageFramesProofs** (with the lemmas of **CommandDispatchProofs**). `Dispatched`, for every table: `Counted` says what `count` and
`match` know of the rows before `row`. `RequestsPost` follows with
`NamesAssumption`, that the table has the three names. `WhatIsReceivedWasGiven`:
`FramesInv` says that what hostapd holds is the element of an entry of `given`
and what is on air is read from one; the round trips of `FrameLayoutProofs` do the rest.

Only model-checked: liveness (`QuitCompletes`, `TransmissionEnds`, `CloseEnds`,
`KillEndsProgram`, `InterruptStops`), which rests on fairness and `ENABLED`; of the first,
`NeverBeginsAnew` is proved. Proved but part of no run: `OneOnAir` and
`PositionsAdvance`, because the passing runs have one transport and a position without fixes
(the violation runs, which have more, check one property each).

## 6. Not modelled

* The message encoders (Open Drone ID core) but for their success or failure,
  and the example data.
* The commands of `hostapd_cli` that `transmit` cannot reach, with the completion
  of their arguments. The table's names are all in `CommandDispatch`, but for those
  behind `CONFIG_` options.
* The station list: both threads change it without a lock, but nothing in
  `transmit` reads it, so that no property of the program depends on it.
* The btmgmt experiment of `bluetooth.c`, called from nowhere; printing, of the
  Bluetooth features in particular.
* The bytes of the HCI commands other than the advertising data. The buffer that
  enables one set has two bytes more than one set takes (`bluetooth.c:317`), which are
  taken to be ignored; for two it is too short, and what is read from it is left open
  (`Readings`).
* The lifetime of `args` in `main`.
* Real time: sleeps and intervals.

The external parts are contracts, as above.

## 7. Plan

Done: every component that `transmit` reaches, with its refinement, its
compositions, and theorems for all safety properties. What is left, in order:

1. The ap thread of `Transmit` (`ApStep`, `Request`, `semaphore`) refined by `BeaconLink`,
   as `BeaconSession` is. `BeaconSession` itself has no connection, and so does not say
   when a command is dropped, which `KillEndsProgram` needs.
2. The refinement of `BeaconSession` composed with that of `Lifecycle`, once `Transmit` has it.
3. The station list, if something comes to read it.
