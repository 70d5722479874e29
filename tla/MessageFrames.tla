--------------------------- MODULE MessageFrames ---------------------------
(***************************************************************************)
(* The way of a message from its encoding to a receiver: create_message_   *)
(* pack and send_single_messages (transmit.c), the frames of each          *)
(* transport (FrameLayout), and for the beacon the two requests of         *)
(* wifi_beacon.c through the command table (CommandDispatch) to hostapd.   *)
(*                                                                         *)
(* Whether hostapd executes a command is open here; BeaconLink has the     *)
(* reasons why it may not.                                                 *)
(***************************************************************************)
EXTENDS FrameLayout, CommandDispatch

CONSTANTS
  Content,   \* the encoded messages, in the order of a pack; Content[0] is all zeros
  Counters,  \* message counters
  Failures,  \* sets of messages whose encoding fails
  Configs,   \* the sets of transports a configuration may enable
  Repeats,   \* bound: how often a pack is given to them (10 in send_packs)
  Rounds     \* bound: packs or single messages in a behaviour

Transports == {"beacon", "btl", "bt4", "bt5"}

SetRequest == 20    \* the length of "SET vendor_elements "
SetMax     == 2048  \* char cmd[] of hostapd_cli_cmd_set

ASSUME ContentAssumption ==
  /\ Content \in [0..PackMaxMessages -> [1..MessageSize -> Byte]]
  /\ Counters \subseteq Byte
  /\ Failures \subseteq SUBSET (1..PackMaxMessages)
  /\ Configs \subseteq SUBSET Transports
  /\ Repeats \in Nat /\ Rounds \in Nat

\* The requests of wifi_beacon.c are rows of the table.
ASSUME NamesAssumption == \A name \in {"set", "update_beacon", "quit"} : Exact(name) # {}

VARIABLES
  enabled,          \* config.use_beacon, use_btl, use_bt4, use_bt5
  round,
  payload,          \* what the round transmits: [pack, size, data], size the pack's own count
  legs,             \* the calls still to make: a transport and a counter for each
  request,          \* the beacon's: "none", "set", "update_beacon", "quit"; "stuck": no post will come
  given,            \* history: what the transports were given, [counter, data]
  vendor_elements,  \* of hostapd: bytes, and the place in given they come from
  air               \* for each transport: what is received, and that place

frameVars == <<enabled, round, payload, legs, request, given, vendor_elements, air>>
vars      == <<frameVars, dispatchVars>>

----------------------------------------------------------------------------
(* Encoding *)

\* The message in the buffer of the encoders after the i-th: one that fails
\* leaves there what it finds.
Held(failed, i) ==
  LET kept == {0} \cup ((1..i) \ failed)
  IN  CHOOSE h \in kept : \A j \in kept : j <= h

\* create_message_pack: version and type, the size of a message, their number,
\* and the messages.
Pack(failed) ==
  [k \in 1..PackSize(PackMaxMessages) |->
     CASE k = 1 -> 241
       [] k = 2 -> MessageSize
       [] k = 3 -> PackMaxMessages
       [] OTHER -> Content[Held(failed, ((k - 4) \div MessageSize) + 1)][((k - 4) % MessageSize) + 1]]

\* encodeMessagePack has failed: the pack is still all zeros and says that it
\* has no messages.
NoPack == [k \in 1..PackSize(PackMaxMessages) |-> 0]

Single(failed, i) == [pack |-> FALSE, size |-> 1, data |-> Content[Held(failed, i)]]

\* The bytes of the payload that are transmitted.
Transmitted == SubSeq(payload.data, 1, IF payload.pack THEN PackSize(payload.size) ELSE MessageSize)

FrameTypeOK ==
  /\ enabled \subseteq Transports
  /\ round \in 0..Rounds
  /\ payload \in [pack : BOOLEAN, size : 0..PackMaxMessages, data : Octets]
  /\ legs \in Seq([to : Transports, counter : Byte])
  /\ request \in {"none", "set", "update_beacon", "quit", "stuck", "done"}
  /\ argv0 \in {"none", "set", "update_beacon", "quit"}
  /\ given \in Seq([counter : Byte, data : Octets])
  /\ vendor_elements \in [bytes : Octets, from : 0..Len(given)]
  /\ air \in [Transports -> [received : [counter : Byte, data : Octets], from : 0..Len(given)]]

TypeOK == FrameTypeOK /\ DispatchTypeOK

Init ==
  /\ enabled \in Configs
  /\ round = 0
  /\ payload = [pack |-> FALSE, size |-> 0, data |-> Content[0]]
  /\ legs = <<>>
  /\ request = "none"
  /\ given = <<>>
  /\ vendor_elements = [bytes |-> <<221, 1, 0>>, from |-> 0]
  /\ air = [t \in Transports |-> [received |-> Garbage, from |-> 0]]
  /\ DispatchInit

----------------------------------------------------------------------------
(* The main thread *)

Idle == legs = <<>> /\ request = "none"

SingleCalls(n) ==
  [k \in 1..4 |-> [to |-> <<"btl", "bt4", "bt5", "beacon">>[k], counter |-> n]]

\* Each use of the pack's counter adds one to it.
PackCalls(n) ==
  [k \in 1..(2 * Repeats) |->
     [to |-> IF k % 2 = 1 THEN "beacon" ELSE "bt5",
      counter |-> (n + IF {"beacon", "bt5"} \subseteq enabled THEN k - 1 ELSE (k - 1) \div 2) % 256]]

\* A message of send_single_messages, and the calls of send_message.
EncodeSingle ==
  /\ Idle /\ round < Rounds
  /\ round' = round + 1
  /\ \E failed \in Failures, i \in 1..PackMaxMessages : payload' = Single(failed, i)
  /\ \E n \in Counters : legs' = SingleCalls(n)
  /\ UNCHANGED <<enabled, request, given, vendor_elements, air, dispatchVars>>

\* send_packs
EncodePack ==
  /\ Idle /\ round < Rounds
  /\ round' = round + 1
  /\ \/ \E failed \in Failures :
          payload' = [pack |-> TRUE, size |-> PackMaxMessages, data |-> Pack(failed)]
     \/ payload' = [pack |-> TRUE, size |-> 0, data |-> NoPack]
  /\ \E n \in Counters : legs' = PackCalls(n)
  /\ UNCHANGED <<enabled, request, given, vendor_elements, air, dispatchVars>>

\* The condition on config before each call.
PassBy ==
  /\ legs # <<>> /\ request = "none"
  /\ Head(legs).to \notin enabled
  /\ legs' = Tail(legs)
  /\ UNCHANGED <<enabled, round, payload, request, given, vendor_elements, air, dispatchVars>>

Parameters(t, counter) ==
  CASE t = "btl" -> LegacyParameters(payload.data, counter)
    [] t = "bt4" -> ExtendedParameters(0, payload.data, counter)
    [] t = "bt5" -> IF payload.pack THEN PackParameters(1, payload.data, payload.size, counter)
                                    ELSE ExtendedParameters(1, payload.data, counter)

\* send_bluetooth_message, ..._extended_api, ..._pack; the controller executes
\* the command or refuses it.
GiveBluetooth ==
  /\ legs # <<>> /\ request = "none"
  /\ LET t == Head(legs).to
         n == Head(legs).counter
     IN  /\ t \in enabled \ {"beacon"}
         /\ given' = Append(given, [counter |-> n, data |-> Transmitted])
         /\ \/ air' = [air EXCEPT ![t] =
                         [received |-> FromParameters(Parameters(t, n), IF t = "btl" THEN 1 ELSE 4),
                          from |-> Len(given')]]
            \/ UNCHANGED air
  /\ legs' = Tail(legs)
  /\ UNCHANGED <<enabled, round, payload, request, vendor_elements, dispatchVars>>

\* send_beacon_message, send_beacon_message_pack
GiveBeacon ==
  /\ legs # <<>> /\ request = "none"
  /\ Head(legs).to \in enabled \cap {"beacon"}
  /\ given' = Append(given, [counter |-> Head(legs).counter, data |-> Transmitted])
  /\ request' = "set"
  /\ Request("set")
  /\ UNCHANGED <<enabled, round, payload, legs, vendor_elements, air>>

\* send_quit
GiveQuit ==
  /\ Idle /\ round = Rounds
  /\ request' = "quit"
  /\ Request("quit")
  /\ UNCHANGED <<enabled, round, payload, legs, given, vendor_elements, air>>

SearchTable == Search /\ UNCHANGED frameVars

Element ==
  IF payload.pack THEN PackElement(payload.data, payload.size, Head(legs).counter)
                  ELSE SingleElement(payload.data, Head(legs).counter)

\* The handler is that of the request itself; any other handler, or none, leaves
\* the semaphore as it is.
Handled == dpc = "handler" /\ Table[match] = request

\* hostapd_cli_cmd_set: the command may not fit, and may not be executed.
RunSet ==
  /\ request = "set" /\ Return
  /\ IF Handled /\ SetRequest + Len(Element) < SetMax
     THEN /\ \/ IsHex(Element)
                /\ vendor_elements' = [bytes |-> FromHex(Element), from |-> Len(given)]
             \/ UNCHANGED vendor_elements
          /\ request' = "update_beacon"
     ELSE request' = "stuck" /\ UNCHANGED vendor_elements
  /\ UNCHANGED <<enabled, round, payload, legs, given, air>>

\* send_update_beacon
GiveUpdate ==
  /\ request = "update_beacon" /\ Request("update_beacon")
  /\ UNCHANGED frameVars

\* hostapd_cli_cmd_update_beacon
RunUpdate ==
  /\ request = "update_beacon" /\ Return
  /\ IF Handled
     THEN /\ \/ air' = [air EXCEPT !["beacon"] = [received |-> FromElement(vendor_elements.bytes),
                                                 from |-> vendor_elements.from]]
             \/ UNCHANGED air
          /\ request' = "none" /\ legs' = Tail(legs)
     ELSE request' = "stuck" /\ UNCHANGED <<legs, air>>
  /\ UNCHANGED <<enabled, round, payload, given, vendor_elements>>

\* hostapd_cli_cmd_quit
RunQuit ==
  /\ request = "quit" /\ Return
  /\ request' = IF Handled THEN "done" ELSE "stuck"
  /\ UNCHANGED <<enabled, round, payload, legs, given, vendor_elements, air>>

Finished == request = "done" /\ UNCHANGED vars

Next ==
  \/ EncodeSingle \/ EncodePack \/ PassBy \/ GiveBluetooth \/ GiveBeacon \/ GiveQuit
  \/ GiveUpdate \/ SearchTable \/ RunSet \/ RunUpdate \/ RunQuit \/ Finished

Spec == Init /\ [][Next]_vars

----------------------------------------------------------------------------
(* Properties *)

\* What is received on any of the transports is, byte for byte and with its
\* counter, something that transport was given, and the beacon's is a whole
\* message even when only one of its two commands was executed.
ReceivedAsGiven ==
  \A t \in Transports : air[t].from # 0 => air[t].received = given[air[t].from]

\* Each request of wifi_beacon.c ends in a handler of its own that posts the
\* semaphore, so that the sem_wait after it returns.
EveryRequestPosts == request # "stuck"
============================================================================
