---------------------------- MODULE FrameLayout ----------------------------
(***************************************************************************)
(* The bytes that carry a message: the vendor element of a Wi-Fi Beacon,   *)
(* written in hexadecimal digits (wifi_beacon.c, utils.c), and the         *)
(* advertising data of Bluetooth (bluetooth.c).  What hostapd, the         *)
(* Bluetooth controller and a receiver make of them is external.           *)
(*                                                                         *)
(* An array of C is a function on 0..n-1, a message a sequence of bytes.   *)
(***************************************************************************)
EXTENDS Integers, Sequences

CONSTANTS
  MessageSize,     \* ODID_MESSAGE_SIZE, 25
  PackMaxMessages  \* ODID_PACK_MAX_MESSAGES, 9

\* The lengths in the templates are those of messages of 25 bytes; a pack of
\* ten would not have its length in a byte.
ASSUME FrameAssumption == MessageSize = 25 /\ PackMaxMessages \in 1..9

Byte   == 0..255
Octets == Seq(Byte)

\* The bytes of a pack of n messages: three come before the messages.
PackSize(n) == 3 + n * MessageSize

----------------------------------------------------------------------------
(* Characters *)

\* One character of uchar_to_ascii: 0-9, A-F.
Digit(n) == IF n < 10 THEN 48 + n ELSE 55 + n

\* uchar_to_ascii: the character at out[k], k = 0 or 1.
UcharToAscii(in, k) == Digit(IF k = 0 THEN in \div 16 ELSE in % 16)

\* ((char *) pack_enc)[i] is a signed number.
AsChar(b) == IF b < 128 THEN b ELSE b - 256

\* Variant: the argument and the array are of char too.
KeptSigned(n) == n

\* Its conversion to the uint8_t argument of uchar_to_ascii, or to an element of
\* a uint8_t array.
AsUint8(n) == n % 256

\* A string of C ends with its first NUL.
CString(buf) ==
  LET end == CHOOSE k \in DOMAIN buf : buf[k] = 0 /\ \A j \in DOMAIN buf : j < k => buf[j] # 0
  IN  [k \in 1..end |-> buf[k - 1]]

----------------------------------------------------------------------------
(* The vendor element *)

WIFI_BEACON_HEADER_SIZE == 7

\* "dd1EFA0BBC0D00": in two lower case letters the identifier of the element,
\* then its length, the OUI, the type and the message counter.
HeaderBytes == <<221, 30, 250, 11, 188, 13, 0>>
Header      == [k \in 0..13 |-> IF k < 2 THEN 100 ELSE UcharToAscii(HeaderBytes[k \div 2 + 1], k % 2)]

\* Variant: the header is longer by the identifier of the element.
LengthOfAll(n) == WIFI_BEACON_HEADER_SIZE + PackSize(n)

\* The data length that send_beacon_message_pack writes.
PackLength(n) == (WIFI_BEACON_HEADER_SIZE - 2) + PackSize(n)

\* data[] with the digits of one byte after the other from position 14 on.
Filled(size, bytes) ==
  [k \in 0..(size - 1) |->
     CASE k < 14 -> Header[k]
       [] k \in 14..(13 + 2 * Len(bytes)) -> UcharToAscii(bytes[(k - 14) \div 2 + 1], k % 2)
       [] OTHER -> 0]

\* Two characters, written over data[at] and data[at + 1].
Over(data, at, in) == [data EXCEPT ![at] = UcharToAscii(in, 0), ![at + 1] = UcharToAscii(in, 1)]

\* send_beacon_message: the third word of the command.
SingleElement(message, counter) ==
  CString(Over(Filled(2 * (WIFI_BEACON_HEADER_SIZE + MessageSize) + 1, message), 12, counter))

\* send_beacon_message_pack, for a pack that says it holds n messages.
PackElement(pack, n, counter) ==
  LET size  == 2 * (WIFI_BEACON_HEADER_SIZE + PackSize(PackMaxMessages)) + 1
      bytes == [i \in 1..PackSize(n) |-> AsUint8(AsChar(pack[i]))]
  IN  CString(Over(Over(Filled(size, bytes), 2, AsUint8(PackLength(n))), 12, counter))

----------------------------------------------------------------------------
(* Advertising data: the parameters of the HCI commands *)

\* The element that carries a message: its length, 16, FAFF and 0D, the counter,
\* and the message.
ServiceData(length, counter, bytes) == <<length, 22, 250, 255, 13, counter>> \o bytes

\* hci_le_set_advertising_data
LegacyParameters(message, counter) == <<31>> \o ServiceData(30, counter, message)

\* hci_le_set_extended_advertising_data, for the set with this handle
ExtendedParameters(handle, message, counter) ==
  <<handle, 3, 1, 31>> \o ServiceData(30, counter, message)

\* hci_le_set_extended_advertising_data_pack: all of the buffer is sent, also
\* what a smaller pack leaves at 0.
PackParameters(handle, pack, n, counter) ==
  <<handle, 3, 1, AsUint8(1 + 5 + PackSize(n))>>
  \o ServiceData(AsUint8(5 + PackSize(n)), counter,
       [i \in 1..PackSize(PackMaxMessages) |-> IF i <= PackSize(n) THEN AsUint8(AsChar(pack[i])) ELSE 0])
----------------------------------------------------------------------------
(* What becomes of the bytes (external) *)

Garbage == [counter |-> 0, data |-> <<>>]

\* hostapd reads digits of either case; 16 is none.
HexValue(c) == CASE c \in 48..57  -> c - 48
                 [] c \in 65..70  -> c - 55
                 [] c \in 97..102 -> c - 87
                 [] OTHER -> 16

IsHex(text) == Len(text) % 2 = 0 /\ \A k \in DOMAIN text : HexValue(text[k]) < 16

FromHex(text) ==
  [i \in 1..(Len(text) \div 2) |-> 16 * HexValue(text[2 * i - 1]) + HexValue(text[2 * i])]

\* A receiver of the beacon: a vendor element (DD) of the length it states.
FromElement(e) ==
  IF /\ Len(e) >= 7 /\ e[1] = 221 /\ e[2] = Len(e) - 2
     /\ e[3] = 250 /\ e[4] = 11 /\ e[5] = 188 /\ e[6] = 13
  THEN [counter |-> e[7], data |-> [i \in 1..(Len(e) - 7) |-> e[i + 7]]]
  ELSE Garbage

\* The controller takes as much of the parameters as their length at this place
\* says; a receiver finds service data of the length it states.
FromParameters(p, at) ==
  IF /\ p[at] >= 6 /\ at + p[at] <= Len(p) /\ p[at + 1] = p[at] - 1
     /\ p[at + 2] = 22 /\ p[at + 3] = 250 /\ p[at + 4] = 255 /\ p[at + 5] = 13
  THEN [counter |-> p[at + 6], data |-> [i \in 1..(p[at] - 6) |-> p[at + 6 + i]]]
  ELSE Garbage
============================================================================
