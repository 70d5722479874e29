------------------------ MODULE MessageFramesProofs ------------------------
(***************************************************************************)
(* What a receiver sees of a message, for every content of the messages,   *)
(* every counter and every set of failing encoders: it is what the         *)
(* transport was given; and every request to hostapd posts the semaphore.  *)
(*                                                                         *)
(* The inductive invariant ties the message in vendor_elements, which one  *)
(* action writes and a later one shows, to what was given, and the row the *)
(* search is at to the request it is for.                                  *)
(***************************************************************************)
EXTENDS MessageFrames, FrameLayoutProofs, CommandDispatchProofs

\* The bytes of the payload are a message or a full pack, and only the
\* transports of packs are given one.
PayloadOK ==
  /\ Len(payload.data) = IF payload.pack THEN PackSize(PackMaxMessages) ELSE MessageSize
  /\ payload.pack => \A k \in DOMAIN legs : legs[k].to \in {"beacon", "bt5"}

\* The request is made for the first of the calls, and the search is for it.
RequestOK ==
  /\ request \in {"set", "update_beacon"} => legs # <<>> /\ Head(legs).to = "beacon"
  /\ request \in {"none", "stuck", "done"} => dpc = "idle"
  /\ dpc # "idle" => argv0 = request

\* What SET carries is the last that was given.
Current ==
  request = "set" =>
    /\ given # <<>>
    /\ given[Len(given)] = [counter |-> Head(legs).counter, data |-> Transmitted]

\* The element that hostapd holds is one that was given.
VendorAsGiven ==
  vendor_elements.from # 0 =>
    FromElement(vendor_elements.bytes) = given[vendor_elements.from]

Consistent == PayloadOK /\ RequestOK /\ Current /\ VendorAsGiven

FramesInv ==
  FrameTypeOK /\ DispatchOK /\ Consistent /\ ReceivedAsGiven /\ EveryRequestPosts

----------------------------------------------------------------------------
(* The encoders *)

\* The messages that the buffer may hold after the i-th encoder.
Kept(failed, i) == {0} \cup ((1..i) \ failed)

HasLast(failed, i) == \E h \in Kept(failed, i) : \A j \in Kept(failed, i) : j <= h

LEMMA LastOfNext ==
  ASSUME NEW failed, NEW i \in Nat, HasLast(failed, i)
  PROVE  HasLast(failed, i + 1)
<1>1. CASE i + 1 \in failed
  <2>1. Kept(failed, i + 1) = Kept(failed, i)
    BY <1>1 DEF Kept
  <2>. QED  BY <2>1 DEF HasLast
<1>2. CASE i + 1 \notin failed
  <2>1. i + 1 \in Kept(failed, i + 1) /\ \A j \in Kept(failed, i + 1) : j <= i + 1
    BY <1>2 DEF Kept
  <2>. QED  BY <2>1 DEF HasLast
<1>. QED  BY <1>1, <1>2

LEMMA HeldIsMessage ==
  ASSUME NEW failed, NEW i \in 0..PackMaxMessages
  PROVE  Held(failed, i) \in 0..PackMaxMessages
<1>1. HasLast(failed, 0)
  BY DEF HasLast, Kept
<1>2. HasLast(failed, 1)
  BY <1>1, LastOfNext, 0 + 1 = 1
<1>3. HasLast(failed, 2)
  BY <1>2, LastOfNext, 1 + 1 = 2
<1>4. HasLast(failed, 3)
  BY <1>3, LastOfNext, 2 + 1 = 3
<1>5. HasLast(failed, 4)
  BY <1>4, LastOfNext, 3 + 1 = 4
<1>6. HasLast(failed, 5)
  BY <1>5, LastOfNext, 4 + 1 = 5
<1>7. HasLast(failed, 6)
  BY <1>6, LastOfNext, 5 + 1 = 6
<1>8. HasLast(failed, 7)
  BY <1>7, LastOfNext, 6 + 1 = 7
<1>9. HasLast(failed, 8)
  BY <1>8, LastOfNext, 7 + 1 = 8
<1>10. HasLast(failed, 9)
  BY <1>9, LastOfNext, 8 + 1 = 9
<1>11. i \in {0, 1, 2, 3, 4, 5, 6, 7, 8, 9}
  BY FrameAssumption
<1>12. HasLast(failed, i)
  BY <1>1, <1>2, <1>3, <1>4, <1>5, <1>6, <1>7, <1>8, <1>9, <1>10, <1>11
<1>13. Held(failed, i) \in Kept(failed, i)
  BY <1>12 DEF HasLast, Held, Kept
<1>14. Kept(failed, i) \subseteq 0..PackMaxMessages
  BY FrameAssumption DEF Kept
<1>. QED  BY <1>13, <1>14

LEMMA ContentBytes ==
  \A h \in 0..PackMaxMessages :
    /\ Content[h] \in Octets /\ Len(Content[h]) = MessageSize
    /\ \A k \in 1..MessageSize : Content[h][k] \in Byte
<1>. SUFFICES ASSUME NEW h \in 0..PackMaxMessages
              PROVE  /\ Content[h] \in Octets /\ Len(Content[h]) = MessageSize
                     /\ \A k \in 1..MessageSize : Content[h][k] \in Byte
  OBVIOUS
<1>1. Content[h] \in [1..MessageSize -> Byte]
  BY ContentAssumption
<1>2. Content[h] = [k \in 1..MessageSize |-> Content[h][k]]
      /\ \A k \in 1..MessageSize : Content[h][k] \in Byte
  BY <1>1
<1>3. MessageSize \in Nat
  BY FrameAssumption
<1>. QED  BY <1>2, <1>3, OctetsOf

LEMMA SingleBytes ==
  ASSUME NEW failed, NEW i \in 1..PackMaxMessages
  PROVE  /\ Single(failed, i) \in [pack : BOOLEAN, size : 0..PackMaxMessages, data : Octets]
         /\ ~Single(failed, i).pack
         /\ Len(Single(failed, i).data) = MessageSize
<1>1. Held(failed, i) \in 0..PackMaxMessages
  BY HeldIsMessage
<1>2. 1 \in 0..PackMaxMessages
  BY FrameAssumption
<1>. QED  BY <1>1, <1>2, ContentBytes DEF Single

LEMMA PackBytes ==
  ASSUME NEW failed
  PROVE  Pack(failed) \in Octets /\ Len(Pack(failed)) = PackSize(PackMaxMessages)
<1>. DEFINE size == PackSize(PackMaxMessages)
<1>1. size \in Nat /\ MessageSize = 25 /\ size = 3 + PackMaxMessages * 25 /\ PackMaxMessages \in 1..9
  BY FrameAssumption DEF PackSize
<1>2. ASSUME NEW k \in 1..size PROVE Pack(failed)[k] \in Byte
  <2>1. CASE k = 1
    BY <2>1 DEF Pack, Byte
  <2>2. CASE k = 2
    BY <2>2, <1>1 DEF Pack, Byte
  <2>3. CASE k = 3
    BY <2>3, <1>1 DEF Pack, Byte
  <2>4. CASE k > 3
    <3>. DEFINE i == ((k - 4) \div 25) + 1
                j == ((k - 4) % 25) + 1
    <3>1. i \in 1..PackMaxMessages /\ j \in 1..25
      BY <1>1, <2>4
    <3>2. Pack(failed)[k] = Content[Held(failed, i)][j]
      BY <1>1, <2>4 DEF Pack
    <3>. HIDE DEF i, j
    <3>3. Held(failed, i) \in 0..PackMaxMessages
      BY <3>1, HeldIsMessage
    <3>. QED  BY <1>1, <3>1, <3>2, <3>3, ContentBytes
  <2>. QED  BY <2>1, <2>2, <2>3, <2>4
<1>3. Pack(failed) = [k \in 1..size |-> Pack(failed)[k]]
  BY DEF Pack
<1>. QED  BY <1>1, <1>2, <1>3, OctetsOf

LEMMA NoPackBytes == NoPack \in Octets /\ Len(NoPack) = PackSize(PackMaxMessages)
<1>1. PackSize(PackMaxMessages) \in Nat
  BY FrameAssumption DEF PackSize
<1>. QED  BY <1>1 DEF NoPack, Octets, Byte

----------------------------------------------------------------------------
(* What is transmitted, and what is received *)

Sent(counter, data) == [counter |-> counter, data |-> data]
Carried == [counter : Byte, data : Octets]
Calls   == Seq([to : Transports, counter : Byte])

LEMMA TransmittedBytes ==
  ASSUME FrameTypeOK, PayloadOK
  PROVE  /\ Transmitted \in Octets
         /\ payload.pack => Transmitted = SubSeq(payload.data, 1, PackSize(payload.size))
         /\ ~payload.pack => Transmitted = payload.data
<1>1. /\ payload.data \in Seq(Byte) /\ payload.size \in 0..PackMaxMessages
      /\ payload.pack \in BOOLEAN
  BY DEF FrameTypeOK, Octets
<1>2. CASE payload.pack
  <2>1. PackSize(payload.size) \in Nat /\ PackSize(payload.size) <= Len(payload.data)
    BY <1>1, <1>2, FrameAssumption DEF PayloadOK, PackSize
  <2>2. Transmitted = SubSeq(payload.data, 1, PackSize(payload.size))
    BY <1>2 DEF Transmitted
  <2>3. SubSeq(payload.data, 1, PackSize(payload.size)) \in Seq(Byte)
    BY <1>1, <2>1
  <2>. QED  BY <1>2, <2>2, <2>3 DEF Octets
<1>3. CASE ~payload.pack
  <2>1. Len(payload.data) = MessageSize /\ MessageSize \in Nat
    BY <1>3, FrameAssumption DEF PayloadOK
  <2>2. Transmitted = SubSeq(payload.data, 1, Len(payload.data))
    BY <1>3, <2>1 DEF Transmitted
  <2>3. SubSeq(payload.data, 1, Len(payload.data)) = payload.data
    BY <1>1
  <2>. QED  BY <1>1, <1>3, <2>2, <2>3 DEF Octets
<1>. QED  BY <1>1, <1>2, <1>3

LEMMA FirstCall ==
  ASSUME NEW calls \in Calls, calls # <<>>
  PROVE  /\ Head(calls) = calls[1] /\ 1 \in DOMAIN calls
         /\ Head(calls).to \in Transports /\ Head(calls).counter \in Byte
         /\ Tail(calls) \in Calls
         /\ \A k \in DOMAIN Tail(calls) : k + 1 \in DOMAIN calls /\ Tail(calls)[k] = calls[k + 1]
<1>. DEFINE call == [to : Transports, counter : Byte]
<1>1. calls \in Seq(call)
  BY DEF Calls
<1>. HIDE DEF call
<1>2. Head(calls) = calls[1] /\ 1 \in DOMAIN calls /\ calls[1] \in call
  BY <1>1
<1>3. calls[1].to \in Transports /\ calls[1].counter \in Byte
  BY <1>2 DEF call
<1>4. Tail(calls) \in Seq(call)
  BY <1>1
<1>5. \A k \in DOMAIN Tail(calls) : k + 1 \in DOMAIN calls /\ Tail(calls)[k] = calls[k + 1]
  BY <1>1
<1>. QED  BY <1>2, <1>3, <1>4, <1>5 DEF call, Calls

LEMMA ElementAsGiven ==
  ASSUME FrameTypeOK, PayloadOK, legs # <<>>
  PROVE  /\ SetRequest + Len(Element) < SetMax
         /\ IsReadAs(Element, Head(legs).counter, Transmitted)
<1>. DEFINE n == Head(legs).counter
            l == Len(Element)
<1>1. n \in Byte
  BY FirstCall DEF FrameTypeOK, Calls
<1>2. payload.data \in Seq(Byte) /\ payload.size \in 0..PackMaxMessages
  BY DEF FrameTypeOK, Octets
<1>. HIDE DEF n
<1>3. IsReadAs(Element, n, Transmitted)
  <2>1. CASE payload.pack
    <3>1. Element = PackElement(payload.data, payload.size, n)
      BY <2>1 DEF Element, n
    <3>2. Len(payload.data) = PackSize(PackMaxMessages)
      BY <2>1 DEF PayloadOK
    <3>3. IsReadAs(Element, n, SubSeq(payload.data, 1, PackSize(payload.size)))
      BY <1>1, <1>2, <3>1, <3>2, PackElementRead
    <3>. QED  BY <2>1, <3>3, TransmittedBytes
  <2>2. CASE ~payload.pack
    <3>1. Element = SingleElement(payload.data, n)
      BY <2>2 DEF Element, n
    <3>2. Len(payload.data) = MessageSize
      BY <2>2 DEF PayloadOK
    <3>3. IsReadAs(Element, n, payload.data)
      BY <1>1, <1>2, <3>1, <3>2, SingleElementRead
    <3>. QED  BY <2>2, <3>3, TransmittedBytes
  <2>. QED  BY <1>2, <2>1, <2>2 DEF FrameTypeOK
<1>4. l \in 0..470
  BY <1>3 DEF IsReadAs
<1>. HIDE DEF l
<1>5. SetRequest + l < SetMax
  BY <1>4 DEF SetRequest, SetMax
<1>. QED  BY <1>3, <1>5 DEF l, n

LEMMA ParametersAsGiven ==
  ASSUME FrameTypeOK, PayloadOK, legs # <<>>, Head(legs).to # "beacon"
  PROVE  FromParameters(Parameters(Head(legs).to, Head(legs).counter),
                        IF Head(legs).to = "btl" THEN 1 ELSE 4)
           = Sent(Head(legs).counter, Transmitted)
<1>. DEFINE n == Head(legs).counter
            t == Head(legs).to
<1>1. n \in Byte /\ t \in Transports /\ Head(legs) = legs[1] /\ 1 \in DOMAIN legs
  BY FirstCall DEF FrameTypeOK, Calls
<1>2. payload.data \in Seq(Byte) /\ payload.size \in 0..PackMaxMessages
  BY DEF FrameTypeOK, Octets
<1>3. payload.pack => t = "bt5"
  BY <1>1 DEF PayloadOK
<1>4. t \in {"btl", "bt4", "bt5"}
  BY <1>1 DEF Transports
<1>. HIDE DEF n, t
<1>5. 0 \in Byte /\ 1 \in Byte
  BY DEF Byte
<1>6. CASE payload.pack
  <2>1. Len(payload.data) = PackSize(PackMaxMessages)
    BY <1>6 DEF PayloadOK
  <2>2. Parameters(t, n) = PackParameters(1, payload.data, payload.size, n)
    BY <1>3, <1>6 DEF Parameters
  <2>3. FromParameters(PackParameters(1, payload.data, payload.size, n), 4)
          = Sent(n, SubSeq(payload.data, 1, PackSize(payload.size)))
    BY <1>1, <1>2, <1>5, <2>1, PackParametersRead DEF Sent
  <2>. QED  BY <1>3, <1>6, <2>2, <2>3, TransmittedBytes DEF n, t
<1>7. CASE ~payload.pack
  <2>1. Len(payload.data) = MessageSize
    BY <1>7 DEF PayloadOK
  <2>2. /\ FromParameters(LegacyParameters(payload.data, n), 1) = Sent(n, payload.data)
        /\ FromParameters(ExtendedParameters(0, payload.data, n), 4) = Sent(n, payload.data)
        /\ FromParameters(ExtendedParameters(1, payload.data, n), 4) = Sent(n, payload.data)
    BY <1>1, <1>2, <1>5, <2>1, SingleParametersRead DEF Sent
  <2>3. Transmitted = payload.data
    BY <1>7, TransmittedBytes
  <2>4. CASE t = "btl"
    BY <2>2, <2>3, <2>4 DEF Parameters, n, t
  <2>5. CASE t = "bt4"
    BY <2>2, <2>3, <2>5 DEF Parameters, n, t
  <2>6. CASE t = "bt5"
    BY <1>7, <2>2, <2>3, <2>6 DEF Parameters, n, t
  <2>. QED  BY <1>4, <2>4, <2>5, <2>6
<1>. QED  BY <1>6, <1>7

\* Whatever bytes hostapd holds, a receiver reads bytes.
LEMMA ElementCarries ==
  ASSUME NEW e \in Octets
  PROVE  FromElement(e) \in Carried
<1>1. e \in Seq(Byte)
  BY DEF Octets
<1>2. <<>> \in Octets /\ 0 \in Byte
  BY DEF Octets, Byte
<1>3. CASE Len(e) >= 7
  <2>. DEFINE d == [i \in 1..(Len(e) - 7) |-> e[i + 7]]
  <2>1. e[7] \in Byte
    BY <1>1, <1>3
  <2>2. Len(e) - 7 \in Nat /\ \A i \in 1..(Len(e) - 7) : d[i] \in Byte
    BY <1>1, <1>3
  <2>3. d = [i \in 1..(Len(e) - 7) |-> d[i]]
    OBVIOUS
  <2>. HIDE DEF d
  <2>4. d \in Octets
    BY <2>2, <2>3, OctetsOf
  <2>5. [counter |-> e[7], data |-> d] \in Carried
    BY <2>1, <2>4 DEF Carried
  <2>. QED  BY <1>2, <2>5 DEF FromElement, Garbage, Carried, d
<1>4. CASE ~(Len(e) >= 7)
  BY <1>2, <1>4 DEF FromElement, Garbage, Carried
<1>. QED  BY <1>3, <1>4

LEMMA CallsOfMessage ==
  ASSUME NEW n \in Byte
  PROVE  SingleCalls(n) \in Calls
<1>1. \A k \in 1..4 : <<"btl", "bt4", "bt5", "beacon">>[k] \in Transports
  BY DEF Transports
<1>. QED  BY <1>1 DEF SingleCalls, Calls

LEMMA CallsOfPack ==
  ASSUME NEW n \in Byte
  PROVE  /\ PackCalls(n) \in Calls
         /\ \A k \in DOMAIN PackCalls(n) : PackCalls(n)[k].to \in {"beacon", "bt5"}
<1>. DEFINE to(k)      == IF k % 2 = 1 THEN "beacon" ELSE "bt5"
            counter(k) == (n + IF {"beacon", "bt5"} \subseteq enabled THEN k - 1
                                                                     ELSE (k - 1) \div 2) % 256
            m          == 2 * Repeats
<1>1. m \in Nat /\ n \in Nat
  BY ContentAssumption DEF Byte
<1>2. \A k \in 1..m : to(k) \in Transports /\ to(k) \in {"beacon", "bt5"}
  BY DEF Transports
<1>3. \A k \in 1..m : counter(k) \in Byte
  BY <1>1 DEF Byte
<1>4. PackCalls(n) = [k \in 1..m |-> [to |-> to(k), counter |-> counter(k)]]
  BY DEF PackCalls
<1>. HIDE DEF to, counter, m
<1>5. [k \in 1..m |-> [to |-> to(k), counter |-> counter(k)]] \in Calls
  BY <1>1, <1>2, <1>3 DEF Calls
<1>. QED  BY <1>1, <1>2, <1>4, <1>5

----------------------------------------------------------------------------
(* The invariant *)

LEMMA GarbageCarries == Garbage \in Carried
  BY DEF Garbage, Carried, Octets, Byte

LEMMA FramesStart == Init => FramesInv
<1>. SUFFICES ASSUME Init PROVE FramesInv
  OBVIOUS
<1>1. FrameTypeOK
  <2>1. Content[0] \in Octets /\ Len(Content[0]) = MessageSize /\ 0 \in 0..PackMaxMessages
    BY ContentBytes, FrameAssumption
  <2>2. payload \in [pack : BOOLEAN, size : 0..PackMaxMessages, data : Octets]
    BY <2>1 DEF Init
  <2>3. <<221, 1, 0>> \in Octets
    BY DEF Octets, Byte
  <2>4. given = <<>> /\ given \in Seq(Carried) /\ Len(given) = 0
    BY DEF Init
  <2>5. vendor_elements \in [bytes : Octets, from : 0..Len(given)]
    BY <2>3, <2>4 DEF Init
  <2>6. air \in [Transports -> [received : Carried, from : 0..Len(given)]]
    BY <2>4, GarbageCarries DEF Init
  <2>7. enabled \subseteq Transports /\ round \in 0..Rounds /\ legs \in Calls
        /\ request \in {"none", "set", "update_beacon", "quit", "stuck", "done"}
        /\ argv0 \in {"none", "set", "update_beacon", "quit"}
    BY ContentAssumption DEF Init, DispatchInit, Calls
  <2>. QED  BY <2>2, <2>4, <2>5, <2>6, <2>7 DEF FrameTypeOK, Carried, Calls
<1>2. DispatchOK
  BY DispatchStarts DEF Init
<1>3. PayloadOK
  BY ContentBytes, FrameAssumption DEF Init, PayloadOK
<1>4. RequestOK /\ Current /\ EveryRequestPosts
  BY DEF Init, RequestOK, Current, EveryRequestPosts, DispatchInit
<1>5. VendorAsGiven /\ ReceivedAsGiven
  BY DEF Init, VendorAsGiven, ReceivedAsGiven
<1>. QED  BY <1>1, <1>2, <1>3, <1>4, <1>5 DEF FramesInv, Consistent

\* What an encoding leaves in place.
LEMMA EncodeKeeps ==
  ASSUME FramesInv, EncodeSingle \/ EncodePack
  PROVE  FramesInv'
<1>1. /\ legs = <<>> /\ request = "none" /\ round \in 0..Rounds /\ round' = round + 1
      /\ round < Rounds
      /\ UNCHANGED <<enabled, request, given, vendor_elements, air, dispatchVars>>
  BY DEF EncodeSingle, EncodePack, Idle, FramesInv, FrameTypeOK
<1>2. /\ payload' \in [pack : BOOLEAN, size : 0..PackMaxMessages, data : Octets]
      /\ legs' \in Calls /\ PayloadOK'
  <2>1. CASE EncodeSingle
    <3>1. PICK failed \in Failures, i \in 1..PackMaxMessages : payload' = Single(failed, i)
      BY <2>1 DEF EncodeSingle
    <3>2. PICK n \in Counters : legs' = SingleCalls(n)
      BY <2>1 DEF EncodeSingle
    <3>3. n \in Byte
      BY ContentAssumption
    <3>. QED  BY <3>1, <3>2, <3>3, SingleBytes, CallsOfMessage DEF PayloadOK
  <2>2. CASE EncodePack
    <3>1. PICK n \in Counters : legs' = PackCalls(n)
      BY <2>2 DEF EncodePack
    <3>2. n \in Byte
      BY ContentAssumption
    <3>3. legs' \in Calls /\ \A k \in DOMAIN legs' : legs'[k].to \in {"beacon", "bt5"}
      BY <3>1, <3>2, CallsOfPack
    <3>4. /\ payload' \in [pack : BOOLEAN, size : 0..PackMaxMessages, data : Octets]
          /\ Len(payload'.data) = PackSize(PackMaxMessages) /\ payload'.pack
      <4>1. CASE payload' = [pack |-> TRUE, size |-> 0, data |-> NoPack]
        BY <4>1, NoPackBytes, FrameAssumption
      <4>2. CASE \E failed \in Failures :
                   payload' = [pack |-> TRUE, size |-> PackMaxMessages, data |-> Pack(failed)]
        BY <4>2, PackBytes, FrameAssumption
      <4>. QED  BY <2>2, <4>1, <4>2 DEF EncodePack
    <3>. QED  BY <3>3, <3>4 DEF PayloadOK
  <2>. QED  BY <2>1, <2>2
<1>3. FrameTypeOK'
  <2>1. round' \in 0..Rounds
    BY <1>1, ContentAssumption
  <2>. QED  BY <1>1, <1>2, <2>1 DEF FramesInv, FrameTypeOK, Calls, dispatchVars
<1>4. DispatchOK'
  BY <1>1, DispatchStutters DEF FramesInv
<1>5. RequestOK' /\ Current' /\ EveryRequestPosts'
  BY <1>1 DEF FramesInv, Consistent, RequestOK, Current, EveryRequestPosts, dispatchVars
<1>6. VendorAsGiven' /\ ReceivedAsGiven'
  BY <1>1 DEF FramesInv, Consistent, VendorAsGiven, ReceivedAsGiven
<1>. QED  BY <1>2, <1>3, <1>4, <1>5, <1>6 DEF FramesInv, Consistent

\* The calls that remain after the first are calls of the same payload.
LEMMA NextCalls ==
  ASSUME FrameTypeOK, PayloadOK, legs # <<>>, legs' = Tail(legs), payload' = payload
  PROVE  legs' \in Calls /\ PayloadOK'
<1>1. /\ Tail(legs) \in Calls
      /\ \A k \in DOMAIN Tail(legs) : k + 1 \in DOMAIN legs /\ Tail(legs)[k] = legs[k + 1]
  BY FirstCall DEF FrameTypeOK, Calls
<1>. QED  BY <1>1 DEF PayloadOK

LEMMA PassByKeeps ==
  ASSUME FramesInv, PassBy
  PROVE  FramesInv'
<1>1. /\ legs # <<>> /\ request = "none" /\ legs' = Tail(legs)
      /\ UNCHANGED <<enabled, round, payload, request, given, vendor_elements, air, dispatchVars>>
  BY DEF PassBy
<1>2. legs' \in Calls /\ PayloadOK'
  BY <1>1, NextCalls DEF FramesInv, Consistent
<1>3. FrameTypeOK'
  BY <1>1, <1>2 DEF FramesInv, FrameTypeOK, Calls, dispatchVars
<1>4. DispatchOK'
  BY <1>1, DispatchStutters DEF FramesInv
<1>5. RequestOK' /\ Current' /\ EveryRequestPosts'
  BY <1>1 DEF FramesInv, Consistent, RequestOK, Current, EveryRequestPosts, dispatchVars
<1>6. VendorAsGiven' /\ ReceivedAsGiven'
  BY <1>1 DEF FramesInv, Consistent, VendorAsGiven, ReceivedAsGiven
<1>. QED  BY <1>2, <1>3, <1>4, <1>5, <1>6 DEF FramesInv, Consistent

Grown(old, new, r) ==
  /\ new \in Seq(Carried) /\ Len(old) \in Nat /\ Len(new) = Len(old) + 1
  /\ \A k \in 1..Len(old) : new[k] = old[k]
  /\ new[Len(new)] = r

LEMMA Growth ==
  ASSUME NEW old \in Seq(Carried), NEW r \in Carried
  PROVE  Grown(old, Append(old, r), r)
<1>. DEFINE C == Carried
<1>. HIDE DEF C
<1>1. old \in Seq(C) /\ r \in C
  BY DEF C
<1>2. /\ Append(old, r) \in Seq(C) /\ Len(old) \in Nat /\ Len(Append(old, r)) = Len(old) + 1
      /\ \A k \in 1..Len(old) : Append(old, r)[k] = old[k]
      /\ Append(old, r)[Len(old) + 1] = r
  BY <1>1
<1>. QED  BY <1>2 DEF Grown, C

\* What was given before keeps its place.
LEMMA PlacesKept ==
  ASSUME FramesInv, NEW r \in Carried, given' = Append(given, r),
         vendor_elements' = vendor_elements
  PROVE  /\ Grown(given, given', r)
         /\ vendor_elements' \in [bytes : Octets, from : 0..Len(given')]
         /\ VendorAsGiven'
         /\ air \in [Transports -> [received : Carried, from : 0..Len(given')]]
         /\ \A t \in Transports : air[t].from # 0 => air[t].received = given'[air[t].from]
<1>1. given \in Seq(Carried)
  BY DEF FramesInv, FrameTypeOK, Carried
<1>2. Grown(given, given', r)
  BY <1>1, Growth
<1>3. 0..Len(given) \subseteq 0..Len(given')
  BY <1>2 DEF Grown
<1>4. vendor_elements \in [bytes : Octets, from : 0..Len(given)]
  BY DEF FramesInv, FrameTypeOK
<1>5. air \in [Transports -> [received : Carried, from : 0..Len(given)]]
  BY DEF FramesInv, FrameTypeOK, Carried
<1>6. vendor_elements' \in [bytes : Octets, from : 0..Len(given')]
  BY <1>3, <1>4
<1>7. ASSUME NEW t \in Transports
      PROVE  /\ air[t] \in [received : Carried, from : 0..Len(given')]
             /\ air[t].from # 0 => air[t].received = given'[air[t].from]
  <2>1. air[t] \in [received : Carried, from : 0..Len(given)]
    BY <1>5
  <2>2. air[t].from # 0 => air[t].from \in 1..Len(given)
    BY <2>1, <1>2 DEF Grown
  <2>3. air[t].from # 0 => air[t].received = given[air[t].from]
    BY DEF FramesInv, ReceivedAsGiven
  <2>4. air[t] \in [received : Carried, from : 0..Len(given')]
    BY <1>3, <2>1
  <2>. QED  BY <2>2, <2>3, <2>4, <1>2 DEF Grown
<1>8. VendorAsGiven'
  <2>1. vendor_elements.from # 0 => vendor_elements.from \in 1..Len(given)
    BY <1>2, <1>4 DEF Grown
  <2>. QED  BY <1>2, <2>1 DEF Grown, FramesInv, Consistent, VendorAsGiven
<1>9. air \in [Transports -> [received : Carried, from : 0..Len(given')]]
  BY <1>5, <1>7
<1>. QED  BY <1>2, <1>6, <1>7, <1>8, <1>9

LEMMA SentCarries ==
  ASSUME FramesInv, legs # <<>>
  PROVE  Sent(Head(legs).counter, Transmitted) \in Carried
<1>1. Head(legs).counter \in Byte
  BY FirstCall DEF FramesInv, FrameTypeOK, Calls
<1>2. Transmitted \in Octets
  BY TransmittedBytes DEF FramesInv, Consistent
<1>. QED  BY <1>1, <1>2 DEF Sent, Carried

LEMMA GiveBluetoothKeeps ==
  ASSUME FramesInv, GiveBluetooth
  PROVE  FramesInv'
<1>. DEFINE t == Head(legs).to
            r == Sent(Head(legs).counter, Transmitted)
            p == Parameters(t, Head(legs).counter)
            at == IF t = "btl" THEN 1 ELSE 4
<1>1. /\ legs # <<>> /\ request = "none" /\ legs' = Tail(legs) /\ t # "beacon"
      /\ given' = Append(given, r)
      /\ \/ air' = [air EXCEPT ![t] = [received |-> FromParameters(p, at), from |-> Len(given')]]
         \/ air' = air
      /\ UNCHANGED <<enabled, round, payload, request, vendor_elements, dispatchVars>>
  BY DEF GiveBluetooth, Sent
<1>2. r \in Carried
  BY <1>1, SentCarries
<1>3. /\ Grown(given, given', r)
      /\ vendor_elements' \in [bytes : Octets, from : 0..Len(given')]
      /\ VendorAsGiven'
      /\ air \in [Transports -> [received : Carried, from : 0..Len(given')]]
      /\ \A u \in Transports : air[u].from # 0 => air[u].received = given'[air[u].from]
  BY <1>1, <1>2, PlacesKept
<1>4. FromParameters(p, at) = r /\ t \in Transports
  BY <1>1, ParametersAsGiven, FirstCall DEF FramesInv, FrameTypeOK, Consistent, Calls
<1>. HIDE DEF t, r, p, at
<1>5. Len(given') \in 0..Len(given') /\ given'[Len(given')] = r
  BY <1>3 DEF Grown
<1>6. /\ air' \in [Transports -> [received : Carried, from : 0..Len(given')]]
      /\ ReceivedAsGiven'
  <2>1. CASE air' = air
    BY <1>3, <2>1 DEF ReceivedAsGiven
  <2>2. CASE air' = [air EXCEPT ![t] = [received |-> r, from |-> Len(given')]]
    <3>1. [received |-> r, from |-> Len(given')] \in [received : Carried, from : 0..Len(given')]
      BY <1>2, <1>5
    <3>2. air' \in [Transports -> [received : Carried, from : 0..Len(given')]]
      BY <1>3, <2>2, <3>1
    <3>3. ASSUME NEW u \in Transports, air'[u].from # 0
          PROVE  air'[u].received = given'[air'[u].from]
      <4>1. CASE u = t
        BY <1>3, <1>4, <1>5, <2>2, <4>1
      <4>2. CASE u # t
        BY <1>3, <2>2, <3>3, <4>2
      <4>. QED  BY <4>1, <4>2
    <3>. QED  BY <3>2, <3>3 DEF ReceivedAsGiven
  <2>. QED  BY <1>1, <1>4, <2>1, <2>2
<1>7. legs' \in Calls /\ PayloadOK'
  BY <1>1, NextCalls DEF FramesInv, Consistent
<1>8. FrameTypeOK'
  BY <1>1, <1>3, <1>6, <1>7 DEF FramesInv, FrameTypeOK, Grown, Calls, Carried, dispatchVars
<1>9. DispatchOK'
  BY <1>1, DispatchStutters DEF FramesInv
<1>10. RequestOK' /\ Current' /\ EveryRequestPosts'
  BY <1>1 DEF FramesInv, Consistent, RequestOK, Current, EveryRequestPosts, dispatchVars
<1>. QED  BY <1>3, <1>6, <1>7, <1>8, <1>9, <1>10 DEF FramesInv, Consistent

LEMMA GiveBeaconKeeps ==
  ASSUME FramesInv, GiveBeacon
  PROVE  FramesInv'
<1>. DEFINE r == Sent(Head(legs).counter, Transmitted)
<1>1. /\ legs # <<>> /\ request = "none" /\ Head(legs).to = "beacon"
      /\ given' = Append(given, r) /\ request' = "set" /\ Request("set")
      /\ UNCHANGED <<enabled, round, payload, legs, vendor_elements, air>>
  BY DEF GiveBeacon, Sent
<1>2. r \in Carried
  BY <1>1, SentCarries
<1>3. /\ Grown(given, given', r)
      /\ vendor_elements' \in [bytes : Octets, from : 0..Len(given')]
      /\ VendorAsGiven'
      /\ air \in [Transports -> [received : Carried, from : 0..Len(given')]]
      /\ \A u \in Transports : air[u].from # 0 => air[u].received = given'[air[u].from]
  BY <1>1, <1>2, PlacesKept
<1>4. Transmitted' = Transmitted
  BY <1>1 DEF Transmitted
<1>5. Current'
  <2>1. given' # <<>> /\ given'[Len(given')] = r
    BY <1>3 DEF Grown
  <2>. QED  BY <1>1, <1>4, <2>1 DEF Current, Sent
<1>. HIDE DEF r
<1>6. DispatchOK' /\ argv0' = "set" /\ dpc' = "scan"
  BY <1>1, RequestKeeps DEF FramesInv, Request
<1>7. FrameTypeOK'
  BY <1>1, <1>3, <1>6 DEF FramesInv, FrameTypeOK, Grown, Carried
<1>8. RequestOK' /\ EveryRequestPosts' /\ PayloadOK'
  BY <1>1, <1>6 DEF FramesInv, Consistent, RequestOK, PayloadOK, EveryRequestPosts
<1>9. ReceivedAsGiven'
  BY <1>1, <1>3 DEF ReceivedAsGiven
<1>. QED  BY <1>3, <1>5, <1>6, <1>7, <1>8, <1>9 DEF FramesInv, Consistent

\* The steps that leave what was given, and what is received, in place.
LEMMA StillReceived ==
  ASSUME FramesInv, UNCHANGED <<given, vendor_elements, air>>
  PROVE  VendorAsGiven' /\ ReceivedAsGiven'
  BY DEF FramesInv, Consistent, VendorAsGiven, ReceivedAsGiven

LEMMA GiveQuitKeeps ==
  ASSUME FramesInv, GiveQuit
  PROVE  FramesInv'
<1>1. /\ request' = "quit" /\ Request("quit")
      /\ UNCHANGED <<enabled, round, payload, legs, given, vendor_elements, air>>
  BY DEF GiveQuit
<1>2. DispatchOK' /\ argv0' = "quit" /\ dpc' = "scan"
  BY <1>1, RequestKeeps DEF FramesInv, Request
<1>3. FrameTypeOK'
  BY <1>1, <1>2 DEF FramesInv, FrameTypeOK
<1>4. Consistent' /\ ReceivedAsGiven'
  BY <1>1, <1>2, StillReceived DEF FramesInv, Consistent, RequestOK, Current, PayloadOK
<1>. QED  BY <1>1, <1>2, <1>3, <1>4 DEF FramesInv, EveryRequestPosts

LEMMA GiveUpdateKeeps ==
  ASSUME FramesInv, GiveUpdate
  PROVE  FramesInv'
<1>1. request = "update_beacon" /\ Request("update_beacon") /\ UNCHANGED frameVars
  BY DEF GiveUpdate
<1>2. DispatchOK' /\ argv0' = "update_beacon" /\ dpc' = "scan"
  BY <1>1, RequestKeeps DEF FramesInv, Request
<1>3. FrameTypeOK'
  BY <1>1, <1>2 DEF FramesInv, FrameTypeOK, frameVars
<1>4. Consistent' /\ ReceivedAsGiven'
  BY <1>1, <1>2, StillReceived
  DEF FramesInv, Consistent, RequestOK, Current, PayloadOK, Transmitted, frameVars
<1>. QED  BY <1>1, <1>2, <1>3, <1>4 DEF FramesInv, EveryRequestPosts, frameVars

LEMMA SearchTableKeeps ==
  ASSUME FramesInv, SearchTable
  PROVE  FramesInv'
<1>1. Search /\ UNCHANGED frameVars
  BY DEF SearchTable
<1>2. DispatchOK' /\ argv0' = argv0 /\ dpc # "idle"
  BY <1>1, SearchKeeps DEF FramesInv, Search, Compare, PassOver, EndOfTable, Choose
<1>3. FrameTypeOK'
  BY <1>1, <1>2 DEF FramesInv, FrameTypeOK, frameVars
<1>4. Consistent' /\ ReceivedAsGiven'
  BY <1>1, <1>2, StillReceived
  DEF FramesInv, Consistent, RequestOK, Current, PayloadOK, Transmitted, frameVars
<1>. QED  BY <1>1, <1>2, <1>3, <1>4 DEF FramesInv, EveryRequestPosts, frameVars

\* When the search is over, its handler is that of the request.
LEMMA HandledByOwn ==
  ASSUME FramesInv, Return, request \in {"set", "update_beacon", "quit"}
  PROVE  Handled
<1>1. dpc \in {"handler", "refused"} /\ argv0 = request
  BY DEF Return, FramesInv, Consistent, RequestOK
<1>2. Exact(argv0) # {}
  BY <1>1, NamesAssumption
<1>3. dpc # "refused"
  BY <1>2 DEF FramesInv, DispatchOK, DispatchInv
<1>4. StandsFor(argv0, match)
  BY <1>1, <1>3 DEF FramesInv, DispatchOK, DispatchInv, DispatchedAsNamed
<1>5. match \in Exact(argv0)
  BY <1>2, <1>4 DEF StandsFor
<1>. QED  BY <1>1, <1>3, <1>5 DEF Exact, Handled

LEMMA RunSetKeeps ==
  ASSUME FramesInv, RunSet
  PROVE  FramesInv'
<1>1. /\ request = "set" /\ Return
      /\ UNCHANGED <<enabled, round, payload, legs, given, air>>
  BY DEF RunSet
<1>2. legs # <<>> /\ Head(legs).to = "beacon" /\ given # <<>>
      /\ given[Len(given)] = Sent(Head(legs).counter, Transmitted)
  BY <1>1 DEF FramesInv, Consistent, RequestOK, Current, Sent
<1>3. SetRequest + Len(Element) < SetMax /\ IsReadAs(Element, Head(legs).counter, Transmitted)
  BY <1>2, ElementAsGiven DEF FramesInv, Consistent
<1>4. /\ request' = "update_beacon"
      /\ \/ vendor_elements' = [bytes |-> FromHex(Element), from |-> Len(given)]
         \/ vendor_elements' = vendor_elements
  BY <1>1, <1>3, HandledByOwn DEF RunSet
<1>5. DispatchOK' /\ dpc' = "idle" /\ argv0' = argv0
  BY <1>1, ReturnKeeps DEF FramesInv, Return
<1>6. vendor_elements' \in [bytes : Octets, from : 0..Len(given)] /\ VendorAsGiven'
  <2>1. CASE vendor_elements' = vendor_elements
    BY <1>1, <2>1 DEF FramesInv, FrameTypeOK, Consistent, VendorAsGiven
  <2>2. CASE vendor_elements' = [bytes |-> FromHex(Element), from |-> Len(given)]
    <3>1. FromHex(Element) \in Octets
          /\ FromElement(FromHex(Element)) = given[Len(given)]
      BY <1>2, <1>3 DEF IsReadAs, Sent
    <3>2. Len(given) \in 0..Len(given)
      BY DEF FramesInv, FrameTypeOK
    <3>. QED  BY <1>1, <2>2, <3>1, <3>2 DEF VendorAsGiven
  <2>. QED  BY <1>4, <2>1, <2>2
<1>7. FrameTypeOK'
  BY <1>1, <1>4, <1>5, <1>6 DEF FramesInv, FrameTypeOK
<1>8. PayloadOK' /\ RequestOK' /\ Current'
  BY <1>1, <1>2, <1>4, <1>5 DEF FramesInv, Consistent, PayloadOK, RequestOK, Current
<1>9. ReceivedAsGiven'
  BY <1>1 DEF FramesInv, ReceivedAsGiven
<1>. QED  BY <1>4, <1>5, <1>6, <1>7, <1>8, <1>9 DEF FramesInv, Consistent, EveryRequestPosts

LEMMA RunUpdateKeeps ==
  ASSUME FramesInv, RunUpdate
  PROVE  FramesInv'
<1>1. /\ request = "update_beacon" /\ Return
      /\ UNCHANGED <<enabled, round, payload, given, vendor_elements>>
  BY DEF RunUpdate
<1>. DEFINE heard == [received |-> FromElement(vendor_elements.bytes), from |-> vendor_elements.from]
<1>2. /\ request' = "none" /\ legs' = Tail(legs)
      /\ air' = [air EXCEPT !["beacon"] = heard] \/ air' = air
  BY <1>1, HandledByOwn DEF RunUpdate
<1>3. DispatchOK' /\ dpc' = "idle" /\ argv0' = argv0
  BY <1>1, ReturnKeeps DEF FramesInv, Return
<1>4. legs # <<>>
  BY <1>1 DEF FramesInv, Consistent, RequestOK
<1>5. legs' \in Calls /\ PayloadOK'
  BY <1>1, <1>2, <1>4, NextCalls DEF FramesInv, Consistent
<1>6. heard \in [received : Carried, from : 0..Len(given)]
  BY ElementCarries DEF FramesInv, FrameTypeOK
<1>7. heard.from # 0 => heard.received = given[heard.from]
  BY DEF FramesInv, Consistent, VendorAsGiven
<1>. HIDE DEF heard
<1>8. air \in [Transports -> [received : Carried, from : 0..Len(given)]]
  BY DEF FramesInv, FrameTypeOK, Carried
<1>9. air' \in [Transports -> [received : Carried, from : 0..Len(given)]] /\ ReceivedAsGiven'
  <2>1. CASE air' = air
    BY <1>1, <1>8, <2>1 DEF FramesInv, ReceivedAsGiven
  <2>2. CASE air' = [air EXCEPT !["beacon"] = heard]
    <3>1. air' \in [Transports -> [received : Carried, from : 0..Len(given)]]
      BY <1>6, <1>8, <2>2
    <3>2. ASSUME NEW u \in Transports, air'[u].from # 0
          PROVE  air'[u].received = given[air'[u].from]
      <4>1. CASE u = "beacon"
        BY <1>7, <1>8, <2>2, <3>2, <4>1
      <4>2. CASE u # "beacon"
        BY <1>8, <2>2, <3>2, <4>2 DEF FramesInv, ReceivedAsGiven
      <4>. QED  BY <4>1, <4>2
    <3>. QED  BY <1>1, <3>1, <3>2 DEF ReceivedAsGiven
  <2>. QED  BY <1>2, <2>1, <2>2
<1>10. FrameTypeOK'
  BY <1>1, <1>2, <1>3, <1>5, <1>9 DEF FramesInv, FrameTypeOK, Calls, Carried
<1>11. RequestOK' /\ Current' /\ VendorAsGiven'
  BY <1>1, <1>2, <1>3 DEF FramesInv, Consistent, RequestOK, Current, VendorAsGiven
<1>. QED  BY <1>2, <1>3, <1>5, <1>9, <1>10, <1>11 DEF FramesInv, Consistent, EveryRequestPosts

LEMMA RunQuitKeeps ==
  ASSUME FramesInv, RunQuit
  PROVE  FramesInv'
<1>1. /\ request = "quit" /\ Return
      /\ UNCHANGED <<enabled, round, payload, legs, given, vendor_elements, air>>
  BY DEF RunQuit
<1>2. request' = "done"
  BY <1>1, HandledByOwn DEF RunQuit
<1>3. DispatchOK' /\ dpc' = "idle" /\ argv0' = argv0
  BY <1>1, ReturnKeeps DEF FramesInv, Return
<1>4. FrameTypeOK'
  BY <1>1, <1>2, <1>3 DEF FramesInv, FrameTypeOK
<1>5. Consistent' /\ ReceivedAsGiven'
  BY <1>1, <1>2, <1>3, StillReceived DEF FramesInv, Consistent, RequestOK, Current, PayloadOK
<1>. QED  BY <1>2, <1>3, <1>4, <1>5 DEF FramesInv, EveryRequestPosts

LEMMA FramesStutter ==
  ASSUME FramesInv, UNCHANGED vars
  PROVE  FramesInv'
<1>1. UNCHANGED frameVars /\ UNCHANGED dispatchVars
  BY DEF vars
<1>2. DispatchOK'
  BY <1>1, DispatchStutters DEF FramesInv
<1>3. FrameTypeOK' /\ EveryRequestPosts'
  BY <1>1 DEF FramesInv, FrameTypeOK, EveryRequestPosts, frameVars, dispatchVars
<1>4. Consistent' /\ ReceivedAsGiven'
  BY <1>1, StillReceived
  DEF FramesInv, Consistent, RequestOK, Current, PayloadOK, Transmitted, frameVars, dispatchVars
<1>. QED  BY <1>2, <1>3, <1>4 DEF FramesInv

LEMMA FramesInvHolds == Spec => []FramesInv
<1>1. Init => FramesInv
  BY FramesStart
<1>2. FramesInv /\ [Next]_vars => FramesInv'
  <2>. SUFFICES ASSUME FramesInv, [Next]_vars PROVE FramesInv'
    OBVIOUS
  <2>1. CASE EncodeSingle \/ EncodePack
    BY <2>1, EncodeKeeps
  <2>2. CASE PassBy
    BY <2>2, PassByKeeps
  <2>3. CASE GiveBluetooth
    BY <2>3, GiveBluetoothKeeps
  <2>4. CASE GiveBeacon
    BY <2>4, GiveBeaconKeeps
  <2>5. CASE GiveQuit
    BY <2>5, GiveQuitKeeps
  <2>6. CASE GiveUpdate
    BY <2>6, GiveUpdateKeeps
  <2>7. CASE SearchTable
    BY <2>7, SearchTableKeeps
  <2>8. CASE RunSet
    BY <2>8, RunSetKeeps
  <2>9. CASE RunUpdate
    BY <2>9, RunUpdateKeeps
  <2>10. CASE RunQuit
    BY <2>10, RunQuitKeeps
  <2>11. CASE Finished \/ UNCHANGED vars
    BY <2>11, FramesStutter DEF Finished
  <2>. QED
    BY <2>1, <2>2, <2>3, <2>4, <2>5, <2>6, <2>7, <2>8, <2>9, <2>10, <2>11 DEF Next
<1>. QED  BY <1>1, <1>2, PTL DEF Spec

----------------------------------------------------------------------------
(* Theorems *)

\* The lengths, counters and places of the model stay in their types, in
\* particular what hostapd holds and what is received is bytes.
THEOREM TypeCorrect == Spec => []TypeOK
  BY FramesInvHolds, PTL DEF FramesInv, DispatchOK, TypeOK

\* For every content of the messages, whichever encoders fail, with every
\* counter and for every pack: a receiver of Wi-Fi or Bluetooth finds byte for
\* byte and with its counter something the transport was given (wifi_beacon.c,
\* bluetooth.c, utils.c).
THEOREM WhatIsReceivedWasGiven == Spec => []ReceivedAsGiven
  BY FramesInvHolds, PTL DEF FramesInv

\* In every table that has the rows "set", "update_beacon" and "quit", wherever
\* they are and whatever other names they begin: wpa_request finds a handler of
\* the request's own, so that the sem_wait of wifi_beacon.c returns.
THEOREM RequestsPost == Spec => []EveryRequestPosts
  BY FramesInvHolds, PTL DEF FramesInv

\* wpa_request calls the handler of the row the name stands for and refuses
\* only a name that stands for none.
THEOREM Dispatched == Spec => []DispatchedAsNamed
  BY FramesInvHolds, PTL DEF FramesInv, DispatchOK, DispatchInv
============================================================================
