------------------------- MODULE FrameLayoutProofs -------------------------
(***************************************************************************)
(* The bytes of a message go through the frame of each transport           *)
(* unchanged, for all bytes and all counters.                              *)
(*                                                                         *)
(* The vendor element: a byte and its two digits (RoundTrip), a text of    *)
(* digits and its bytes (ReadBack), the array of C that holds the text     *)
(* (ElementText), and the array as the code fills it (FilledChars,         *)
(* FinishedText).  The advertising data: the parameters of a command and   *)
(* what the lengths in them let a receiver find (ParametersRead, Received).*)
(***************************************************************************)
EXTENDS FrameLayout, TLAPS

LEMMA Digits ==
  ASSUME NEW n \in 0..15
  PROVE  /\ Digit(n) \in 48..70
         /\ HexValue(Digit(n)) = n
  BY DEF Digit, HexValue

LEMMA Halves ==
  ASSUME NEW b \in Byte
  PROVE  /\ b \div 16 \in 0..15
         /\ b % 16 \in 0..15
         /\ 16 * (b \div 16) + (b % 16) = b
  BY DEF Byte

\* The two characters of a byte, read back.
LEMMA RoundTrip ==
  ASSUME NEW b \in Byte
  PROVE  /\ UcharToAscii(b, 0) \in 48..70
         /\ UcharToAscii(b, 1) \in 48..70
         /\ HexValue(UcharToAscii(b, 0)) \in 0..15
         /\ HexValue(UcharToAscii(b, 1)) \in 0..15
         /\ 16 * HexValue(UcharToAscii(b, 0)) + HexValue(UcharToAscii(b, 1)) = b
<1>. DEFINE high == b \div 16
            low  == b % 16
<1>1. high \in 0..15 /\ low \in 0..15 /\ 16 * high + low = b
  BY Halves
<1>2. UcharToAscii(b, 0) = Digit(high) /\ UcharToAscii(b, 1) = Digit(low)
  BY DEF UcharToAscii
<1>. HIDE DEF high, low
<1>. QED  BY <1>1, <1>2, Digits

LEMMA Unsigned ==
  ASSUME NEW b \in Byte
  PROVE  AsUint8(AsChar(b)) = b
  BY DEF Byte, AsUint8, AsChar

\* The bytes of an array before its first NUL are the string.
LEMMA Strings ==
  ASSUME NEW size \in Nat, NEW end \in 0..(size - 1), NEW buf,
         DOMAIN buf = 0..(size - 1),
         buf[end] = 0, \A k \in 0..(end - 1) : buf[k] # 0
  PROVE  CString(buf) = [k \in 1..end |-> buf[k - 1]]
<1>. DEFINE First(k) == buf[k] = 0 /\ \A j \in DOMAIN buf : j < k => buf[j] # 0
            first == CHOOSE k \in DOMAIN buf : First(k)
<1>1. end \in DOMAIN buf /\ First(end)
  OBVIOUS
<1>2. first \in DOMAIN buf /\ First(first)
  BY <1>1
<1>3. first = end
  BY <1>1, <1>2
<1>. QED  BY <1>3 DEF CString

\* Two characters spell a byte.
Spells(c, d, b) ==
  /\ HexValue(c) \in 0..15 /\ HexValue(d) \in 0..15
  /\ 16 * HexValue(c) + HexValue(d) = b

LEMMA Half ==
  ASSUME NEW k \in Nat
  PROVE  \E q \in Nat : k = 2 * q \/ k = 2 * q + 1
<1>1. k \div 2 \in Nat /\ (k = 2 * (k \div 2) \/ k = 2 * (k \div 2) + 1)
  OBVIOUS
<1>. QED  BY <1>1

LEMMA Places ==
  ASSUME NEW n \in Nat, NEW k \in 1..(2 * n)
  PROVE  \E i \in 1..n : k = 2 * i - 1 \/ k = 2 * i
<1>1. PICK q \in Nat : k = 2 * q \/ k = 2 * q + 1
  <2>1. k \in Nat
    OBVIOUS
  <2>. QED  BY <2>1, Half
<1>2. CASE k = 2 * q
  <2>1. q \in 1..n
    BY <1>2
  <2>. QED  BY <1>2, <2>1
<1>3. CASE k = 2 * q + 1
  <2>1. q + 1 \in 1..n /\ k = 2 * (q + 1) - 1
    BY <1>3
  <2>. QED  BY <2>1
<1>. QED  BY <1>1, <1>2, <1>3

SpelledOut(text, bytes, n) ==
  /\ text \in Seq(Int) /\ Len(text) = 2 * n
  /\ \A i \in 1..n : Spells(text[2 * i - 1], text[2 * i], bytes[i])

\* Text that holds two digits for each of n bytes is read back as these bytes.
LEMMA ReadBack ==
  ASSUME NEW n \in Nat, NEW bytes, NEW text, SpelledOut(text, bytes, n)
  PROVE  IsHex(text) /\ FromHex(text) = [i \in 1..n |-> bytes[i]]
<1>1. ASSUME NEW k \in DOMAIN text
      PROVE  HexValue(text[k]) < 16
  <2>1. k \in 1..(2 * n)
    BY DEF SpelledOut
  <2>2. PICK i \in 1..n : k = 2 * i - 1 \/ k = 2 * i
    BY <2>1, Places
  <2>3. HexValue(text[2 * i - 1]) \in 0..15 /\ HexValue(text[2 * i]) \in 0..15
    BY DEF SpelledOut, Spells
  <2>4. HexValue(text[k]) \in 0..15
    BY <2>2, <2>3
  <2>. QED  BY <2>4
<1>2. Len(text) % 2 = 0 /\ Len(text) \div 2 = n
  <2>1. (2 * n) % 2 = 0 /\ (2 * n) \div 2 = n
    OBVIOUS
  <2>. QED  BY <2>1 DEF SpelledOut
<1>3. \A i \in 1..n : 16 * HexValue(text[2 * i - 1]) + HexValue(text[2 * i]) = bytes[i]
  BY DEF SpelledOut, Spells
<1>. QED  BY <1>1, <1>2, <1>3 DEF IsHex, FromHex

\* The bytes of a vendor element with n bytes after its header.
ElementBytes(counter, data, n) ==
  [i \in 1..(7 + n) |-> IF i = 2 THEN 5 + n
                        ELSE IF i = 7 THEN counter
                        ELSE IF i < 7 THEN HeaderBytes[i] ELSE data[i - 7]]

AllBytes(bytes, n) == \A i \in 1..n : bytes[i] \in Byte

\* The array begins with "dd", and goes on with the digits of bytes 2..n.
Written(buf, bytes, n) ==
  /\ buf[0] = 100 /\ buf[1] = 100
  /\ \A i \in 2..n : /\ buf[2 * i - 2] = UcharToAscii(bytes[i], 0)
                     /\ buf[2 * i - 1] = UcharToAscii(bytes[i], 1)

Chars(buf, size) == buf \in [0..(size - 1) -> Int]

ElementArray(buf, size, bytes, n) ==
  /\ n \in Nat /\ n >= 1 /\ size \in Nat /\ size > 2 * n
  /\ AllBytes(bytes, n) /\ bytes[1] = 221
  /\ Chars(buf, size) /\ Written(buf, bytes, n) /\ buf[2 * n] = 0

\* An array that begins with "dd" and goes on with the digits of the other bytes
\* of an element is the text of this element.
LEMMA ElementText ==
  ASSUME NEW n, NEW size, NEW bytes, NEW buf, ElementArray(buf, size, bytes, n)
  PROVE  /\ CString(buf) \in Seq(Int) /\ Len(CString(buf)) = 2 * n
         /\ IsHex(CString(buf))
         /\ FromHex(CString(buf)) = [i \in 1..n |-> bytes[i]]
<1>. DEFINE text == [k \in 1..(2 * n) |-> buf[k - 1]]
<1>0. /\ n \in Nat /\ n >= 1 /\ size \in Nat /\ size > 2 * n
      /\ AllBytes(bytes, n) /\ bytes[1] = 221
      /\ Chars(buf, size) /\ Written(buf, bytes, n) /\ buf[2 * n] = 0
  BY DEF ElementArray
<1>. USE <1>0
<1>1. ASSUME NEW i \in 1..n
      PROVE  /\ Spells(buf[2 * i - 2], buf[2 * i - 1], bytes[i])
             /\ buf[2 * i - 2] # 0 /\ buf[2 * i - 1] # 0
  <2>1. CASE i = 1
    <3>1. HexValue(100) = 13
      BY DEF HexValue
    <3>2. 2 * i - 2 = 0 /\ 2 * i - 1 = 1
      BY <2>1
    <3>3. buf[0] = 100 /\ buf[1] = 100
      BY DEF Written
    <3>. QED  BY <2>1, <3>1, <3>2, <3>3 DEF Spells
  <2>2. CASE i # 1
    <3>1. i \in 2..n /\ bytes[i] \in Byte
      BY <2>2 DEF AllBytes
    <3>2. buf[2 * i - 2] = UcharToAscii(bytes[i], 0) /\ buf[2 * i - 1] = UcharToAscii(bytes[i], 1)
      BY <3>1 DEF Written
    <3>3. UcharToAscii(bytes[i], 0) # 0 /\ UcharToAscii(bytes[i], 1) # 0
      <4>1. UcharToAscii(bytes[i], 0) \in 48..70 /\ UcharToAscii(bytes[i], 1) \in 48..70
        BY <3>1, RoundTrip
      <4>. QED  BY <4>1
    <3>4. Spells(UcharToAscii(bytes[i], 0), UcharToAscii(bytes[i], 1), bytes[i])
      BY <3>1, RoundTrip DEF Spells
    <3>. QED  BY <3>2, <3>3, <3>4
  <2>. QED  BY <2>1, <2>2
<1>2. ASSUME NEW k \in 0..(2 * n - 1)
      PROVE  buf[k] # 0
  <2>. DEFINE place == k + 1
  <2>1. place \in 1..(2 * n)
    OBVIOUS
  <2>. HIDE DEF place
  <2>2. PICK i \in 1..n : place = 2 * i - 1 \/ place = 2 * i
    BY <2>1, Places
  <2>3. k = 2 * i - 2 \/ k = 2 * i - 1
    BY <2>2 DEF place
  <2>4. buf[2 * i - 2] # 0 /\ buf[2 * i - 1] # 0
    BY <1>1
  <2>. QED  BY <2>3, <2>4
<1>3. CString(buf) = text
  <2>1. 2 * n \in 0..(size - 1)
    OBVIOUS
  <2>2. CString(buf) = [k \in 1..(2 * n) |-> buf[k - 1]]
    <3>. DEFINE end == 2 * n
    <3>1. end \in 0..(size - 1) /\ buf[end] = 0 /\ \A k \in 0..(end - 1) : buf[k] # 0
      BY <2>1, <1>2
    <3>2. DOMAIN buf = 0..(size - 1)
      BY DEF Chars
    <3>. HIDE DEF end
    <3>3. CString(buf) = [k \in 1..end |-> buf[k - 1]]
      BY <3>1, <3>2, Strings
    <3>. QED  BY <3>3 DEF end
  <2>. QED  BY <2>2
<1>4. text \in Seq(Int) /\ Len(text) = 2 * n
  <2>1. \A k \in 1..(2 * n) : buf[k - 1] \in Int
    BY DEF Chars
  <2>. QED  BY <2>1
<1>5. \A i \in 1..n : Spells(text[2 * i - 1], text[2 * i], bytes[i])
  <2>1. \A i \in 1..n : /\ 2 * i - 1 \in 1..(2 * n) /\ 2 * i \in 1..(2 * n)
                        /\ (2 * i - 1) - 1 = 2 * i - 2
    OBVIOUS
  <2>2. \A i \in 1..n : text[2 * i - 1] = buf[2 * i - 2] /\ text[2 * i] = buf[2 * i - 1]
    BY <2>1
  <2>. HIDE DEF text
  <2>. QED  BY <2>2, <1>1
<1>. HIDE DEF text
<1>6. IsHex(text) /\ FromHex(text) = [i \in 1..n |-> bytes[i]]
  <2>1. SpelledOut(text, bytes, n)
    BY <1>4, <1>5 DEF SpelledOut
  <2>. QED  BY <2>1, ReadBack
<1>. QED  BY <1>3, <1>4, <1>6

\* A receiver finds in the bytes of an element the counter and the data.
LEMMA ElementRead ==
  ASSUME NEW n \in Nat, NEW counter, NEW data
  PROVE  FromElement(ElementBytes(counter, data, n)) =
           [counter |-> counter, data |-> [i \in 1..n |-> data[i]]]
<1>. DEFINE e == ElementBytes(counter, data, n)
<1>1. Len(e) = 7 + n
  BY DEF ElementBytes
<1>2. /\ e[1] = 221 /\ e[2] = 5 + n /\ e[3] = 250 /\ e[4] = 11 /\ e[5] = 188 /\ e[6] = 13
      /\ e[7] = counter
  BY DEF ElementBytes, HeaderBytes
<1>3. [i \in 1..((7 + n) - 7) |-> e[i + 7]] = [i \in 1..n |-> data[i]]
  <2>1. (7 + n) - 7 = n
    OBVIOUS
  <2>2. \A i \in 1..n : e[i + 7] = data[i]
    BY DEF ElementBytes
  <2>. QED  BY <2>1, <2>2
<1>. HIDE DEF e
<1>4. FromElement(e) = [counter |-> e[7], data |-> [i \in 1..(Len(e) - 7) |-> e[i + 7]]]
  <2>1. Len(e) >= 7 /\ e[2] = Len(e) - 2
    BY <1>1, <1>2
  <2>. QED  BY <2>1, <1>2 DEF FromElement
<1>. QED  BY <1>1, <1>2, <1>3, <1>4 DEF e

\* Data bytes behind a header make the bytes of an element.
LEMMA ElementIsBytes ==
  ASSUME NEW n \in 0..250, NEW counter \in Byte, NEW data, AllBytes(data, n)
  PROVE  AllBytes(ElementBytes(counter, data, n), 7 + n)
<1>. DEFINE e == ElementBytes(counter, data, n)
<1>. SUFFICES ASSUME NEW i \in 1..(7 + n) PROVE e[i] \in Byte
  BY DEF AllBytes
<1>1. CASE i < 7 /\ i # 2
  BY <1>1 DEF ElementBytes, HeaderBytes, Byte
<1>2. CASE i = 2
  BY <1>2 DEF ElementBytes, Byte
<1>3. CASE i = 7
  BY <1>3 DEF ElementBytes
<1>4. CASE i > 7
  <2>1. i - 7 \in 1..n
    BY <1>4
  <2>. QED  BY <1>4, <2>1 DEF ElementBytes, AllBytes
<1>. QED  BY <1>1, <1>2, <1>3, <1>4

LEMMA OctetsOf ==
  ASSUME NEW n \in Nat, NEW f, f = [k \in 1..n |-> f[k]], \A k \in 1..n : f[k] \in Byte
  PROVE  f \in Octets /\ Len(f) = n
<1>. DEFINE g == [k \in 1..n |-> f[k]]
<1>1. g \in Seq(Byte) /\ Len(g) = n
  OBVIOUS
<1>. QED  BY <1>1 DEF Octets

LEMMA ElementOctets ==
  ASSUME NEW n \in 0..250, NEW counter \in Byte, NEW data, AllBytes(data, n)
  PROVE  ElementBytes(counter, data, n) \in Octets
<1>. DEFINE e == ElementBytes(counter, data, n)
<1>1. AllBytes(e, 7 + n)
  BY ElementIsBytes
<1>2. e = [i \in 1..(7 + n) |-> e[i]] /\ 7 + n \in Nat
  BY DEF ElementBytes
<1>. HIDE DEF e
<1>3. \A i \in 1..(7 + n) : e[i] \in Byte
  BY <1>1 DEF AllBytes
<1>4. e \in Octets
  BY <1>2, <1>3, OctetsOf
<1>. QED  BY <1>4 DEF e

LEMMA CharOfByte ==
  ASSUME NEW b \in Byte, NEW k \in {0, 1}
  PROVE  UcharToAscii(b, k) \in Int
<1>1. UcharToAscii(b, 0) \in 48..70 /\ UcharToAscii(b, 1) \in 48..70
  BY RoundTrip
<1>. QED  BY <1>1

LEMMA SeqBytes ==
  ASSUME NEW s \in Seq(Byte), NEW n \in Nat, Len(s) = n
  PROVE  AllBytes(s, n)
  BY DEF AllBytes

IsOver(g, f, at, b, size) ==
  /\ Chars(g, size) /\ g[at] = UcharToAscii(b, 0) /\ g[at + 1] = UcharToAscii(b, 1)
  /\ \A k \in 0..(size - 1) : k # at /\ k # at + 1 => g[k] = f[k]

LEMMA OverChars ==
  ASSUME NEW size \in Nat, NEW f, Chars(f, size), NEW at \in 0..(size - 2), NEW b \in Byte
  PROVE  IsOver(Over(f, at, b), f, at, b, size)
<1>1. UcharToAscii(b, 0) \in Int /\ UcharToAscii(b, 1) \in Int
  BY CharOfByte
<1>2. at \in 0..(size - 1) /\ at + 1 \in 0..(size - 1) /\ at # at + 1
  OBVIOUS
<1>3. f \in [0..(size - 1) -> Int]
  BY DEF Chars
<1>. DEFINE g == [f EXCEPT ![at] = UcharToAscii(b, 0)]
            h == [g EXCEPT ![at + 1] = UcharToAscii(b, 1)]
<1>4. Over(f, at, b) = h
  BY DEF Over
<1>5. /\ g \in [0..(size - 1) -> Int] /\ g[at] = UcharToAscii(b, 0)
      /\ \A k \in 0..(size - 1) : k # at => g[k] = f[k]
  BY <1>1, <1>2, <1>3
<1>. HIDE DEF g
<1>6. /\ h \in [0..(size - 1) -> Int] /\ h[at + 1] = UcharToAscii(b, 1)
      /\ h[at] = g[at]
      /\ \A k \in 0..(size - 1) : k # at + 1 => h[k] = g[k]
  BY <1>1, <1>2, <1>5
<1>. QED  BY <1>2, <1>4, <1>5, <1>6 DEF Chars, IsOver

LEMMA HeaderText ==
  /\ DOMAIN Header = 0..13
  /\ Header[0] = 100 /\ Header[1] = 100
  /\ \A i \in 2..7 : /\ Header[2 * i - 2] = UcharToAscii(HeaderBytes[i], 0)
                     /\ Header[2 * i - 1] = UcharToAscii(HeaderBytes[i], 1)
<1>1. Header[0] = 100 /\ Header[1] = 100 /\ DOMAIN Header = 0..13
  BY DEF Header
<1>2. ASSUME NEW i \in 2..7
      PROVE  /\ Header[2 * i - 2] = UcharToAscii(HeaderBytes[i], 0)
             /\ Header[2 * i - 1] = UcharToAscii(HeaderBytes[i], 1)
  <2>1. /\ 2 * i - 2 \in 2..13 /\ ((2 * i - 2) \div 2) + 1 = i /\ (2 * i - 2) % 2 = 0
        /\ 2 * i - 1 \in 2..13 /\ ((2 * i - 1) \div 2) + 1 = i /\ (2 * i - 1) % 2 = 1
    OBVIOUS
  <2>2. \A k \in 2..13 : Header[k] = UcharToAscii(HeaderBytes[(k \div 2) + 1], k % 2)
    BY DEF Header
  <2>. QED  BY <2>1, <2>2
<1>. QED  BY <1>1, <1>2

LEMMA HeaderChars == \A k \in 0..13 : Header[k] \in Int
<1>1. \A i \in 2..7 : HeaderBytes[i] \in Byte
  BY DEF HeaderBytes, Byte
<1>2. \A i \in 2..7 : Header[2 * i - 2] \in Int /\ Header[2 * i - 1] \in Int
  BY <1>1, HeaderText, CharOfByte
<1>. SUFFICES ASSUME NEW k \in 0..13 PROVE Header[k] \in Int
  OBVIOUS
<1>3. CASE k \in 0..1
  BY <1>3, HeaderText
<1>4. CASE k \in 2..13
  <2>1. PICK q \in Nat : k = 2 * q \/ k = 2 * q + 1
    <3>1. k \in Nat
      OBVIOUS
    <3>. QED  BY <3>1, Half
  <2>2. q + 1 \in 2..7 /\ (k = 2 * (q + 1) - 2 \/ k = 2 * (q + 1) - 1)
    BY <1>4, <2>1
  <2>. QED  BY <2>2, <1>2
<1>. QED  BY <1>3, <1>4

\* The data and its n bytes fit the array.
Fits(size, data, n) ==
  /\ n \in 0..250 /\ size \in Nat /\ size > 14 + 2 * n
  /\ AllBytes(data, n) /\ data \in Seq(Byte) /\ Len(data) = n

\* data[] of send_beacon_message and of send_beacon_message_pack: the digits of
\* the header, those of the data, and NUL.
IsFilled(f, size, data, n) ==
  /\ Chars(f, size)
  /\ \A k \in 0..13 : f[k] = Header[k]
  /\ \A i \in 8..(7 + n) : /\ f[2 * i - 2] = UcharToAscii(data[i - 7], 0)
                           /\ f[2 * i - 1] = UcharToAscii(data[i - 7], 1)
  /\ f[14 + 2 * n] = 0

LEMMA FilledChars ==
  ASSUME NEW n, NEW size, NEW data, Fits(size, data, n)
  PROVE  IsFilled(Filled(size, data), size, data, n)
<1>. USE DEF Fits
<1>. DEFINE f == Filled(size, data)
<1>0. f = [k \in 0..(size - 1) |-> f[k]]
  BY DEF Filled
<1>1. /\ \A k \in 0..13 : f[k] = Header[k]
      /\ \A k \in 14..(13 + 2 * n) : f[k] = UcharToAscii(data[((k - 14) \div 2) + 1], k % 2)
      /\ \A k \in (14 + 2 * n)..(size - 1) : f[k] = 0
  <2>1. ASSUME NEW k \in 0..13 PROVE f[k] = Header[k]
    <3>1. k \in 0..(size - 1) /\ k < 14
      OBVIOUS
    <3>. QED  BY <3>1 DEF Filled
  <2>2. ASSUME NEW k \in 14..(13 + 2 * n)
        PROVE  f[k] = UcharToAscii(data[((k - 14) \div 2) + 1], k % 2)
    <3>1. k \in 0..(size - 1) /\ ~(k < 14) /\ k \in 14..(13 + 2 * Len(data))
      OBVIOUS
    <3>. QED  BY <3>1 DEF Filled
  <2>3. ASSUME NEW k \in (14 + 2 * n)..(size - 1) PROVE f[k] = 0
    <3>1. k \in 0..(size - 1) /\ ~(k < 14) /\ k \notin 14..(13 + 2 * Len(data))
      OBVIOUS
    <3>. QED  BY <3>1 DEF Filled
  <2>. QED  BY <2>1, <2>2, <2>3
<1>. HIDE DEF f
<1>2. ASSUME NEW i \in 8..(7 + n)
      PROVE  /\ f[2 * i - 2] = UcharToAscii(data[i - 7], 0)
             /\ f[2 * i - 1] = UcharToAscii(data[i - 7], 1)
  <2>1. /\ 2 * i - 2 \in 14..(13 + 2 * n) /\ 2 * i - 1 \in 14..(13 + 2 * n)
    OBVIOUS
  <2>2. /\ (((2 * i - 2) - 14) \div 2) + 1 = i - 7 /\ (2 * i - 2) % 2 = 0
        /\ (((2 * i - 1) - 14) \div 2) + 1 = i - 7 /\ (2 * i - 1) % 2 = 1
    OBVIOUS
  <2>. QED  BY <2>1, <2>2, <1>1
<1>3. ASSUME NEW k \in 0..(size - 1) PROVE f[k] \in Int
  <2>1. CASE k \in 0..13
    BY <2>1, <1>1, HeaderChars
  <2>2. CASE k \in 14..(13 + 2 * n)
    <3>1. PICK q \in Nat : k = 2 * q \/ k = 2 * q + 1
      <4>1. k \in Nat
        OBVIOUS
      <4>. QED  BY <4>1, Half
    <3>2. q + 1 \in 8..(7 + n) /\ (k = 2 * (q + 1) - 2 \/ k = 2 * (q + 1) - 1)
      BY <2>2, <3>1
    <3>3. (q + 1) - 7 \in 1..n
      BY <3>2
    <3>4. data[(q + 1) - 7] \in Byte
      BY <3>3 DEF AllBytes
    <3>5. UcharToAscii(data[(q + 1) - 7], 0) \in Int /\ UcharToAscii(data[(q + 1) - 7], 1) \in Int
      BY <3>4, CharOfByte
    <3>. QED  BY <3>2, <3>5, <1>2
  <2>3. CASE k \in (14 + 2 * n)..(size - 1)
    BY <2>3, <1>1
  <2>. QED  BY <2>1, <2>2, <2>3
<1>4. f[14 + 2 * n] = 0
  BY <1>1
<1>5. Chars(f, size)
  BY <1>0, <1>3 DEF Chars
<1>. QED  BY <1>1, <1>2, <1>4, <1>5 DEF f, IsFilled

\* Both functions finish data[] by writing the length and the counter over the
\* header; for a single message the length is the one in the header.
Finish(size, data, n, counter) == Over(Over(Filled(size, data), 2, 5 + n), 12, counter)

IsElementOf(text, counter, data, n) ==
  /\ Len(text) = 2 * (7 + n) /\ IsHex(text) /\ FromHex(text) = ElementBytes(counter, data, n)

LEMMA FinishedText ==
  ASSUME NEW n, NEW size, NEW data, Fits(size, data, n), NEW counter \in Byte
  PROVE  IsElementOf(CString(Finish(size, data, n, counter)), counter, data, n)
<1>. DEFINE f == Filled(size, data)
            b == Finish(size, data, n, counter)
            e == ElementBytes(counter, data, n)
            m == 7 + n
<1>. USE DEF Fits
<1>0. 5 + n \in Byte
  BY DEF Byte
<1>1. IsFilled(f, size, data, n)
  BY FilledChars
<1>. HIDE DEF f
<1>. DEFINE g == Over(f, 2, 5 + n)
<1>2. IsOver(g, f, 2, 5 + n, size)
  <2>1. 2 \in 0..(size - 2) /\ size \in Nat
    OBVIOUS
  <2>2. Chars(f, size)
    BY <1>1 DEF IsFilled
  <2>. QED  BY <2>1, <2>2, <1>0, OverChars
<1>3. IsOver(b, g, 12, counter, size)
  <2>1. 12 \in 0..(size - 2) /\ size \in Nat
    OBVIOUS
  <2>. HIDE DEF g
  <2>2. b = Over(g, 12, counter)
    BY DEF g, f, Finish
  <2>3. Chars(g, size)
    BY <1>2 DEF IsOver
  <2>. QED  BY <2>1, <2>2, <2>3, OverChars
<1>. HIDE DEF b, g
<1>4. /\ Chars(b, size)
      /\ b[2] = UcharToAscii(5 + n, 0) /\ b[3] = UcharToAscii(5 + n, 1)
      /\ b[12] = UcharToAscii(counter, 0) /\ b[13] = UcharToAscii(counter, 1)
      /\ \A k \in 0..(size - 1) : k \notin {2, 3, 12, 13} => b[k] = f[k]
  <2>1. b[2] = g[2] /\ b[3] = g[3]
    BY <1>3 DEF IsOver
  <2>. QED  BY <2>1, <1>2, <1>3 DEF IsOver
<1>5. /\ e[1] = 221 /\ e[2] = 5 + n /\ e[7] = counter
      /\ \A i \in 3..6 : e[i] = HeaderBytes[i]
      /\ \A i \in 8..(7 + n) : e[i] = data[i - 7]
      /\ e = [i \in 1..m |-> e[i]]
  BY DEF ElementBytes, HeaderBytes
<1>. HIDE DEF e
<1>6. Written(b, e, m)
  <2>1. b[0] = 100 /\ b[1] = 100
    BY <1>1, <1>4, HeaderText DEF IsFilled
  <2>2. ASSUME NEW i \in 2..m
        PROVE  b[2 * i - 2] = UcharToAscii(e[i], 0) /\ b[2 * i - 1] = UcharToAscii(e[i], 1)
    <3>1. CASE i = 2
      <4>1. 2 * i - 2 = 2 /\ 2 * i - 1 = 3
        BY <3>1
      <4>. QED  BY <3>1, <4>1, <1>4, <1>5
    <3>2. CASE i \in 3..6
      <4>1. 2 * i - 2 \in 4..11 /\ 2 * i - 1 \in 4..11
        BY <3>2
      <4>2. b[2 * i - 2] = Header[2 * i - 2] /\ b[2 * i - 1] = Header[2 * i - 1]
        BY <4>1, <1>1, <1>4 DEF IsFilled
      <4>3. /\ Header[2 * i - 2] = UcharToAscii(HeaderBytes[i], 0)
            /\ Header[2 * i - 1] = UcharToAscii(HeaderBytes[i], 1)
        BY <3>2, HeaderText
      <4>4. e[i] = HeaderBytes[i]
        BY <3>2, <1>5
      <4>. QED  BY <4>2, <4>3, <4>4
    <3>3. CASE i = 7
      <4>1. 2 * i - 2 = 12 /\ 2 * i - 1 = 13
        BY <3>3
      <4>. QED  BY <3>3, <4>1, <1>4, <1>5
    <3>4. CASE i \in 8..m
      <4>1. /\ 2 * i - 2 \in 14..(size - 1) /\ 2 * i - 1 \in 14..(size - 1)
        BY <3>4
      <4>2. \A k \in 14..(size - 1) : b[k] = f[k]
        BY <1>4
      <4>3. b[2 * i - 2] = f[2 * i - 2] /\ b[2 * i - 1] = f[2 * i - 1]
        BY <4>1, <4>2
      <4>4. /\ f[2 * i - 2] = UcharToAscii(data[i - 7], 0)
            /\ f[2 * i - 1] = UcharToAscii(data[i - 7], 1)
        BY <3>4, <1>1 DEF IsFilled
      <4>5. e[i] = data[i - 7]
        BY <3>4, <1>5
      <4>. QED  BY <4>3, <4>4, <4>5
    <3>. QED  BY <3>1, <3>2, <3>3, <3>4
  <2>. QED  BY <2>1, <2>2 DEF Written
<1>7. AllBytes(e, m)
  BY ElementIsBytes DEF e
<1>8. b[2 * m] = 0
  <2>1. 2 * m = 14 + 2 * n /\ 2 * m \in 14..(size - 1)
    OBVIOUS
  <2>. QED  BY <2>1, <1>1, <1>4 DEF IsFilled
<1>9. m \in Nat /\ m >= 1 /\ size > 2 * m
  OBVIOUS
<1>10. /\ Len(CString(b)) = 2 * m
       /\ IsHex(CString(b))
       /\ FromHex(CString(b)) = [i \in 1..m |-> e[i]]
  <2>1. size \in Nat
    OBVIOUS
  <2>. HIDE DEF m
  <2>2. ElementArray(b, size, e, m)
    BY <2>1, <1>4, <1>5, <1>6, <1>7, <1>8, <1>9 DEF ElementArray
  <2>. QED  BY <2>2, ElementText
<1>. QED  BY <1>5, <1>10 DEF b, e, IsElementOf

\* The text of an element: hostapd can read it, and a receiver finds this counter
\* and these data in it.  It has at most 470 digits.
IsReadAs(text, counter, data) ==
  /\ Len(text) \in 0..470 /\ IsHex(text) /\ FromHex(text) \in Octets
  /\ FromElement(FromHex(text)) = [counter |-> counter, data |-> data]

\* send_beacon_message and uchar_to_ascii: a single message of any bytes, and its
\* counter, go through the digits of the vendor element unchanged.
THEOREM SingleElementRead ==
  ASSUME NEW message \in Seq(Byte), Len(message) = MessageSize, NEW counter \in Byte
  PROVE  IsReadAs(SingleElement(message, counter), counter, message)
<1>1. MessageSize = 25
  BY FrameAssumption
<1>2. 2 * (WIFI_BEACON_HEADER_SIZE + MessageSize) + 1 = 65
  BY <1>1 DEF WIFI_BEACON_HEADER_SIZE
<1>3. AllBytes(message, 25)
  BY <1>1, SeqBytes
<1>4. Over(Filled(65, message), 2, 5 + 25) = Filled(65, message)
  <2>. DEFINE f == Filled(65, message)
  <2>1. Chars(f, 65) /\ \A k \in 0..13 : f[k] = Header[k]
    <3>1. Fits(65, message, 25)
      BY <1>1, <1>3 DEF Fits
    <3>2. IsFilled(f, 65, message, 25)
      BY <3>1, FilledChars
    <3>. QED  BY <3>2 DEF IsFilled
  <2>2. Header[2] = UcharToAscii(30, 0) /\ Header[3] = UcharToAscii(30, 1)
    <3>1. \A i \in {2} : /\ Header[2 * i - 2] = UcharToAscii(HeaderBytes[i], 0)
                         /\ Header[2 * i - 1] = UcharToAscii(HeaderBytes[i], 1)
      BY HeaderText
    <3>2. HeaderBytes[2] = 30
      BY DEF HeaderBytes
    <3>. QED  BY <3>1, <3>2
  <2>. HIDE DEF f
  <2>3. f[2] = UcharToAscii(30, 0) /\ f[3] = UcharToAscii(30, 1)
    BY <2>1, <2>2
  <2>4. Over(f, 2, 30) = [f EXCEPT ![2] = f[2], ![3] = f[3]]
    BY <2>3 DEF Over
  <2>5. [f EXCEPT ![2] = f[2], ![3] = f[3]] = f
    BY <2>1 DEF Chars
  <2>. QED  BY <2>4, <2>5 DEF f
<1>5. SingleElement(message, counter) = CString(Finish(65, message, 25, counter))
  BY <1>2, <1>4 DEF SingleElement, Finish
<1>6. IsElementOf(SingleElement(message, counter), counter, message, 25)
  <2>1. Fits(65, message, 25)
    BY <1>1, <1>3 DEF Fits
  <2>. QED  BY <2>1, <1>5, FinishedText
<1>7. [i \in 1..25 |-> message[i]] = message
  BY <1>1
<1>8. FromElement(ElementBytes(counter, message, 25))
        = [counter |-> counter, data |-> [i \in 1..25 |-> message[i]]]
  BY ElementRead
<1>9. FromElement(FromHex(SingleElement(message, counter)))
        = [counter |-> counter, data |-> message]
  BY <1>6, <1>7, <1>8, Zenon DEF IsElementOf
<1>10. ElementBytes(counter, message, 25) \in Octets
  BY <1>3, ElementOctets
<1>11. 2 * (7 + 25) \in 0..470
  OBVIOUS
<1>. QED  BY <1>6, <1>9, <1>10, <1>11 DEF IsElementOf, IsReadAs

LEMMA SizeOfPack == \A n \in 0..PackMaxMessages : PackSize(n) \in 3..228
  BY FrameAssumption DEF PackSize

\* send_beacon_message_pack: so does a pack that says it has n messages, whose
\* bytes pass through a signed type, and which is read by its own length.
THEOREM PackElementRead ==
  ASSUME NEW n \in 0..PackMaxMessages, NEW counter \in Byte,
         NEW pack \in Seq(Byte), Len(pack) = PackSize(PackMaxMessages)
  PROVE  IsReadAs(PackElement(pack, n, counter), counter, SubSeq(pack, 1, PackSize(n)))
<1>. DEFINE m     == PackSize(n)
            bytes == [i \in 1..m |-> AsUint8(AsChar(pack[i]))]
            size  == 2 * (WIFI_BEACON_HEADER_SIZE + PackSize(PackMaxMessages)) + 1
<1>1. /\ m \in 3..228 /\ m <= PackSize(PackMaxMessages) /\ size \in Nat /\ size > 14 + 2 * m
      /\ PackSize(PackMaxMessages) \in 3..228
  BY FrameAssumption DEF PackSize, WIFI_BEACON_HEADER_SIZE
<1>2. AsUint8(PackLength(n)) = 5 + m
  BY FrameAssumption DEF AsUint8, PackLength, PackSize, WIFI_BEACON_HEADER_SIZE
<1>3. PackElement(pack, n, counter) = CString(Finish(size, bytes, m, counter))
  BY <1>2 DEF PackElement, Finish
<1>. HIDE DEF m, size
<1>4. \A i \in 1..m : pack[i] \in Byte
  BY <1>1
<1>5. bytes = [i \in 1..m |-> pack[i]]
  BY <1>4, Unsigned
<1>6. bytes \in Seq(Byte) /\ Len(bytes) = m /\ m \in Nat
  BY <1>1, <1>4, <1>5
<1>7. SubSeq(pack, 1, m) = [i \in 1..m |-> bytes[i]]
  BY <1>1, <1>5
<1>. HIDE DEF bytes
<1>8. AllBytes(bytes, m)
  BY <1>6, SeqBytes
<1>9. IsElementOf(CString(Finish(size, bytes, m, counter)), counter, bytes, m)
  <2>1. Fits(size, bytes, m)
    BY <1>1, <1>6, <1>8 DEF Fits
  <2>. QED  BY <2>1, FinishedText
<1>10. FromElement(ElementBytes(counter, bytes, m))
         = [counter |-> counter, data |-> [i \in 1..m |-> bytes[i]]]
  BY <1>6, ElementRead
<1>11. 2 * (7 + m) \in 0..470
  BY <1>1
<1>12. FromElement(FromHex(PackElement(pack, n, counter)))
         = [counter |-> counter, data |-> SubSeq(pack, 1, m)]
  BY <1>3, <1>7, <1>9, <1>10, Zenon DEF IsElementOf
<1>13. ElementBytes(counter, bytes, m) \in Octets
  <2>1. m \in 0..250
    BY <1>1
  <2>. QED  BY <1>8, <2>1, ElementOctets
<1>. QED  BY <1>3, <1>9, <1>11, <1>12, <1>13 DEF m, IsElementOf, IsReadAs

----------------------------------------------------------------------------
(* Advertising data *)

\* Service data with n bytes of a message, behind the length of all of it.
Advertises(p, at, counter, data, n) ==
  /\ p \in Seq(Byte) /\ at \in Nat \ {0} /\ n \in Nat /\ at + 6 + n <= Len(p)
  /\ p[at] = 6 + n /\ p[at + 1] = 5 + n
  /\ p[at + 2] = 22 /\ p[at + 3] = 250 /\ p[at + 4] = 255 /\ p[at + 5] = 13
  /\ p[at + 6] = counter
  /\ \A i \in 1..n : p[at + 6 + i] = data[i]

LEMMA ParametersRead ==
  ASSUME NEW p, NEW at, NEW counter, NEW data, NEW n,
         Advertises(p, at, counter, data, n)
  PROVE  FromParameters(p, at) = [counter |-> counter, data |-> [i \in 1..n |-> data[i]]]
<1>1. p[at] - 6 = n /\ p[at] >= 6 /\ at + p[at] <= Len(p) /\ p[at + 1] = p[at] - 1
  BY DEF Advertises
<1>2. [i \in 1..(p[at] - 6) |-> p[at + 6 + i]] = [i \in 1..n |-> data[i]]
  BY <1>1 DEF Advertises
<1>. QED  BY <1>1, <1>2 DEF FromParameters, Advertises

Joined(head, d, p) ==
  /\ p \in Seq(Byte) /\ Len(p) = Len(head) + Len(d)
  /\ \A i \in 1..Len(head) : p[i] = head[i]
  /\ \A i \in 1..Len(d) : p[Len(head) + i] = d[i]

LEMMA Prefixed ==
  ASSUME NEW head \in Seq(Byte), NEW d \in Seq(Byte)
  PROVE  Joined(head, d, head \o d)
  BY DEF Joined

IsServiceData(s, length, counter, data) ==
  /\ s \in Seq(Byte) /\ Len(s) = 6 + Len(data)
  /\ s[1] = length /\ s[2] = 22 /\ s[3] = 250 /\ s[4] = 255 /\ s[5] = 13 /\ s[6] = counter
  /\ \A i \in 1..Len(data) : s[6 + i] = data[i]

LEMMA ServiceDataBytes ==
  ASSUME NEW length \in Byte, NEW counter \in Byte, NEW data \in Seq(Byte)
  PROVE  IsServiceData(ServiceData(length, counter, data), length, counter, data)
<1>. DEFINE s == <<length, 22, 250, 255, 13, counter>>
<1>1. s \in Seq(Byte) /\ Len(s) = 6
  BY DEF Byte
<1>2. s[1] = length /\ s[2] = 22 /\ s[3] = 250 /\ s[4] = 255 /\ s[5] = 13 /\ s[6] = counter
  OBVIOUS
<1>3. ServiceData(length, counter, data) = s \o data
  BY DEF ServiceData
<1>. HIDE DEF s
<1>4. Joined(s, data, s \o data)
  BY <1>1, Prefixed
<1>. QED  BY <1>1, <1>2, <1>3, <1>4 DEF Joined, IsServiceData

\* Parameters that end with service data, after a head whose last byte is the
\* length of what is significant: a receiver finds the counter and n bytes.
Announces(head, at, data, n) ==
  /\ at \in 1..10 /\ head \in Seq(Byte) /\ Len(head) = at
  /\ n \in 0..249 /\ head[at] = 6 + n
  /\ data \in Seq(Byte) /\ n <= Len(data)

LEMMA Received ==
  ASSUME NEW at, NEW head, NEW data, NEW n, Announces(head, at, data, n), NEW counter \in Byte
  PROVE  FromParameters(head \o ServiceData(5 + n, counter, data), at)
           = [counter |-> counter, data |-> [i \in 1..n |-> data[i]]]
<1>. DEFINE d == ServiceData(5 + n, counter, data)
            p == head \o d
            all == Len(data)
<1>0. /\ at \in 1..10 /\ head \in Seq(Byte) /\ Len(head) = at
      /\ n \in 0..249 /\ head[at] = 6 + n
      /\ data \in Seq(Byte) /\ all \in Nat /\ n <= all
  BY DEF Announces
<1>. USE <1>0
<1>1. IsServiceData(d, 5 + n, counter, data)
  <2>1. 5 + n \in Byte
    BY DEF Byte
  <2>. QED  BY <2>1, ServiceDataBytes
<1>. HIDE DEF d
<1>2. Joined(head, d, p)
  <2>1. d \in Seq(Byte)
    BY <1>1 DEF IsServiceData
  <2>. QED  BY <2>1, Prefixed
<1>. HIDE DEF p
<1>3. /\ p \in Seq(Byte) /\ Len(p) = at + (6 + all) /\ p[at] = 6 + n
      /\ \A i \in 1..(6 + all) : p[at + i] = d[i]
  <2>1. Len(d) = 6 + all
    BY <1>1 DEF IsServiceData
  <2>2. p \in Seq(Byte) /\ Len(p) = at + (6 + all)
    BY <2>1, <1>2 DEF Joined
  <2>3. p[at] = 6 + n
    <3>1. at \in 1..Len(head)
      OBVIOUS
    <3>. QED  BY <3>1, <1>2 DEF Joined
  <2>4. \A i \in 1..(6 + all) : p[at + i] = d[i]
    BY <2>1, <1>2 DEF Joined
  <2>. QED  BY <2>2, <2>3, <2>4
<1>4. /\ d[1] = 5 + n /\ d[2] = 22 /\ d[3] = 250 /\ d[4] = 255 /\ d[5] = 13 /\ d[6] = counter
      /\ \A i \in 1..all : d[6 + i] = data[i]
  BY <1>1 DEF IsServiceData
<1>5. Advertises(p, at, counter, data, n)
  <2>1. at \in Nat \ {0} /\ n \in Nat /\ at + 6 + n <= Len(p)
    BY <1>3
  <2>2. /\ p[at + 1] = d[1] /\ p[at + 2] = d[2] /\ p[at + 3] = d[3] /\ p[at + 4] = d[4]
        /\ p[at + 5] = d[5] /\ p[at + 6] = d[6]
    BY <1>3
  <2>3. ASSUME NEW i \in 1..n PROVE p[at + 6 + i] = data[i]
    <3>1. 6 + i \in 1..(6 + all) /\ at + 6 + i = at + (6 + i) /\ i \in 1..all
      OBVIOUS
    <3>2. p[at + (6 + i)] = d[6 + i]
      BY <3>1, <1>3
    <3>. QED  BY <3>1, <3>2, <1>4
  <2>. QED  BY <2>1, <2>2, <2>3, <1>3, <1>4 DEF Advertises
<1>6. FromParameters(p, at) = [counter |-> counter, data |-> [i \in 1..n |-> data[i]]]
  BY <1>5, ParametersRead
<1>. QED  BY <1>6 DEF p, d

\* A single message goes through either form of Bluetooth 4 advertising, and
\* that of Bluetooth 5, unchanged.
THEOREM SingleParametersRead ==
  ASSUME NEW message \in Seq(Byte), Len(message) = MessageSize,
         NEW counter \in Byte, NEW handle \in Byte
  PROVE  /\ FromParameters(LegacyParameters(message, counter), 1)
              = [counter |-> counter, data |-> message]
         /\ FromParameters(ExtendedParameters(handle, message, counter), 4)
              = [counter |-> counter, data |-> message]
<1>. DEFINE n == 25
<1>1. Len(message) = n /\ n \in 0..249 /\ n <= Len(message) /\ 5 + n = 30
  BY FrameAssumption
<1>2. [i \in 1..n |-> message[i]] = message
  BY <1>1
<1>3. ASSUME NEW at \in 1..10, NEW head \in Seq(Byte), Len(head) = at, head[at] = 6 + n
      PROVE  FromParameters(head \o ServiceData(30, counter, message), at)
               = [counter |-> counter, data |-> message]
  <2>. HIDE DEF n
  <2>1. Announces(head, at, message, n)
    BY <1>1, <1>3 DEF Announces
  <2>2. FromParameters(head \o ServiceData(5 + n, counter, message), at)
          = [counter |-> counter, data |-> [i \in 1..n |-> message[i]]]
    BY <2>1, Received
  <2>. QED  BY <2>2, <1>1, <1>2
<1>4. FromParameters(LegacyParameters(message, counter), 1)
        = [counter |-> counter, data |-> message]
  <2>. DEFINE head == <<31>>
  <2>1. head \in Seq(Byte) /\ Len(head) = 1 /\ head[1] = 6 + n
    BY DEF Byte
  <2>2. LegacyParameters(message, counter) = head \o ServiceData(30, counter, message)
    BY DEF LegacyParameters
  <2>. HIDE DEF head, n
  <2>. QED  BY <2>1, <2>2, <1>3
<1>5. FromParameters(ExtendedParameters(handle, message, counter), 4)
        = [counter |-> counter, data |-> message]
  <2>. DEFINE head == <<handle, 3, 1, 31>>
  <2>1. head \in Seq(Byte) /\ Len(head) = 4 /\ head[4] = 6 + n
    BY DEF Byte
  <2>2. ExtendedParameters(handle, message, counter) = head \o ServiceData(30, counter, message)
    BY DEF ExtendedParameters
  <2>. HIDE DEF head, n
  <2>. QED  BY <2>1, <2>2, <1>3
<1>. QED  BY <1>4, <1>5

\* A pack goes through Bluetooth 5 advertising: the bytes of the messages it
\* says it holds, whatever the size of the buffer.
THEOREM PackParametersRead ==
  ASSUME NEW n \in 0..PackMaxMessages, NEW counter \in Byte, NEW handle \in Byte,
         NEW pack \in Seq(Byte), Len(pack) = PackSize(PackMaxMessages)
  PROVE  FromParameters(PackParameters(handle, pack, n, counter), 4)
           = [counter |-> counter, data |-> SubSeq(pack, 1, PackSize(n))]
<1>. DEFINE m    == PackSize(n)
            all  == PackSize(PackMaxMessages)
            data == [i \in 1..all |-> IF i <= m THEN AsUint8(AsChar(pack[i])) ELSE 0]
            head == <<handle, 3, 1, 6 + m>>
<1>1. m \in 3..228 /\ m <= all /\ all \in 3..228
  BY FrameAssumption DEF PackSize
<1>. HIDE DEF m, all
<1>2. AsUint8(1 + 5 + m) = 6 + m /\ AsUint8(5 + m) = 5 + m
  BY <1>1 DEF AsUint8
<1>3. PackParameters(handle, pack, n, counter) = head \o ServiceData(5 + m, counter, data)
  BY <1>2 DEF PackParameters, m, all
<1>4. \A i \in 1..all : pack[i] \in Byte
  BY DEF all
<1>5. /\ \A i \in 1..all : data[i] = IF i <= m THEN pack[i] ELSE 0
      /\ data = [i \in 1..all |-> data[i]]
  BY <1>4, Unsigned
<1>. HIDE DEF data, head
<1>6. data \in Seq(Byte) /\ Len(data) = all
  <2>1. 0 \in Byte
    BY DEF Byte
  <2>2. ASSUME NEW i \in 1..all PROVE data[i] \in Byte
    <3>1. CASE i <= m
      BY <3>1, <1>4, <1>5
    <3>2. CASE ~(i <= m)
      BY <3>2, <2>1, <1>5
    <3>. QED  BY <3>1, <3>2
  <2>3. data = [i \in 1..all |-> data[i]]
    BY <1>5
  <2>4. all \in Nat
    BY <1>1
  <2>. QED  BY <2>2, <2>3, <2>4
<1>7. [i \in 1..m |-> data[i]] = SubSeq(pack, 1, m)
  <2>1. ASSUME NEW i \in 1..m PROVE data[i] = pack[i]
    <3>1. i \in 1..all /\ i <= m
      BY <1>1
    <3>. QED  BY <3>1, <1>5
  <2>2. SubSeq(pack, 1, m) = [i \in 1..m |-> pack[i]]
    BY <1>1 DEF all
  <2>. QED  BY <2>1, <2>2
<1>8. head \in Seq(Byte) /\ Len(head) = 4 /\ head[4] = 6 + m
  BY <1>1 DEF Byte, head
<1>9. FromParameters(head \o ServiceData(5 + m, counter, data), 4)
        = [counter |-> counter, data |-> [i \in 1..m |-> data[i]]]
  <2>1. Announces(head, 4, data, m)
    BY <1>1, <1>6, <1>8 DEF Announces
  <2>. QED  BY <2>1, Received
<1>. QED  BY <1>3, <1>7, <1>9 DEF m, head
============================================================================
