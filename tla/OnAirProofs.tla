---------------------------- MODULE OnAirProofs ----------------------------
(***************************************************************************)
(* With one Bluetooth transport, what is on air is what the program was    *)
(* configured for, and it is the message sent last: for any number of      *)
(* messages, stray events, faults and runs of the program.                 *)
(*                                                                         *)
(* Behind the last reset the commands still to be executed are the rest of *)
(* the set-up and then data (Ahead), and the controller is as far as the   *)
(* commands executed since that reset have brought it (Reached).           *)
(*                                                                         *)
(* For any transports, also several: no two sets are ever on air, because  *)
(* each is made behind a reset (MadeInv).                                  *)
(***************************************************************************)
EXTENDS HciAdvertisingProofs

\* Without it the second reset undoes the first set-up, see TwoSetsSupported.
OneSet == Configs \subseteq {{"btl"}, {"bt4"}, {"bt5"}}

Own(t) == IF t = "btl" THEN "legacy" ELSE "extended"

\* The set-up of a transport: parameters, address, enable.
IsSetUp(cmd, k, t) ==
  /\ cmd.sets = {t}
  /\ k = 1 => cmd.op = IF t = "btl" THEN "parameters" ELSE "ext parameters"
  /\ k = 2 => cmd.op = IF t = "btl" THEN "address" ELSE "set address"
  /\ k = 3 => cmd.op = IF t = "btl" THEN "enable" ELSE "ext enable"

IsData(cmd, t) == cmd.sets = {t} /\ cmd.op = IF t = "btl" THEN "data" ELSE "ext data"

\* Behind its first j commands s goes on with step k of the set-up, and only
\* data come after that.
Ahead(s, j, k, t) ==
  /\ j + (4 - k) <= Len(s)
  /\ \A i \in k..3 : IsSetUp(s[j + i + 1 - k], i, t)
  /\ \A i \in (j + 5 - k)..Len(s) : IsData(s[i], t)

\* The controller after the steps of the set-up before k.
Reached(c, k, t) ==
  /\ c.api = IF k = 1 THEN "any" ELSE Own(t)
  /\ k >= 2 => c.sets[t].made
  /\ k >= 3 => c.sets[t].addressed
  /\ k <= 3 => c.sets[t].data = 0
  /\ \A u \in Transports : c.sets[u].on <=> k = 4 /\ u = t

OnItsWay(s, c, t) ==
  \/ \E j \in 1..Len(s) : s[j].op = "reset" /\ Ahead(s, j, 1, t)
  \/ \E k \in 1..4 : Ahead(s, 0, k, t) /\ Reached(c, k, t)

\* The last data among these commands, or in the controller, are message n.
LastIs(s, c, n, t) ==
  /\ s # <<>> /\ IsData(s[Len(s)], t) => s[Len(s)].data = n
  /\ s # <<>> /\ ~IsData(s[Len(s)], t) => n = 0
  /\ s = <<>> => c.sets[t].data = n

Behind(s, c, n, t) == OnItsWay(s, c, t) /\ LastIs(s, c, n, t)

AirInv ==
  /\ \E t \in Transports : config = {t}
  /\ stage \in {"init", "idle", "sending"} =>
       \A t \in config : Behind(Pending, controller, sent, t)
  /\ stage = "sending" => \A t \in config : \A i \in 1..Len(todo) : IsData(todo[i], t)

----------------------------------------------------------------------------
(* One command executed *)

LEMMA SetUpExecuted ==
  ASSUME NEW c \in Controllers, NEW t \in Transports, NEW k \in 1..3, NEW cmd \in CommandSet,
         Reached(c, k, t), IsSetUp(cmd, k, t)
  PROVE  Reached(Execute(c, cmd), k + 1, t) /\ (k = 3 => Execute(c, cmd).sets[t].data = 0)
<1>0. /\ cmd.sets = {t}
      /\ k = 1 => cmd.op = IF t = "btl" THEN "parameters" ELSE "ext parameters"
      /\ k = 2 => cmd.op = IF t = "btl" THEN "address" ELSE "set address"
      /\ k = 3 => cmd.op = IF t = "btl" THEN "enable" ELSE "ext enable"
  BY DEF IsSetUp
<1>k. k = 1 \/ k = 2 \/ k = 3
  OBVIOUS
<1>a. /\ k = 1 => cmd.op \in {"parameters", "ext parameters"}
      /\ k = 2 => cmd.op \in {"address", "set address"}
      /\ k = 3 => cmd.op \in {"enable", "ext enable"}
  BY <1>0, <1>k
<1>b. Api(cmd.op) = Own(t)
  <2>1. CASE t = "btl"
    <3>1. cmd.op \in {"parameters", "address", "enable"}
      BY <1>0, <1>k, <2>1
    <3>. QED  BY <2>1, <3>1 DEF Api, Own, LegacyOps, ExtendedOps
  <2>2. CASE t # "btl"
    <3>1. cmd.op \in {"ext parameters", "set address", "ext enable"}
      BY <1>0, <1>k, <2>2
    <3>. QED  BY <2>2, <3>1 DEF Api, Own, LegacyOps, ExtendedOps
  <2>. QED  BY <2>1, <2>2
<1>1. Api(cmd.op) = Own(t) /\ cmd.op # "reset" /\ cmd.sets = {t}
  BY <1>0, <1>k, <1>a, <1>b
<1>2. c.sets \in [Transports -> [made : BOOLEAN, addressed : BOOLEAN, on : BOOLEAN, data : 0..MaxMessages]]
  BY DEF Controllers
<1>3. c.api \in {"any", Own(t)}
  BY DEF Reached
<1>4. ~Mixes(c, cmd)
  BY <1>1, <1>3 DEF Mixes
<1>5. Accepts(c, cmd)
  <2>1. CASE k = 1
    <3>1. cmd.op \in {"parameters", "ext parameters"}
      BY <1>a, <2>1
    <3>2. ~c.sets[t].on
      BY <2>1 DEF Reached
    <3>. QED  BY <1>1, <3>1, <3>2 DEF Accepts
  <2>2. CASE k = 2
    <3>1. cmd.op \in {"address", "set address"}
      BY <1>a, <2>2
    <3>2. c.sets[t].made
      BY <2>2 DEF Reached
    <3>. QED  BY <1>1, <3>1, <3>2 DEF Accepts
  <2>3. CASE k = 3
    <3>1. cmd.op \in {"enable", "ext enable"}
      BY <1>a, <2>3
    <3>2. c.sets[t].made /\ c.sets[t].addressed
      BY <2>3 DEF Reached
    <3>. QED  BY <1>1, <3>1, <3>2 DEF Accepts
  <2>. QED  BY <1>k, <2>1, <2>2, <2>3
<1>. DEFINE d == [api  |-> IF c.api = "any" THEN Api(cmd.op) ELSE c.api,
                  sets |-> [u \in Transports |-> IF u \in cmd.sets THEN Effect(c.sets[u], cmd)
                                                                   ELSE c.sets[u]]]
<1>6. Execute(c, cmd) = d
  BY <1>1, <1>4, <1>5 DEF Execute
<1>7. d.api = Own(t) /\ d.sets[t] = Effect(c.sets[t], cmd)
      /\ \A u \in Transports : u # t => d.sets[u] = c.sets[u]
  BY <1>1, <1>3
<1>. HIDE DEF d
<1>8. CASE k = 1
  <2>1. Effect(c.sets[t], cmd) = [c.sets[t] EXCEPT !.made = TRUE]
    BY <1>a, <1>8 DEF Effect
  <2>. QED  BY <1>2, <1>6, <1>7, <1>8, <2>1 DEF Reached
<1>9. CASE k = 2
  <2>1. Effect(c.sets[t], cmd) = [c.sets[t] EXCEPT !.addressed = TRUE]
    BY <1>a, <1>9 DEF Effect
  <2>. QED  BY <1>2, <1>6, <1>7, <1>9, <2>1 DEF Reached
<1>10. CASE k = 3
  <2>1. Effect(c.sets[t], cmd) = [c.sets[t] EXCEPT !.on = TRUE]
    BY <1>a, <1>10 DEF Effect
  <2>. QED  BY <1>2, <1>6, <1>7, <1>10, <2>1 DEF Reached
<1>. QED  BY <1>k, <1>8, <1>9, <1>10

LEMMA DataExecuted ==
  ASSUME NEW c \in Controllers, NEW t \in Transports, NEW cmd \in CommandSet,
         Reached(c, 4, t), IsData(cmd, t)
  PROVE  Reached(Execute(c, cmd), 4, t) /\ Execute(c, cmd).sets[t].data = cmd.data
<1>1. /\ Api(cmd.op) = Own(t) /\ cmd.op \in {"data", "ext data"} /\ cmd.sets = {t}
  <2>1. CASE t = "btl"
    BY <2>1 DEF IsData, Api, Own, LegacyOps, ExtendedOps
  <2>2. CASE t # "btl"
    BY <2>2 DEF IsData, Api, Own, LegacyOps, ExtendedOps
  <2>. QED  BY <2>1, <2>2
<1>2. c.sets \in [Transports -> [made : BOOLEAN, addressed : BOOLEAN, on : BOOLEAN, data : 0..MaxMessages]]
  BY DEF Controllers
<1>3. c.api = Own(t) /\ c.sets[t].made /\ c.api # "any"
  BY DEF Reached, Own
<1>4. ~Mixes(c, cmd) /\ Accepts(c, cmd)
  BY <1>1, <1>3 DEF Mixes, Accepts
<1>. DEFINE d == [api  |-> IF c.api = "any" THEN Api(cmd.op) ELSE c.api,
                  sets |-> [u \in Transports |-> IF u \in cmd.sets THEN Effect(c.sets[u], cmd)
                                                                   ELSE c.sets[u]]]
<1>5. Execute(c, cmd) = d
  BY <1>1, <1>4 DEF Execute
<1>6. d.api = Own(t) /\ d.sets[t] = Effect(c.sets[t], cmd)
      /\ \A u \in Transports : u # t => d.sets[u] = c.sets[u]
  BY <1>1, <1>3
<1>. HIDE DEF d
<1>7. Effect(c.sets[t], cmd) = [c.sets[t] EXCEPT !.data = cmd.data]
  BY <1>1 DEF Effect
<1>. QED  BY <1>2, <1>5, <1>6, <1>7 DEF Reached

LEMMA ResetExecuted ==
  ASSUME NEW c \in Controllers, NEW t \in Transports, NEW cmd \in CommandSet, cmd.op = "reset"
  PROVE  Reached(Execute(c, cmd), 1, t)
BY DEF Execute, ResetController, NoSet, Reached

----------------------------------------------------------------------------
(* The first command gone, and a last one added *)

LEMMA AheadTail ==
  ASSUME NEW S, NEW s \in Seq(S), s # <<>>, NEW j \in Nat, NEW k \in 1..4, NEW t, Ahead(s, j, k, t)
  PROVE  /\ j > 0 => Ahead(Tail(s), j - 1, k, t)
         /\ j = 0 /\ k < 4 => IsSetUp(Head(s), k, t) /\ Ahead(Tail(s), 0, k + 1, t)
         /\ j = 0 /\ k = 4 => IsData(Head(s), t) /\ Ahead(Tail(s), 0, 4, t)
<1>. DEFINE r == Tail(s)
<1>1. Len(s) \in Nat /\ Len(s) # 0 /\ Head(s) = s[1] /\ Len(r) = Len(s) - 1
  BY EmptySeq
<1>2. \A i \in 1..Len(r) : r[i] = s[i + 1]
  BY <1>1
<1>. HIDE DEF r
<1>3. /\ j + (4 - k) <= Len(s)
      /\ \A i \in k..3 : IsSetUp(s[j + i + 1 - k], i, t)
      /\ \A i \in (j + 5 - k)..Len(s) : IsData(s[i], t)
  BY DEF Ahead
<1>4. ASSUME j > 0
      PROVE  Ahead(r, j - 1, k, t)
  <2>1. (j - 1) + (4 - k) <= Len(r)
    BY <1>1, <1>3
  <2>2. ASSUME NEW i \in k..3
        PROVE  IsSetUp(r[(j - 1) + i + 1 - k], i, t)
    <3>1. (j - 1) + i + 1 - k \in 1..Len(r) /\ ((j - 1) + i + 1 - k) + 1 = j + i + 1 - k
      BY <1>4, <1>1, <1>3
    <3>. QED  BY <1>2, <1>3, <3>1
  <2>3. ASSUME NEW i \in ((j - 1) + 5 - k)..Len(r)
        PROVE  IsData(r[i], t)
    <3>1. i \in 1..Len(r) /\ i + 1 \in (j + 5 - k)..Len(s)
      BY <1>4, <1>1
    <3>. QED  BY <1>2, <1>3, <3>1
  <2>. QED  BY <2>1, <2>2, <2>3 DEF Ahead
<1>5. ASSUME j = 0, k < 4
      PROVE  IsSetUp(s[1], k, t) /\ Ahead(r, 0, k + 1, t)
  <2>0. IsSetUp(s[1], k, t)
    <3>1. k \in k..3 /\ j + k + 1 - k = 1
      BY <1>5
    <3>. QED  BY <1>3, <3>1
  <2>1. 0 + (4 - (k + 1)) <= Len(r)
    BY <1>1, <1>3, <1>5
  <2>2. ASSUME NEW i \in (k + 1)..3
        PROVE  IsSetUp(r[0 + i + 1 - (k + 1)], i, t)
    <3>1. /\ i \in k..3
          /\ 0 + i + 1 - (k + 1) \in 1..Len(r) /\ (0 + i + 1 - (k + 1)) + 1 = j + i + 1 - k
      BY <1>5, <1>1, <1>3
    <3>. QED  BY <1>2, <1>3, <3>1
  <2>3. ASSUME NEW i \in (0 + 5 - (k + 1))..Len(r)
        PROVE  IsData(r[i], t)
    <3>1. i \in 1..Len(r) /\ i + 1 \in (j + 5 - k)..Len(s)
      BY <1>5, <1>1
    <3>. QED  BY <1>2, <1>3, <3>1
  <2>. QED  BY <2>0, <2>1, <2>2, <2>3 DEF Ahead
<1>6. ASSUME j = 0, k = 4
      PROVE  IsData(s[1], t) /\ Ahead(r, 0, 4, t)
  <2>1. \A i \in 1..Len(s) : IsData(s[i], t)
    BY <1>3, <1>6
  <2>2. IsData(s[1], t)
    BY <1>1, <2>1
  <2>3. \A i \in 1..Len(r) : IsData(r[i], t)
    <3>1. \A i \in 1..Len(r) : i + 1 \in 1..Len(s)
      BY <1>1
    <3>. QED  BY <1>2, <2>1, <3>1
  <2>4. 0 + (4 - 4) <= Len(r) /\ 4..3 = {} /\ 0 + 5 - 4 = 1
    BY <1>1
  <2>. QED  BY <2>2, <2>3, <2>4 DEF Ahead
<1>. QED  BY <1>1, <1>4, <1>5, <1>6 DEF r

LEMMA AheadAppend ==
  ASSUME NEW S, NEW s \in Seq(S), NEW e \in S, NEW j \in Nat, NEW k \in 1..4, NEW t,
         Ahead(s, j, k, t), IsData(e, t)
  PROVE  Ahead(Append(s, e), j, k, t)
<1>. DEFINE r == Append(s, e)
<1>1. Len(s) \in Nat /\ Len(r) = Len(s) + 1 /\ r[Len(s) + 1] = e
      /\ \A i \in 1..Len(s) : r[i] = s[i]
  OBVIOUS
<1>. HIDE DEF r
<1>2. /\ j + (4 - k) <= Len(s)
      /\ \A i \in k..3 : IsSetUp(s[j + i + 1 - k], i, t)
      /\ \A i \in (j + 5 - k)..Len(s) : IsData(s[i], t)
  BY DEF Ahead
<1>3. ASSUME NEW i \in k..3
      PROVE  IsSetUp(r[j + i + 1 - k], i, t)
  <2>1. j + i + 1 - k \in 1..Len(s)
    BY <1>1, <1>2
  <2>. QED  BY <1>1, <1>2, <2>1
<1>4. ASSUME NEW i \in (j + 5 - k)..Len(r)
      PROVE  IsData(r[i], t)
  <2>1. (i \in (j + 5 - k)..Len(s) /\ i \in 1..Len(s)) \/ i = Len(s) + 1
    BY <1>1
  <2>. QED  BY <1>1, <1>2, <2>1
<1>. QED  BY <1>1, <1>2, <1>3, <1>4 DEF Ahead, r

----------------------------------------------------------------------------
(* The scripts for one transport *)

LEMMA Empty == \A S : \A s \in Seq(S) : s \o <<>> = s /\ <<>> \o s = s
OBVIOUS

LEMMA NoGaps ==
  ASSUME NEW S, NEW f \in Seq(S), NEW m \in Seq(S), NEW e \in Seq(S), NEW r,
         \/ r = f \o m \o <<>> \o <<>> \o e \o <<>> \o <<>>
         \/ r = f \o <<>> \o m \o <<>> \o <<>> \o e \o <<>>
         \/ r = f \o <<>> \o <<>> \o m \o <<>> \o <<>> \o e
  PROVE  r = (f \o m) \o e
<1>. DEFINE p == f \o m  q == p \o e
<1>1. p \in Seq(S)
  BY ConcatProperties
<1>. HIDE DEF p
<1>2. q \in Seq(S)
  BY <1>1, ConcatProperties
<1>. HIDE DEF q
<1>3. f \o <<>> = f /\ p \o <<>> = p /\ q \o <<>> = q
  BY <1>1, <1>2, Empty
<1>. QED  BY <1>3, Zenon DEF p, q

RawCommands == [op : Ops, sets : SUBSET Transports, data : {0}]
Front      == Reset \o StopTransmit \o ReadFeatures
OwnSetUp(t) == IF t = "btl" THEN LegacySetUp ELSE ExtendedSetUp(t)
TurnOn(t)  == IF t = "btl" THEN <<Command("enable", {"btl"}, 0)>> ELSE <<Command("ext enable", {t}, 0)>>

LEMMA ThreeParts ==
  ASSUME NEW f \in Seq(RawCommands), NEW m \in Seq(RawCommands), NEW e \in Seq(RawCommands),
         Len(f) = 6, Len(m) = 3, Len(e) = 1
  PROVE  \A r : r = (f \o m) \o e =>
           Len(r) = 10 /\ r[7] = m[1] /\ r[8] = m[2] /\ r[9] = m[3] /\ r[10] = e[1]
<1>. DEFINE p == f \o m  q == p \o e
<1>a. /\ p \in Seq(RawCommands) /\ Len(p) = Len(f) + Len(m)
      /\ \A i \in 1..Len(f) + Len(m) : p[i] = IF i <= Len(f) THEN f[i] ELSE m[i - Len(f)]
  BY ConcatProperties, Zenon
<1>. HIDE DEF p
<1>1. p \in Seq(RawCommands) /\ Len(p) = 9 /\ \A i \in 1..9 : p[i] = IF i <= 6 THEN f[i] ELSE m[i - 6]
  BY <1>a
<1>b. /\ q \in Seq(RawCommands) /\ Len(q) = Len(p) + Len(e)
      /\ \A i \in 1..Len(p) + Len(e) : q[i] = IF i <= Len(p) THEN p[i] ELSE e[i - Len(p)]
  BY <1>1, ConcatProperties, Zenon
<1>. HIDE DEF q
<1>2. q \in Seq(RawCommands) /\ Len(q) = 10 /\ \A i \in 1..10 : q[i] = IF i <= 9 THEN p[i] ELSE e[i - 9]
  BY <1>1, <1>b
<1>3. p[7] = m[1] /\ p[8] = m[2] /\ p[9] = m[3]
  BY <1>1
<1>4. q[7] = p[7] /\ q[8] = p[8] /\ q[9] = p[9] /\ q[10] = e[1]
  BY <1>2
<1>. QED  BY <1>2, <1>3, <1>4 DEF p, q

LEMMA RawCommand ==
  ASSUME NEW op \in Ops, NEW sets \in SUBSET Transports
  PROVE  Command(op, sets, 0) \in RawCommands
BY DEF Command, RawCommands

LEMMA OpsAre ==
  /\ "reset" \in Ops /\ "features" \in Ops
  /\ "parameters" \in Ops /\ "address" \in Ops /\ "enable" \in Ops /\ "disable" \in Ops
  /\ "ext parameters" \in Ops /\ "set address" \in Ops /\ "ext enable" \in Ops
  /\ "ext disable" \in Ops /\ "remove" \in Ops
BY DEF Ops, LegacyOps, ExtendedOps

LEMMA OwnCommands ==
  ASSUME NEW t \in Transports
  PROVE  \E a, b, e \in RawCommands :
           /\ OwnSetUp(t) = <<a, b>> /\ TurnOn(t) = <<e>>
           /\ IsSetUp(a, 1, t) /\ IsSetUp(b, 2, t) /\ IsSetUp(e, 3, t)
<1>0. {t} \in SUBSET Transports
  OBVIOUS
<1>1. CASE t = "btl"
  <2>. DEFINE a == Command("parameters", {t}, 0)  b == Command("address", {t}, 0)
              e == Command("enable", {t}, 0)
  <2>1. a \in RawCommands /\ b \in RawCommands /\ e \in RawCommands
    BY <1>0, OpsAre, RawCommand
  <2>2. OwnSetUp(t) = <<a, b>> /\ TurnOn(t) = <<e>>
    BY <1>1 DEF OwnSetUp, TurnOn, LegacySetUp
  <2>3. IsSetUp(a, 1, t) /\ IsSetUp(b, 2, t) /\ IsSetUp(e, 3, t)
    BY <1>1 DEF Command, IsSetUp
  <2>. HIDE DEF a, b, e
  <2>. QED  BY <2>1, <2>2, <2>3
<1>2. CASE t # "btl"
  <2>. DEFINE a == Command("ext parameters", {t}, 0)  b == Command("set address", {t}, 0)
              e == Command("ext enable", {t}, 0)
  <2>1. a \in RawCommands /\ b \in RawCommands /\ e \in RawCommands
    BY <1>0, OpsAre, RawCommand
  <2>2. OwnSetUp(t) = <<a, b>> /\ TurnOn(t) = <<e>>
    BY <1>2 DEF OwnSetUp, TurnOn, ExtendedSetUp
  <2>3. IsSetUp(a, 1, t) /\ IsSetUp(b, 2, t) /\ IsSetUp(e, 3, t)
    BY <1>2 DEF Command, IsSetUp
  <2>. HIDE DEF a, b, e
  <2>. QED  BY <2>1, <2>2, <2>3
<1>. QED  BY <1>1, <1>2

LEMMA FrontSix == Front \in Seq(RawCommands) /\ Len(Front) = 6 /\ Reset \in Seq(RawCommands)
<1>1. /\ Command("disable", {"btl"}, 0) \in RawCommands
      /\ Command("ext disable", Extended, 0) \in RawCommands
      /\ Command("remove", {"bt4"}, 0) \in RawCommands /\ Command("remove", {"bt5"}, 0) \in RawCommands
  <2>1. {"btl"} \in SUBSET Transports /\ Extended \in SUBSET Transports
        /\ {"bt4"} \in SUBSET Transports /\ {"bt5"} \in SUBSET Transports
    BY DEF Transports, Extended
  <2>. QED  BY <2>1, OpsAre, RawCommand
<1>2. Command("reset", {}, 0) \in RawCommands /\ Command("features", {}, 0) \in RawCommands
  <2>1. {} \in SUBSET Transports
    OBVIOUS
  <2>. QED  BY <2>1, OpsAre, RawCommand
<1>3. \A a, b, c, d \in RawCommands : <<a, b, c, d>> \in Seq(RawCommands) /\ Len(<<a, b, c, d>>) = 4
  OBVIOUS
<1>4. \A a \in RawCommands : <<a>> \in Seq(RawCommands) /\ Len(<<a>>) = 1
  OBVIOUS
<1>5. StopTransmit \in Seq(RawCommands) /\ Len(StopTransmit) = 4
  BY <1>1, <1>3 DEF StopTransmit
<1>6. /\ Reset \in Seq(RawCommands) /\ Len(Reset) = 1
      /\ ReadFeatures \in Seq(RawCommands) /\ Len(ReadFeatures) = 1
  BY <1>2, <1>4 DEF Reset, ReadFeatures
<1>7. Reset \o StopTransmit \in Seq(RawCommands) /\ Len(Reset \o StopTransmit) = Len(Reset) + Len(StopTransmit)
  BY <1>5, <1>6, ConcatProperties
<1>8. Front \in Seq(RawCommands) /\ Len(Front) = Len(Reset \o StopTransmit) + Len(ReadFeatures)
  BY <1>6, <1>7, ConcatProperties DEF Front
<1>. QED  BY <1>5, <1>6, <1>7, <1>8

LEMMA OneAndTwo ==
  \A S : \A f, g \in Seq(S) : Len(f) = 1 /\ Len(g) = 2 =>
    f \o g \in Seq(S) /\ Len(f \o g) = 3
    /\ (f \o g)[1] = f[1] /\ (f \o g)[2] = g[1] /\ (f \o g)[3] = g[2]
<1>. SUFFICES ASSUME NEW S, NEW f \in Seq(S), NEW g \in Seq(S), Len(f) = 1, Len(g) = 2
              PROVE  f \o g \in Seq(S) /\ Len(f \o g) = 3
                     /\ (f \o g)[1] = f[1] /\ (f \o g)[2] = g[1] /\ (f \o g)[3] = g[2]
  OBVIOUS
<1>. DEFINE p == f \o g
<1>1. /\ p \in Seq(S) /\ Len(p) = Len(f) + Len(g)
      /\ \A i \in 1..Len(f) + Len(g) : p[i] = IF i <= Len(f) THEN f[i] ELSE g[i - Len(f)]
  BY ConcatProperties, Zenon
<1>. HIDE DEF p
<1>2. Len(p) = 3 /\ p[1] = f[1] /\ p[2] = g[1] /\ p[3] = g[2]
  BY <1>1
<1>. QED  BY <1>1, <1>2 DEF p

\* The set-up of one transport is the whole of its script behind the front.
LEMMA OneScript ==
  ASSUME NEW t \in Transports, OwnSetUp(t) \in Seq(RawCommands), TurnOn(t) \in Seq(RawCommands)
  PROVE  InitBluetooth({t}) = (Front \o (Reset \o OwnSetUp(t))) \o TurnOn(t)
<1>0. t = "btl" \/ t = "bt4" \/ t = "bt5"
  BY DEF Transports
<1>1. Front \in Seq(RawCommands) /\ Reset \o OwnSetUp(t) \in Seq(RawCommands)
  BY FrontSix, ConcatProperties
<1>2. /\ EnableExtended({"bt4"}) = <<Command("ext enable", {"bt4"}, 0)>>
      /\ EnableExtended({"bt5"}) = <<Command("ext enable", {"bt5"}, 0)>>
  <2>1. {"bt4"} \cap Extended = {"bt4"} /\ {"bt5"} \cap Extended = {"bt5"}
    BY DEF Extended
  <2>. QED  BY <2>1 DEF EnableExtended
<1>. DEFINE own == Reset \o OwnSetUp(t)  on == TurnOn(t)  r == InitBluetooth({t})
<1>3. \/ r = Front \o own \o <<>> \o <<>> \o on \o <<>> \o <<>>
      \/ r = Front \o <<>> \o own \o <<>> \o <<>> \o on \o <<>>
      \/ r = Front \o <<>> \o <<>> \o own \o <<>> \o <<>> \o on
  <2>1. CASE t = "btl"
    <3>1. r = Front \o own \o <<>> \o <<>> \o on \o <<>> \o <<>>
      BY <2>1 DEF InitBluetooth, When, Front, OwnSetUp, TurnOn
    <3>. QED  BY <3>1, Zenon
  <2>2. CASE t = "bt4"
    <3>1. r = Front \o <<>> \o own \o <<>> \o <<>> \o on \o <<>>
      BY <1>2, <2>2 DEF InitBluetooth, When, Front, OwnSetUp, TurnOn
    <3>. QED  BY <3>1, Zenon
  <2>3. CASE t = "bt5"
    <3>1. r = Front \o <<>> \o <<>> \o own \o <<>> \o <<>> \o on
      BY <1>2, <2>3 DEF InitBluetooth, When, Front, OwnSetUp, TurnOn
    <3>. QED  BY <3>1, Zenon
  <2>. QED  BY <1>0, <2>1, <2>2, <2>3
<1>4. Front \in Seq(RawCommands) /\ own \in Seq(RawCommands) /\ on \in Seq(RawCommands)
  BY <1>1
<1>. HIDE DEF own, on, r
<1>5. r = (Front \o own) \o on
  BY <1>3, <1>4, NoGaps
<1>. QED  BY <1>5 DEF r, own, on

LEMMA InitScript ==
  ASSUME NEW t \in Transports
  PROVE  /\ Len(InitBluetooth({t})) = 10
         /\ InitBluetooth({t})[7].op = "reset"
         /\ IsSetUp(InitBluetooth({t})[8], 1, t)
         /\ IsSetUp(InitBluetooth({t})[9], 2, t)
         /\ IsSetUp(InitBluetooth({t})[10], 3, t)
<1>1. PICK a \in RawCommands, b \in RawCommands, e \in RawCommands :
        /\ OwnSetUp(t) = <<a, b>> /\ TurnOn(t) = <<e>>
        /\ IsSetUp(a, 1, t) /\ IsSetUp(b, 2, t) /\ IsSetUp(e, 3, t)
  BY OwnCommands
<1>2. Reset = <<Command("reset", {}, 0)>> /\ Command("reset", {}, 0).op = "reset"
  BY DEF Reset, Command
<1>. DEFINE own == OwnSetUp(t)  on == TurnOn(t)  m == Reset \o own  r == (Front \o m) \o on
<1>3. /\ own \in Seq(RawCommands) /\ Len(own) = 2 /\ own[1] = a /\ own[2] = b
      /\ on \in Seq(RawCommands) /\ Len(on) = 1 /\ on[1] = e
  BY <1>1
<1>4. InitBluetooth({t}) = r
  BY <1>3, OneScript
<1>. HIDE DEF own, on
<1>5. Reset \in Seq(RawCommands) /\ Len(Reset) = 1 /\ Reset[1].op = "reset"
  BY <1>2, FrontSix
<1>6. m \in Seq(RawCommands) /\ Len(m) = 3 /\ m[1] = Reset[1] /\ m[2] = a /\ m[3] = b
  BY <1>3, <1>5, OneAndTwo
<1>. HIDE DEF m
<1>x. r = (Front \o m) \o on
  OBVIOUS
<1>. HIDE DEF r
<1>7. Len(r) = 10 /\ r[7] = m[1] /\ r[8] = m[2] /\ r[9] = m[3] /\ r[10] = on[1]
  <2>1. /\ Front \in Seq(RawCommands) /\ m \in Seq(RawCommands) /\ on \in Seq(RawCommands)
        /\ Len(Front) = 6 /\ Len(m) = 3 /\ Len(on) = 1
    BY <1>3, <1>6, FrontSix
  <2>2. \A q : q = (Front \o m) \o on =>
          Len(q) = 10 /\ q[7] = m[1] /\ q[8] = m[2] /\ q[9] = m[3] /\ q[10] = on[1]
    <3>. HIDE DEF Front, RawCommands
    <3>. QED  BY <2>1, ThreeParts
  <2>. QED  BY <2>2, <1>x
<1>. QED  BY <1>1, <1>3, <1>4, <1>5, <1>6, <1>7

LEMMA InitBehind ==
  ASSUME NEW s \in Scripts, NEW c, NEW t \in Transports
  PROVE  OnItsWay(s \o InitBluetooth({t}), c, t) /\ LastIs(s \o InitBluetooth({t}), c, 0, t)
<1>. DEFINE w == InitBluetooth({t})  r == s \o w  n == Len(s)
<1>1. /\ w \in Seq(ProperCommands) /\ Len(w) = 10 /\ w[7].op = "reset"
      /\ IsSetUp(w[8], 1, t) /\ IsSetUp(w[9], 2, t) /\ IsSetUp(w[10], 3, t)
  <2>1. {t} \in SUBSET Transports
    OBVIOUS
  <2>. QED  BY <2>1, InitScript, InitBluetoothType DEF Scripts
<1>. HIDE DEF w
<1>a. s \in Seq(ProperCommands) /\ n \in Nat
  BY DEF Scripts
<1>b. /\ r \in Seq(ProperCommands) /\ Len(r) = Len(s) + Len(w)
      /\ \A i \in 1..Len(s) + Len(w) : r[i] = IF i <= Len(s) THEN s[i] ELSE w[i - Len(s)]
  BY <1>1, <1>a, ConcatProperties
<1>. HIDE DEF r
<1>2. /\ r \in Seq(ProperCommands) /\ Len(r) = n + 10 /\ n \in Nat
      /\ \A i \in 1..(n + 10) : r[i] = IF i <= n THEN s[i] ELSE w[i - n]
  BY <1>1, <1>a, <1>b
<1>. HIDE DEF n
<1>3. r[n + 7] = w[7] /\ r[n + 8] = w[8] /\ r[n + 9] = w[9] /\ r[n + 10] = w[10]
  BY <1>2
<1>4. Ahead(r, n + 7, 1, t)
  <2>1. (n + 7) + (4 - 1) <= Len(r)
    BY <1>2
  <2>2. ASSUME NEW i \in 1..3
        PROVE  IsSetUp(r[(n + 7) + i + 1 - 1], i, t)
    <3>1. CASE i = 1
      <4>1. (n + 7) + 1 + 1 - 1 = n + 8
        BY <1>2
      <4>. QED  BY <1>1, <1>3, <3>1, <4>1
    <3>2. CASE i = 2
      <4>1. (n + 7) + 2 + 1 - 1 = n + 9
        BY <1>2
      <4>. QED  BY <1>1, <1>3, <3>2, <4>1
    <3>3. CASE i = 3
      <4>1. (n + 7) + 3 + 1 - 1 = n + 10
        BY <1>2
      <4>. QED  BY <1>1, <1>3, <3>3, <4>1
    <3>. QED  BY <3>1, <3>2, <3>3
  <2>3. ((n + 7) + 5 - 1)..Len(r) = {}
    BY <1>2
  <2>. QED  BY <2>1, <2>2, <2>3 DEF Ahead
<1>5. OnItsWay(r, c, t)
  <2>1. n + 7 \in 1..Len(r) /\ r[n + 7].op = "reset"
    BY <1>1, <1>2, <1>3
  <2>. QED  BY <1>4, <2>1 DEF OnItsWay
<1>6. LastIs(r, c, 0, t)
  <2>1. r # <<>> /\ Len(r) = n + 10
    BY <1>2, EmptySeq
  <2>2. ~IsData(w[10], t)
    BY <1>1 DEF IsSetUp, IsData
  <2>. QED  BY <1>3, <2>1, <2>2 DEF LastIs
<1>. QED  BY <1>5, <1>6 DEF r, w

LEMMA SendScript ==
  ASSUME NEW t \in Transports, NEW n \in 0..MaxMessages
  PROVE  \E e \in ProperCommands : SendMessage({t}, n) = <<e>> /\ IsData(e, t) /\ e.data = n
<1>. DEFINE e == IF t = "btl" THEN Command("data", {t}, n) ELSE Command("ext data", {t}, n)
<1>1. e \in ProperCommands
  <2>1. e.op \in {"data", "ext data"} /\ e \in CommandSet
    BY DEF Command, CommandSet, Ops, LegacyOps, ExtendedOps
  <2>. QED  BY <2>1 DEF ProperCommands, Proper
<1>2. IsData(e, t) /\ e.data = n
  BY DEF Command, IsData
<1>3. SendMessage({t}, n) = <<e>>
  <2>1. <<>> \o <<e>> = <<e>> /\ <<e>> \o <<>> = <<e>>
    <3>. HIDE DEF e
    <3>. QED  BY <1>1, OneOf, Empty
  <2>2. t = "btl" \/ t = "bt4" \/ t = "bt5"
    BY DEF Transports
  <2>3. <<>> \o <<>> = <<>>
    BY Empty
  <2>4. CASE t = "btl"
    <3>1. SendMessage({t}, n) = (<<e>> \o <<>>) \o <<>>
      BY <2>4 DEF SendMessage, When
    <3>. HIDE DEF e
    <3>. QED  BY <2>1, <3>1
  <2>5. CASE t = "bt4"
    <3>1. SendMessage({t}, n) = (<<>> \o <<e>>) \o <<>>
      BY <2>5 DEF SendMessage, When
    <3>. HIDE DEF e
    <3>. QED  BY <2>1, <3>1
  <2>6. CASE t = "bt5"
    <3>1. SendMessage({t}, n) = (<<>> \o <<>>) \o <<e>>
      BY <2>6 DEF SendMessage, When
    <3>. HIDE DEF e
    <3>. QED  BY <2>1, <2>3, <3>1
  <2>. QED  BY <2>2, <2>4, <2>5, <2>6
<1>. QED  BY <1>1, <1>2, <1>3
----------------------------------------------------------------------------
(* The steps *)

\* The controller executes the first of the commands before it.
LEMMA BehindExecuted ==
  ASSUME NEW s \in Scripts, s # <<>>, NEW c \in Controllers, NEW n, NEW t \in Transports,
         Behind(s, c, n, t), NEW read \in Readings(Head(s))
  PROVE  Behind(Tail(s), Execute(c, read), n, t)
<1>. DEFINE cmd == Head(s)  r == Tail(s)  d == Execute(c, read)
<1>1. /\ s \in Seq(ProperCommands) /\ cmd \in CommandSet /\ cmd = s[1]
      /\ r \in Seq(ProperCommands) /\ Len(r) = Len(s) - 1 /\ Len(s) \in Nat /\ Len(s) # 0
      /\ \A i \in 1..Len(r) : r[i] = s[i + 1]
  <2>1. s \in Seq(ProperCommands) /\ ProperCommands \subseteq CommandSet
    BY DEF Scripts, ProperCommands
  <2>2. Head(s) \in ProperCommands /\ Tail(s) \in Seq(ProperCommands) /\ Len(Tail(s)) = Len(s) - 1
        /\ Len(s) \in Nat
    BY <2>1, TailFacts
  <2>3. Len(s) # 0 /\ Head(s) = s[1]
    BY <2>1, EmptySeq
  <2>4. \A i \in 1..Len(Tail(s)) : Tail(s)[i] = s[i + 1]
    BY <2>1, <2>2
  <2>. QED  BY <2>1, <2>2, <2>3, <2>4
<1>2. OnItsWay(s, c, t) /\ LastIs(s, c, n, t)
  BY DEF Behind
<1>r. cmd.op # "ext enable" \/ cmd.sets # Extended => d = Execute(c, cmd)
  BY DEF Readings
<1>. HIDE DEF cmd, r, d
<1>o. \A k : IsSetUp(cmd, k, t) \/ IsData(cmd, t) => d = Execute(c, cmd)
  <2>1. cmd.sets = {t} => cmd.sets # Extended
    BY DEF Extended
  <2>. QED  BY <1>r, <2>1 DEF IsSetUp, IsData
<1>3. ASSUME r # <<>>
      PROVE  LastIs(r, d, n, t)
  <2>1. Len(r) # 0 /\ Len(r) \in Nat
    BY <1>1, <1>3, EmptySeq
  <2>2. Len(r) \in 1..Len(r) /\ Len(r) + 1 = Len(s)
    BY <1>1, <2>1
  <2>3. r[Len(r)] = s[Len(s)]
    BY <1>1, <2>2
  <2>. QED  BY <1>2, <1>3, <2>3 DEF LastIs
<1>4. ASSUME NEW j \in 1..Len(s), s[j].op = "reset", Ahead(s, j, 1, t)
      PROVE  OnItsWay(r, d, t) /\ r # <<>>
  <2>1. j \in Nat /\ j > 0 /\ 1 \in 1..4
    OBVIOUS
  <2>2. Ahead(r, j - 1, 1, t)
    BY <1>1, <1>4, <2>1, AheadTail DEF r
  <2>3. r # <<>>
    <3>1. j + (4 - 1) <= Len(s)
      BY <1>4 DEF Ahead
    <3>2. Len(r) # 0
      BY <1>1, <2>1, <3>1
    <3>. QED  BY <3>2, EmptySeq
  <2>4. CASE j = 1
    <3>1. Reached(d, 1, t)
      BY <1>1, <1>4, <1>r, <2>4, ResetExecuted
    <3>2. j - 1 = 0
      BY <2>4
    <3>. QED  BY <2>2, <2>3, <3>1, <3>2 DEF OnItsWay
  <2>5. CASE j # 1
    <3>1. j - 1 \in 1..Len(r) /\ (j - 1) + 1 = j
      BY <1>1, <2>5
    <3>2. r[j - 1].op = "reset"
      BY <1>1, <1>4, <3>1
    <3>. QED  BY <2>2, <2>3, <3>1, <3>2 DEF OnItsWay
  <2>. QED  BY <2>4, <2>5
<1>5. ASSUME NEW k \in 1..4, Ahead(s, 0, k, t), Reached(c, k, t), k < 4
      PROVE  OnItsWay(r, d, t) /\ (r = <<>> => LastIs(r, d, n, t))
  <2>1. IsSetUp(cmd, k, t) /\ Ahead(r, 0, k + 1, t)
    BY <1>1, <1>5, AheadTail DEF r, cmd
  <2>2. k \in 1..3 /\ k + 1 \in 1..4
    BY <1>5
  <2>3. Reached(d, k + 1, t) /\ (k = 3 => d.sets[t].data = 0)
    BY <1>1, <1>5, <1>o, <2>1, <2>2, SetUpExecuted
  <2>4. OnItsWay(r, d, t)
    BY <2>1, <2>2, <2>3 DEF OnItsWay
  <2>5. ASSUME r = <<>>
        PROVE  LastIs(r, d, n, t)
    <3>1. Len(r) = 0 /\ Len(s) = 1
      BY <1>1, <2>5, EmptySeq
    <3>2. 0 + (4 - k) <= Len(s)
      BY <1>5 DEF Ahead
    <3>3. k = 3
      BY <2>2, <3>1, <3>2
    <3>4. ~IsData(cmd, t)
      BY <2>1, <3>3 DEF IsSetUp, IsData
    <3>5. n = 0
      BY <1>1, <1>2, <3>1, <3>4 DEF LastIs
    <3>. QED  BY <2>3, <2>5, <3>3, <3>5 DEF LastIs
  <2>. QED  BY <2>4, <2>5
<1>6. ASSUME Ahead(s, 0, 4, t), Reached(c, 4, t)
      PROVE  OnItsWay(r, d, t) /\ (r = <<>> => LastIs(r, d, n, t))
  <2>1. IsData(cmd, t) /\ Ahead(r, 0, 4, t)
    <3>1. 0 \in Nat /\ 4 \in 1..4
      OBVIOUS
    <3>. QED  BY <1>1, <1>6, <3>1, AheadTail DEF r, cmd
  <2>2. Reached(d, 4, t) /\ d.sets[t].data = cmd.data
    BY <1>1, <1>6, <1>o, <2>1, DataExecuted
  <2>3. OnItsWay(r, d, t)
    BY <2>1, <2>2 DEF OnItsWay
  <2>4. ASSUME r = <<>>
        PROVE  LastIs(r, d, n, t)
    <3>1. Len(s) = 1
      BY <1>1, <2>4, EmptySeq
    <3>2. cmd.data = n
      BY <1>1, <1>2, <2>1, <3>1 DEF LastIs
    <3>. QED  BY <2>2, <2>4, <3>2 DEF LastIs
  <2>. QED  BY <2>3, <2>4
<1>7. OnItsWay(r, d, t) /\ LastIs(r, d, n, t)
  <2>1. CASE \E j \in 1..Len(s) : s[j].op = "reset" /\ Ahead(s, j, 1, t)
    BY <1>3, <1>4, <2>1
  <2>2. CASE \E k \in 1..4 : Ahead(s, 0, k, t) /\ Reached(c, k, t)
    <3>1. PICK k \in 1..4 : Ahead(s, 0, k, t) /\ Reached(c, k, t)
      BY <2>2
    <3>2. CASE k < 4
      BY <1>3, <1>5, <3>1, <3>2
    <3>3. CASE k = 4
      BY <1>3, <1>6, <3>1, <3>3
    <3>. QED  BY <3>2, <3>3
  <2>. QED  BY <1>2, <2>1, <2>2 DEF OnItsWay
<1>. QED  BY <1>7 DEF Behind, r, d, cmd

\* The message is sent behind the commands before it.
LEMMA BehindSends ==
  ASSUME NEW s \in Scripts, NEW e \in ProperCommands, NEW c, NEW n, NEW t,
         OnItsWay(s, c, t), IsData(e, t), e.data = n
  PROVE  Behind(Append(s, e), c, n, t)
<1>. DEFINE r == Append(s, e)
<1>1. /\ s \in Seq(ProperCommands) /\ r \in Seq(ProperCommands) /\ Len(r) = Len(s) + 1
      /\ r[Len(s) + 1] = e /\ Len(s) \in Nat /\ \A i \in 1..Len(s) : r[i] = s[i]
  BY DEF Scripts
<1>2. \A j \in Nat, k \in 1..4 : Ahead(s, j, k, t) => Ahead(r, j, k, t)
  BY <1>1, AheadAppend
<1>. HIDE DEF r
<1>3. OnItsWay(r, c, t)
  <2>1. CASE \E j \in 1..Len(s) : s[j].op = "reset" /\ Ahead(s, j, 1, t)
    <3>1. PICK j \in 1..Len(s) : s[j].op = "reset" /\ Ahead(s, j, 1, t)
      BY <2>1
    <3>2. j \in 1..Len(r) /\ j \in Nat /\ 1 \in 1..4 /\ r[j] = s[j]
      BY <1>1
    <3>. QED  BY <1>2, <3>1, <3>2 DEF OnItsWay
  <2>2. CASE \E k \in 1..4 : Ahead(s, 0, k, t) /\ Reached(c, k, t)
    <3>1. 0 \in Nat
      OBVIOUS
    <3>. QED  BY <1>2, <2>2, <3>1 DEF OnItsWay
  <2>. QED  BY <2>1, <2>2 DEF OnItsWay
<1>4. LastIs(r, c, n, t)
  <2>1. r # <<>> /\ r[Len(r)] = e
    BY <1>1, EmptySeq
  <2>. QED  BY <2>1 DEF LastIs
<1>. QED  BY <1>3, <1>4 DEF Behind, r

LEMMA OneSetMeans ==
  ASSUME OneSet, NEW cfg \in Configs
  PROVE  \E t \in Transports : cfg = {t}
BY DEF OneSet, Transports

LEMMA AirStarts ==
  ASSUME OneSet, Init
  PROVE  AirInv
<1>1. config \in Configs /\ todo = InitBluetooth(config) /\ commands = <<>> /\ ~reading /\ sent = 0
      /\ stage = "init"
  BY DEF Init
<1>2. PICK t \in Transports : config = {t}
  BY <1>1, OneSetMeans
<1>3. <<>> \in Scripts
  BY DEF Scripts
<1>4. Pending = <<>> \o InitBluetooth({t})
  BY <1>1, <1>2 DEF Pending
<1>5. Behind(Pending, controller, 0, t)
  BY <1>3, <1>4, InitBehind DEF Behind
<1>. QED  BY <1>1, <1>2, <1>5 DEF AirInv

LEMMA AirStep ==
  ASSUME OneSet, StepInv, SilenceInv, BudgetInv, AirInv, [Next]_vars
  PROVE  AirInv'
<1>0. /\ FlagsOK /\ QueuesOK /\ commands \in Scripts /\ todo \in Scripts /\ controller \in Controllers
  BY StepInvParts DEF SilenceInv
<1>a. PICK t \in Transports : config = {t}
  BY DEF AirInv
<1>b. /\ stage \in {"init", "idle", "sending"} => Behind(Pending, controller, sent, t)
      /\ stage = "sending" => \A i \in 1..Len(todo) : IsData(todo[i], t)
  BY <1>a DEF AirInv
<1>s. ASSUME config' = config,
             stage' \in {"init", "idle", "sending"} => Behind(Pending, controller, sent, t)',
             stage' = "sending" => \A i \in 1..Len(todo') : IsData(todo'[i], t)
      PROVE  AirInv'
  BY <1>a, <1>s DEF AirInv
<1>k. ASSUME UNCHANGED <<controller, sent>>, Pending' = Pending, Behind(Pending, controller, sent, t)
      PROVE  Behind(Pending, controller, sent, t)'
  BY <1>k DEF Behind, OnItsWay, LastIs, Ahead, Reached
<1>1. CASE HostSend
  <2>1. Pending' = Pending
    BY <1>0, <1>1, PendingKept
  <2>2. UNCHANGED <<config, stage, todo, controller, sent>>
    BY <1>1 DEF HostSend
  <2>. QED  BY <1>b, <1>k, <1>s, <2>1, <2>2
<1>2. CASE HostRead \/ HostReadFails
  <2>1. Pending' = Pending
    BY <1>0, <1>2, PendingKept
  <2>2. /\ UNCHANGED <<config, controller, sent>> /\ reading /\ todo # <<>> /\ todo' = Tail(todo)
        /\ stage' = IF Len(todo) > 1 THEN stage ELSE IF stage = "closing" THEN "closed" ELSE "idle"
    BY <1>0, <1>2 DEF HostRead, HostReadFails, Return, FlagsOK
  <2>3. stage \in {"init", "idle", "sending"} => Behind(Pending, controller, sent, t)'
    BY <1>b, <1>k, <2>1, <2>2
  <2>4. stage' \in {"init", "idle", "sending"} => stage \in {"init", "idle", "sending"}
    <3>1. stage \in {"init", "idle", "sending", "closing"}
      BY <1>0, <2>2 DEF FlagsOK, BudgetInv
    <3>. QED  BY <2>2, <3>1
  <2>5. ASSUME stage' = "sending"
        PROVE  \A i \in 1..Len(todo') : IsData(todo'[i], t)
    <3>1. \A i \in 1..Len(todo) : IsData(todo[i], t)
      BY <1>b, <2>2, <2>5
    <3>2. Len(todo') = Len(todo) - 1 /\ Len(todo) \in Nat /\ \A i \in 1..Len(todo') : todo'[i] = todo[i + 1]
      BY <1>0, <2>2 DEF Scripts
    <3>3. \A i \in 1..Len(todo') : i + 1 \in 1..Len(todo)
      BY <3>2
    <3>. QED  BY <3>1, <3>2, <3>3
  <2>. QED  BY <1>s, <2>2, <2>3, <2>4, <2>5
<1>3. CASE HostTransmit
  <2>1. /\ stage = "idle" /\ stage' = "sending" /\ sent' \in 0..MaxMessages /\ sent' = sent + 1
        /\ todo' = SendMessage(config, sent') /\ UNCHANGED <<config, controller, commands, reading>>
    BY <1>0, <1>3, HciAssumption DEF HostTransmit, QueuesOK
  <2>2. ~reading /\ todo = <<>>
    BY <1>0, <2>1 DEF FlagsOK
  <2>3. PICK e \in ProperCommands : todo' = <<e>> /\ IsData(e, t) /\ e.data = sent'
    BY <1>a, <2>1, SendScript
  <2>4. Pending = commands /\ Pending' = Append(commands, e)
    <3>1. commands \in Seq(ProperCommands)
      BY <1>0 DEF Scripts
    <3>2. commands \o <<>> = commands
      BY <3>1, Empty
    <3>3. Pending = commands \o <<>>
      BY <2>2 DEF Pending
    <3>4. Pending' = commands \o <<e>>
      BY <2>1, <2>2, <2>3 DEF Pending
    <3>5. commands \o <<e>> = Append(commands, e)
      BY <3>1
    <3>. QED  BY <3>2, <3>3, <3>4, <3>5
  <2>5. OnItsWay(commands, controller, t)
    BY <1>b, <2>1, <2>4 DEF Behind
  <2>6. Behind(Append(commands, e), controller, sent', t)
    BY <1>0, <2>3, <2>5, BehindSends
  <2>7. Behind(Pending, controller, sent, t)'
    BY <2>1, <2>4, <2>6 DEF Behind, OnItsWay, LastIs, Ahead, Reached
  <2>8. \A i \in 1..Len(todo') : IsData(todo'[i], t)
    BY <2>3
  <2>. QED  BY <1>s, <2>1, <2>7, <2>8
<1>4. CASE HostClose \/ HostSendFails \/ HostKilled
  <2>1. stage' \in {"closing", "exited"} /\ config' = config
    BY <1>4 DEF HostClose, HostSendFails, HostKilled
  <2>. QED  BY <1>s, <2>1
<1>5. CASE ControllerExecutes
  <2>1. /\ Pending \in Scripts /\ Pending # <<>> /\ Head(Pending) = Head(commands)
        /\ Pending' = Tail(Pending)
    BY <1>0, <1>5, PendingExecuted
  <2>2. PICK read \in Readings(Head(commands)) :
          /\ controller' = Execute(controller, read)
          /\ UNCHANGED <<config, stage, todo, sent>>
    BY <1>5 DEF ControllerExecutes, hostVars
  <2>3. ASSUME stage \in {"init", "idle", "sending"}
        PROVE  Behind(Pending, controller, sent, t)'
    <3>1. Behind(Tail(Pending), Execute(controller, read), sent, t)
      BY <1>0, <1>b, <2>1, <2>3, BehindExecuted
    <3>2. Behind(Pending', controller', sent', t)
      BY <2>1, <2>2, <3>1
    <3>. QED  BY <3>2 DEF Behind, OnItsWay, LastIs, Ahead, Reached
  <2>. QED  BY <1>b, <1>s, <2>2, <2>3
<1>6. CASE StrayEvent \/ Ended \/ UNCHANGED vars
  <2>1. UNCHANGED <<config, stage, todo, sent, reading, commands, controller>>
    BY <1>6 DEF StrayEvent, Ended, vars, hostVars
  <2>2. Pending' = Pending
    BY <2>1 DEF Pending
  <2>. QED  BY <1>b, <1>k, <1>s, <2>1, <2>2
<1>7. CASE HostRestart
  <2>1. /\ stage' = "init" /\ config' \in Configs /\ todo' = InitBluetooth(config') /\ sent' = 0
        /\ stage \in {"closed", "exited"} /\ UNCHANGED <<reading, commands, controller>>
    BY <1>7 DEF HostRestart
  <2>2. ~reading
    BY <1>0, <2>1 DEF FlagsOK
  <2>3. PICK u \in Transports : config' = {u}
    BY <2>1, OneSetMeans
  <2>4. Pending' = commands \o InitBluetooth({u})
    BY <2>1, <2>2, <2>3 DEF Pending
  <2>5. Behind(Pending', controller', 0, u)
    BY <1>0, <2>4, InitBehind DEF Behind
  <2>6. Behind(Pending, controller, sent, u)'
    BY <2>1, <2>5 DEF Behind, OnItsWay, LastIs, Ahead, Reached
  <2>. QED  BY <2>1, <2>3, <2>6 DEF AirInv
<1>. QED  BY <1>1, <1>2, <1>3, <1>4, <1>5, <1>6, <1>7 DEF Next, HostStep, HostFault

\* Only data are left, or nothing: the set-up is done.
LEMMA OnlyData ==
  ASSUME NEW c, NEW s \in Scripts, NEW n, NEW t \in Transports, Behind(s, c, n, t),
         \A i \in 1..Len(s) : IsData(s[i], t)
  PROVE  Reached(c, 4, t)
<1>1. ~ \E j \in 1..Len(s) : s[j].op = "reset" /\ Ahead(s, j, 1, t)
  BY DEF IsData
<1>2. PICK k \in 1..4 : Ahead(s, 0, k, t) /\ Reached(c, k, t)
  BY <1>1 DEF Behind, OnItsWay
<1>3. ASSUME k < 4
      PROVE  FALSE
  <2>1. 0 + (4 - k) <= Len(s) /\ \A i \in k..3 : IsSetUp(s[0 + i + 1 - k], i, t)
    BY <1>2 DEF Ahead
  <2>2. 0 + k + 1 - k = 1 /\ k \in k..3 /\ 1 \in 1..Len(s) /\ k \in 1..3
    BY <1>3, <2>1 DEF Scripts
  <2>3. IsSetUp(s[1], k, t) /\ IsData(s[1], t)
    BY <2>1, <2>2
  <2>4. k = 1 \/ k = 2 \/ k = 3
    BY <2>2
  <2>5. s[1].op \in {"parameters", "ext parameters", "address", "set address", "enable", "ext enable"}
    BY <2>3, <2>4 DEF IsSetUp
  <2>6. s[1].op \in {"data", "ext data"}
    BY <2>3 DEF IsData
  <2>. QED  BY <2>5, <2>6
<1>4. k = 4
  BY <1>3
<1>. QED  BY <1>2, <1>4

LEMMA AirSafe ==
  ASSUME StepInv, SilenceInv, AirInv
  PROVE  OnAirAsConfigured /\ BroadcastsLast
<1>. USE StepInvParts
<1>0. FlagsOK /\ todo \in Scripts
  BY DEF SilenceInv
<1>1. PICK t \in Transports : config = {t}
  BY DEF AirInv
<1>2. ASSUME stage \in {"idle", "sending"}, commands = <<>>
      PROVE  OnAir = config /\ (stage = "idle" => controller.sets[t].data = sent)
  <2>. DEFINE rest == IF reading THEN Tail(todo) ELSE todo
  <2>1. rest \in Scripts
    BY <1>0, TailFacts DEF FlagsOK, Scripts
  <2>2. Pending = rest
    <3>1. rest \in Seq(ProperCommands)
      BY <2>1 DEF Scripts
    <3>2. <<>> \o rest = rest
      <4>. HIDE DEF rest
      <4>. QED  BY <3>1, Empty
    <3>. QED  BY <1>2, <3>2 DEF Pending
  <2>3. \A i \in 1..Len(rest) : IsData(rest[i], t)
    <3>1. CASE stage = "idle"
      <4>1. rest = <<>>
        BY <1>0, <3>1 DEF FlagsOK
      <4>. HIDE DEF rest
      <4>. QED  BY <4>1
    <3>2. CASE stage = "sending"
      <4>1. \A i \in 1..Len(todo) : IsData(todo[i], t)
        BY <1>1, <3>2 DEF AirInv
      <4>2. CASE reading
        <5>1. todo # <<>> /\ rest = Tail(todo) /\ todo \in Seq(ProperCommands)
          BY <1>0, <4>2 DEF FlagsOK, Scripts
        <5>. HIDE DEF rest
        <5>2. Len(rest) = Len(todo) - 1 /\ Len(todo) \in Nat /\ \A i \in 1..Len(rest) : rest[i] = todo[i + 1]
          BY <5>1
        <5>3. \A i \in 1..Len(rest) : i + 1 \in 1..Len(todo)
          BY <5>2
        <5>. QED  BY <4>1, <5>2, <5>3
      <4>3. CASE ~reading
        BY <4>1, <4>3
      <4>. QED  BY <4>2, <4>3
    <3>. QED  BY <1>2, <3>1, <3>2
  <2>4. Behind(Pending, controller, sent, t)
    BY <1>1, <1>2 DEF AirInv
  <2>. HIDE DEF rest
  <2>5. Reached(controller, 4, t)
    BY <2>1, <2>2, <2>3, <2>4, OnlyData
  <2>6. OnAir = {t}
    BY <2>5 DEF Reached, OnAir
  <2>7. ASSUME stage = "idle"
        PROVE  controller.sets[t].data = sent
    <3>1. rest = <<>>
      BY <1>0, <2>7 DEF FlagsOK, rest
    <3>2. LastIs(<<>>, controller, sent, t)
      BY <2>2, <2>4, <3>1 DEF Behind
    <3>. QED  BY <3>2 DEF LastIs
  <2>. QED  BY <1>1, <2>6, <2>7
<1>. QED  BY <1>1, <1>2 DEF OnAirAsConfigured, BroadcastsLast, InStep

\* Once the controller has caught up the transport asked for is on air, and no
\* other one: wherever earlier runs were killed, whatever they broadcast, and
\* whether or not the controller lets the two interfaces be mixed.
THEOREM ConfiguredOnAir == OneSet => (Spec => []OnAirAsConfigured)
<1>. SUFFICES ASSUME OneSet PROVE Spec => []OnAirAsConfigured
  OBVIOUS
<1>1. Init => SilenceInv /\ BudgetInv /\ AirInv
  <2>1. Init => BudgetInv
    BY HciAssumption DEF Init, BudgetInv, Running
  <2>. QED  BY <2>1, SilenceStarts, AirStarts
<1>2. ConfigOK /\ StepInv /\ SilenceInv /\ BudgetInv /\ AirInv /\ [Next]_vars
        => SilenceInv' /\ BudgetInv' /\ AirInv'
  BY SilenceStep, BudgetStep, AirStep
<1>3. StepInv /\ SilenceInv /\ AirInv => OnAirAsConfigured
  BY AirSafe
<1>. QED  BY InitStep, NextStep, <1>1, <1>2, <1>3, PTL DEF Spec

\* What it then broadcasts is the message sent last, whatever events strayed and
\* whichever reads failed.
THEOREM LastMessageOnAir == OneSet => (Spec => []BroadcastsLast)
<1>. SUFFICES ASSUME OneSet PROVE Spec => []BroadcastsLast
  OBVIOUS
<1>1. Init => SilenceInv /\ BudgetInv /\ AirInv
  <2>1. Init => BudgetInv
    BY HciAssumption DEF Init, BudgetInv, Running
  <2>. QED  BY <2>1, SilenceStarts, AirStarts
<1>2. ConfigOK /\ StepInv /\ SilenceInv /\ BudgetInv /\ AirInv /\ [Next]_vars
        => SilenceInv' /\ BudgetInv' /\ AirInv'
  BY SilenceStep, BudgetStep, AirStep
<1>3. StepInv /\ SilenceInv /\ AirInv => BroadcastsLast
  BY AirSafe
<1>. QED  BY InitStep, NextStep, <1>1, <1>2, <1>3, PTL DEF Spec

----------------------------------------------------------------------------
(* Any transports: a set is made right behind a reset, where it is alone *)

Makes(cmd) == cmd.op \in {"parameters", "ext parameters"}

\* The functions make one set at a time, each behind a reset of its own.
Careful == {s \in Scripts : \A i \in 1..Len(s) : Makes(s[i]) =>
              /\ \E t \in Transports : s[i].sets = {t}
              /\ i > 1 /\ s[i - 1].op = "reset"}

Restarting == {s \in Careful : Len(s) > 0 /\ s[1].op = "reset"}

LEMMA ScriptsJoined ==
  ASSUME NEW s \in Scripts, NEW t \in Scripts
  PROVE  /\ s \o t \in Scripts /\ Len(s) \in Nat /\ Len(t) \in Nat /\ Len(s \o t) = Len(s) + Len(t)
         /\ \A i \in 1..Len(s) : (s \o t)[i] = s[i]
         /\ \A i \in (Len(s) + 1)..(Len(s) + Len(t)) : i - Len(s) \in 1..Len(t) /\ (s \o t)[i] = t[i - Len(s)]
<1>. DEFINE r == s \o t
<1>1. s \in Seq(ProperCommands) /\ t \in Seq(ProperCommands)
  BY DEF Scripts
<1>2. /\ Len(r) = Len(s) + Len(t)
      /\ \A i \in 1..(Len(s) + Len(t)) : r[i] = IF i <= Len(s) THEN s[i] ELSE t[i - Len(s)]
  BY <1>1, ConcatProperties, Zenon
<1>3. Len(s) \in Nat /\ Len(t) \in Nat
  BY <1>1
<1>4. r \in Scripts
  BY Joined
<1>. HIDE DEF r
<1>5. \A i \in 1..Len(s) : r[i] = s[i]
  BY <1>2, <1>3
<1>6. \A i \in (Len(s) + 1)..(Len(s) + Len(t)) : i - Len(s) \in 1..Len(t) /\ r[i] = t[i - Len(s)]
  BY <1>2, <1>3
<1>. QED  BY <1>2, <1>3, <1>4, <1>5, <1>6 DEF r

LEMMA CarefulJoined ==
  ASSUME NEW s \in Careful, NEW t \in Careful
  PROVE  s \o t \in Careful /\ (s \in Restarting => s \o t \in Restarting)
<1>. DEFINE r == s \o t
<1>1. s \in Scripts /\ t \in Scripts
  BY DEF Careful
<1>2. /\ r \in Scripts /\ Len(s) \in Nat /\ Len(t) \in Nat /\ Len(r) = Len(s) + Len(t)
      /\ \A i \in 1..Len(s) : r[i] = s[i]
      /\ \A i \in (Len(s) + 1)..(Len(s) + Len(t)) : i - Len(s) \in 1..Len(t) /\ r[i] = t[i - Len(s)]
  BY <1>1, ScriptsJoined
<1>. HIDE DEF r
<1>3. ASSUME NEW i \in 1..Len(r), Makes(r[i])
      PROVE  (\E u \in Transports : r[i].sets = {u}) /\ i > 1 /\ r[i - 1].op = "reset"
  <2>1. CASE i <= Len(s)
    <3>1. i \in 1..Len(s) /\ r[i] = s[i]
      BY <1>2, <2>1
    <3>2. (\E u \in Transports : s[i].sets = {u}) /\ i > 1 /\ s[i - 1].op = "reset"
      BY <1>3, <3>1 DEF Careful
    <3>3. i - 1 \in 1..Len(s)
      BY <1>2, <3>1, <3>2
    <3>. QED  BY <1>2, <3>1, <3>2, <3>3
  <2>2. CASE ~(i <= Len(s))
    <3>. DEFINE j == i - Len(s)
    <3>1. i \in (Len(s) + 1)..(Len(s) + Len(t))
      BY <1>2, <2>2
    <3>2. j \in 1..Len(t) /\ r[i] = t[j]
      BY <1>2, <3>1
    <3>. HIDE DEF j
    <3>3. (\E u \in Transports : t[j].sets = {u}) /\ j > 1 /\ t[j - 1].op = "reset"
      BY <1>3, <3>2 DEF Careful
    <3>4. i > 1 /\ i - 1 \in (Len(s) + 1)..(Len(s) + Len(t)) /\ (i - 1) - Len(s) = j - 1
      BY <1>2, <3>1, <3>3 DEF j
    <3>5. r[i - 1] = t[j - 1]
      BY <1>2, <3>4
    <3>. QED  BY <3>2, <3>3, <3>4, <3>5
  <2>. QED  BY <2>1, <2>2
<1>4. r \in Careful
  BY <1>2, <1>3 DEF Careful
<1>5. ASSUME s \in Restarting
      PROVE  r \in Restarting
  <2>1. Len(s) > 0 /\ s[1].op = "reset" /\ 1 \in 1..Len(s)
    BY <1>2, <1>5 DEF Restarting
  <2>2. Len(r) > 0 /\ r[1] = s[1]
    BY <1>2, <2>1
  <2>. QED  BY <1>4, <2>1, <2>2 DEF Restarting
<1>. QED  BY <1>4, <1>5 DEF r

\* One command, and a set-up behind its reset.
LEMMA OneIsCareful ==
  ASSUME NEW c \in ProperCommands, ~Makes(c)
  PROVE  /\ <<c>> \in Careful
         /\ c.op = "reset" => <<c>> \in Restarting
<1>1. <<c>> \in Scripts
  BY OneOf DEF Scripts
<1>2. Len(<<c>>) = 1 /\ <<c>>[1] = c
  OBVIOUS
<1>3. \A i \in 1..Len(<<c>>) : i = 1
  BY <1>2
<1>4. <<c>> \in Careful
  BY <1>1, <1>2, <1>3 DEF Careful
<1>5. c.op = "reset" => <<c>> \in Restarting
  BY <1>2, <1>4 DEF Restarting
<1>. QED  BY <1>4, <1>5

LEMMA ResetIsCareful ==
  /\ Reset \in Restarting /\ Reset \in Careful
  /\ Reset \in Seq(ProperCommands) /\ Len(Reset) = 1 /\ Reset[1].op = "reset"
<1>. DEFINE c == Command("reset", {}, 0)
<1>1. "reset" \in Ops /\ {} \in SUBSET Transports /\ 0 \in 0..MaxMessages
  BY HciAssumption DEF Ops
<1>2. c \in ProperCommands
  BY <1>1 DEF Command, CommandSet, ProperCommands, Proper
<1>3. c.op = "reset" /\ Reset = <<c>>
  BY DEF Command, Reset
<1>. HIDE DEF c
<1>4. ~Makes(c)
  BY <1>3 DEF Makes
<1>5. <<c>> \in Restarting /\ <<c>> \in Careful
  BY <1>2, <1>3, <1>4, OneIsCareful
<1>6. <<c>> \in Seq(ProperCommands) /\ Len(<<c>>) = 1 /\ <<c>>[1] = c
  BY <1>2
<1>. QED  BY <1>3, <1>5, <1>6

LEMMA SetUpIsCareful ==
  ASSUME NEW t \in Transports, NEW p \in ProperCommands, NEW a \in ProperCommands,
         IsSetUp(p, 1, t), IsSetUp(a, 2, t)
  PROVE  Reset \o <<p, a>> \in Careful
<1>. DEFINE g == <<p, a>>  r == Reset \o g
<1>1. g \in Seq(ProperCommands) /\ Len(g) = 2 /\ g[1] = p /\ g[2] = a
  BY TwoOf
<1>. HIDE DEF g
<1>2. r \in Seq(ProperCommands) /\ Len(r) = 3 /\ r[1] = Reset[1] /\ r[2] = g[1] /\ r[3] = g[2]
  BY <1>1, OneAndTwo, ResetIsCareful
<1>. HIDE DEF r
<1>3. r \in Scripts /\ r[1].op = "reset" /\ r[2] = p /\ r[3] = a
  BY <1>1, <1>2, ResetIsCareful DEF Scripts
<1>4. /\ p.sets = {t} /\ p.op \in {"parameters", "ext parameters"}
      /\ a.op \in {"address", "set address"}
  BY DEF IsSetUp
<1>5. ASSUME NEW i \in 1..Len(r)
      PROVE  Makes(r[i]) => (\E u \in Transports : r[i].sets = {u}) /\ i > 1 /\ r[i - 1].op = "reset"
  <2>1. i = 1 \/ i = 2 \/ i = 3
    BY <1>2
  <2>2. CASE i = 1
    BY <1>3, <2>2 DEF Makes
  <2>3. CASE i = 2
    <3>1. i > 1 /\ i - 1 = 1
      BY <2>3
    <3>2. r[i].sets = {t} /\ r[i - 1].op = "reset"
      BY <1>3, <1>4, <2>3, <3>1
    <3>. QED  BY <3>1, <3>2
  <2>4. CASE i = 3
    BY <1>3, <1>4, <2>4 DEF Makes
  <2>. QED  BY <2>1, <2>2, <2>3, <2>4
<1>6. r \in Careful
  BY <1>3, <1>5 DEF Careful
<1>. QED  BY <1>6 DEF r, g

LEMMA NothingIsCareful == <<>> \in Careful
<1>1. <<>> \in Scripts /\ Len(<<>>) = 0
  BY DEF Scripts
<1>2. \A i \in 1..Len(<<>>) : FALSE
  BY <1>1
<1>. QED  BY <1>1, <1>2 DEF Careful

LEMMA StopIsCareful == StopTransmit \in Careful
<1>1. Len(StopTransmit) = 4 /\ \A i \in 1..4 : StopTransmit[i].op \in {"disable", "ext disable", "remove"}
  <2>1. /\ Len(StopTransmit) = 4
        /\ StopTransmit[1].op = "disable" /\ StopTransmit[2].op = "ext disable"
        /\ StopTransmit[3].op = "remove" /\ StopTransmit[4].op = "remove"
    BY DEF StopTransmit, Command
  <2>2. \A i \in 1..4 : i = 1 \/ i = 2 \/ i = 3 \/ i = 4
    OBVIOUS
  <2>. QED  BY <2>1, <2>2
<1>2. \A i \in 1..Len(StopTransmit) : ~Makes(StopTransmit[i])
  BY <1>1 DEF Makes
<1>. QED  BY <1>2, StopTransmitType DEF Careful

LEMMA CarefulWhen ==
  ASSUME NEW b, NEW s
  PROVE  s \in Careful => When(b, s) \in Careful
<1>1. CASE b
  BY <1>1 DEF When
<1>2. CASE ~b
  BY <1>2, NothingIsCareful DEF When
<1>. QED  BY <1>1, <1>2

\* init_bluetooth, whatever the transports in use.
LEMMA InitIsCareful ==
  ASSUME NEW cfg \in SUBSET Transports
  PROVE  InitBluetooth(cfg) \in Restarting
<1>. DEFINE feat == Command("features", {}, 0)  en == Command("enable", {"btl"}, 0)
            exen == Command("ext enable", cfg \cap Extended, 0)
<1>0. {"btl"} \in SUBSET Transports /\ {} \in SUBSET Transports /\ cfg \cap Extended \in SUBSET Transports
  BY DEF Transports
<1>1. feat \in ProperCommands /\ en \in ProperCommands /\ exen \in ProperCommands
  <2>1. 0 \in 0..MaxMessages
    BY HciAssumption
  <2>2. {"features", "enable", "ext enable"} \subseteq Ops
    BY DEF Ops, LegacyOps, ExtendedOps
  <2>. QED  BY <1>0, <2>1, <2>2 DEF Command, CommandSet, ProperCommands, Proper
<1>2. /\ feat.op = "features" /\ en.op = "enable" /\ exen.op = "ext enable"
      /\ ReadFeatures = <<feat>> /\ EnableExtended(cfg) = <<exen>>
  BY DEF Command, ReadFeatures, EnableExtended
<1>. HIDE DEF feat, en, exen
<1>3. ~Makes(feat) /\ ~Makes(en) /\ ~Makes(exen)
  BY <1>2 DEF Makes
<1>4. ReadFeatures \in Careful /\ <<en>> \in Careful /\ EnableExtended(cfg) \in Careful
  BY <1>1, <1>2, <1>3, OneIsCareful
<1>5. Reset \o LegacySetUp \in Careful
  <2>. DEFINE p == Command("parameters", {"btl"}, 0)  a == Command("address", {"btl"}, 0)
  <2>0. "btl" \in Transports /\ {"btl"} \in SUBSET Transports /\ 0 \in 0..MaxMessages
    BY HciAssumption DEF Transports
  <2>1. p \in ProperCommands /\ a \in ProperCommands
    BY <2>0 DEF Command, CommandSet, ProperCommands, Proper, Ops, LegacyOps
  <2>2. IsSetUp(p, 1, "btl") /\ IsSetUp(a, 2, "btl")
    BY DEF Command, IsSetUp
  <2>3. LegacySetUp = <<p, a>>
    BY DEF LegacySetUp
  <2>. HIDE DEF p, a
  <2>. QED  BY <2>0, <2>1, <2>2, <2>3, SetUpIsCareful
<1>6. ASSUME NEW t \in Extended
      PROVE  Reset \o ExtendedSetUp(t) \in Careful
  <2>. DEFINE p == Command("ext parameters", {t}, 0)  a == Command("set address", {t}, 0)
  <2>0. t \in Transports /\ t # "btl" /\ {t} \in SUBSET Transports /\ 0 \in 0..MaxMessages
    BY HciAssumption DEF Extended, Transports
  <2>1. p \in ProperCommands /\ a \in ProperCommands
    BY <2>0 DEF Command, CommandSet, ProperCommands, Proper, Ops, ExtendedOps
  <2>2. IsSetUp(p, 1, t) /\ IsSetUp(a, 2, t)
    BY <2>0 DEF Command, IsSetUp
  <2>3. ExtendedSetUp(t) = <<p, a>>
    BY DEF ExtendedSetUp
  <2>. HIDE DEF p, a
  <2>. QED  BY <2>0, <2>1, <2>2, <2>3, SetUpIsCareful
<1>7. /\ Reset \o ExtendedSetUp("bt4") \in Careful
      /\ Reset \o ExtendedSetUp("bt5") \in Careful
  BY <1>6 DEF Extended
<1>. DEFINE a == When("btl" \in cfg, Reset \o LegacySetUp)
            b == When("bt4" \in cfg, Reset \o ExtendedSetUp("bt4"))
            c == When("bt5" \in cfg, Reset \o ExtendedSetUp("bt5"))
            d == When("btl" \in cfg, <<en>>)
            e == When("bt4" \in cfg, EnableExtended(cfg))
            f == When("bt5" \in cfg, EnableExtended(cfg))
<1>8. /\ a \in Careful /\ b \in Careful /\ c \in Careful
      /\ d \in Careful /\ e \in Careful /\ f \in Careful
  BY <1>4, <1>5, <1>7, CarefulWhen
<1>9. InitBluetooth(cfg) = Reset \o StopTransmit \o ReadFeatures \o a \o b \o c \o d \o e \o f
  BY DEF InitBluetooth, en
<1>. HIDE DEF a, b, c, d, e, f
<1>10. \A x \in Restarting, y \in Careful : x \o y \in Restarting
  BY CarefulJoined DEF Restarting
<1>11. Reset \o StopTransmit \o ReadFeatures \o a \o b \o c \o d \o e \o f \in Restarting
  BY <1>4, <1>8, <1>10, StopIsCareful, ResetIsCareful, Zenon
<1>. QED  BY <1>9, <1>11

\* A message makes no set.
LEMMA SendIsCareful ==
  ASSUME NEW cfg \in SUBSET Transports, NEW n \in 0..MaxMessages
  PROVE  SendMessage(cfg, n) \in Careful
<1>. DEFINE x == Command("data", {"btl"}, n)  y == Command("ext data", {"bt4"}, n)
            z == Command("ext data", {"bt5"}, n)
            a == When("btl" \in cfg, <<x>>)  b == When("bt4" \in cfg, <<y>>)  c == When("bt5" \in cfg, <<z>>)
<1>0. x \in ProperCommands /\ y \in ProperCommands /\ z \in ProperCommands
  BY DEF Command, CommandSet, ProperCommands, Proper, Transports, Ops, LegacyOps, ExtendedOps
<1>x. x.op = "data" /\ y.op = "ext data" /\ z.op = "ext data"
  BY DEF Command
<1>2. SendMessage(cfg, n) = a \o b \o c
  BY DEF SendMessage
<1>. HIDE DEF x, y, z
<1>y. ~Makes(x) /\ ~Makes(y) /\ ~Makes(z)
  BY <1>x DEF Makes
<1>1. a \in Careful /\ b \in Careful /\ c \in Careful
  BY <1>0, <1>x, <1>y, OneIsCareful, CarefulWhen
<1>. HIDE DEF a, b, c
<1>3. a \o b \o c \in Careful
  <2>1. \A s, u \in Careful : s \o u \in Careful
    BY CarefulJoined
  <2>. QED  BY <1>1, <2>1
<1>. QED  BY <1>2, <1>3

\* The set of at most one transport is made, and only a set that is made is on air.
OneMade(c) ==
  /\ \A t, u \in Transports : c.sets[t].made /\ c.sets[u].made => t = u
  /\ \A t \in Transports : c.sets[t].on => c.sets[t].made

NoneMade(c) == \A t \in Transports : ~c.sets[t].made

\* Among what is pending a set is made right behind a reset, or next and on a
\* controller where there is none.
Fresh(s, c) == \A i \in 1..Len(s) : Makes(s[i]) =>
  /\ \E t \in Transports : s[i].sets = {t}
  /\ i = 1 => NoneMade(c)
  /\ i > 1 => s[i - 1].op = "reset"

MadeInv == OneMade(controller) /\ Fresh(Pending, controller)

\* One command on one set.
LEMMA ExecuteMade ==
  ASSUME NEW c \in Controllers, NEW cmd \in CommandSet, NEW t \in Transports
  PROVE  LET d == Execute(c, cmd) IN
         /\ cmd.op = "reset" => ~d.sets[t].made
         /\ d.sets[t].made => c.sets[t].made \/ (Makes(cmd) /\ t \in cmd.sets)
         /\ (c.sets[t].on => c.sets[t].made) => (d.sets[t].on => d.sets[t].made)
<1>. DEFINE d == Execute(c, cmd)
<1>0. c.sets[t] \in [made : BOOLEAN, addressed : BOOLEAN, on : BOOLEAN, data : 0..MaxMessages]
  BY DEF Controllers
<1>1. CASE cmd.op = "reset"
  <2>1. d = ResetController
    BY <1>1 DEF Execute
  <2>2. ~d.sets[t].made /\ ~d.sets[t].on
    BY <2>1 DEF ResetController, NoSet
  <2>. QED  BY <2>2
<1>2. CASE cmd.op # "reset" /\ (Mixes(c, cmd) \/ ~Accepts(c, cmd))
  <2>1. d = c
    BY <1>2 DEF Execute
  <2>. HIDE DEF d
  <2>2. LET e == d IN
         /\ cmd.op = "reset" => ~e.sets[t].made
         /\ e.sets[t].made => c.sets[t].made \/ (Makes(cmd) /\ t \in cmd.sets)
         /\ (c.sets[t].on => c.sets[t].made) => (e.sets[t].on => e.sets[t].made)
    BY <1>2, <2>1
  <2>. QED  BY <2>2 DEF d
<1>3. CASE cmd.op # "reset" /\ ~Mixes(c, cmd) /\ Accepts(c, cmd)
  <2>1. d = [api  |-> IF c.api = "any" THEN Api(cmd.op) ELSE c.api,
             sets |-> [u \in Transports |-> IF u \in cmd.sets THEN Effect(c.sets[u], cmd) ELSE c.sets[u]]]
    BY <1>3 DEF Execute
  <2>2. d.sets[t] = IF t \in cmd.sets THEN Effect(c.sets[t], cmd) ELSE c.sets[t]
    BY <2>1
  <2>. HIDE DEF d
  <2>3. /\ Effect(c.sets[t], cmd).made => c.sets[t].made \/ Makes(cmd)
        /\ Effect(c.sets[t], cmd).on => c.sets[t].on \/ cmd.op \in {"enable", "ext enable"}
        /\ c.sets[t].made => Effect(c.sets[t], cmd).made \/ ~Effect(c.sets[t], cmd).on
    BY <1>0 DEF Effect, NoSet, Makes
  <2>4. cmd.op \in {"enable", "ext enable"} =>
          (t \in cmd.sets => Effect(c.sets[t], cmd).made)
    BY <1>0, <1>3 DEF Effect, Accepts
  <2>5. d.sets[t].made => c.sets[t].made \/ (Makes(cmd) /\ t \in cmd.sets)
    BY <2>2, <2>3
  <2>6. (c.sets[t].on => c.sets[t].made) => (d.sets[t].on => d.sets[t].made)
    BY <2>2, <2>3, <2>4
  <2>. QED  BY <1>3, <2>5, <2>6 DEF d
<1>. QED  BY <1>1, <1>2, <1>3

\* One command of the pending ones executed.
LEMMA MadeExecuted ==
  ASSUME NEW c \in Controllers, NEW s \in Scripts, s # <<>>, OneMade(c), Fresh(s, c),
         NEW read \in Readings(Head(s))
  PROVE  OneMade(Execute(c, read)) /\ Fresh(Tail(s), Execute(c, read))
<1>. DEFINE r == Tail(s)  cmd == Head(s)  d == Execute(c, read)
<1>1. /\ Len(s) \in Nat /\ Len(s) # 0 /\ cmd = s[1] /\ Len(r) = Len(s) - 1 /\ cmd \in ProperCommands
      /\ \A i \in 1..Len(r) : r[i] = s[i + 1] /\ i + 1 \in 1..Len(s)
  <2>1. s \in Seq(ProperCommands)
    BY DEF Scripts
  <2>2. /\ Len(s) \in Nat /\ Len(s) # 0 /\ cmd = s[1] /\ Len(r) = Len(s) - 1 /\ cmd \in ProperCommands
        /\ \A i \in 1..Len(r) : r[i] = s[i + 1]
    BY <2>1, EmptySeq
  <2>. HIDE DEF r, cmd
  <2>. QED  BY <2>2
<1>a. read \in CommandSet /\ read.op = cmd.op /\ read.sets \subseteq cmd.sets
  BY <1>1, ReadingFacts
<1>. HIDE DEF r, cmd
<1>2. read \in CommandSet /\ read.op = cmd.op /\ read.sets \subseteq cmd.sets /\ 1 \in 1..Len(s)
  BY <1>1, <1>a
<1>3. \A t \in Transports :
        /\ cmd.op = "reset" => ~d.sets[t].made
        /\ d.sets[t].made => c.sets[t].made \/ (Makes(cmd) /\ t \in cmd.sets)
        /\ (c.sets[t].on => c.sets[t].made) => (d.sets[t].on => d.sets[t].made)
  BY <1>2, ExecuteMade DEF Makes
<1>. HIDE DEF d
<1>4. Makes(cmd) => (\E t \in Transports : cmd.sets = {t}) /\ NoneMade(c)
  BY <1>1, <1>2 DEF Fresh
<1>5. OneMade(d)
  <2>1. ASSUME NEW t \in Transports, NEW u \in Transports, d.sets[t].made, d.sets[u].made
        PROVE  t = u
    <3>1. CASE Makes(cmd)
      <4>1. t \in cmd.sets /\ u \in cmd.sets
        BY <1>3, <1>4, <2>1, <3>1 DEF NoneMade
      <4>. QED  BY <1>4, <3>1, <4>1
    <3>2. CASE ~Makes(cmd)
      BY <1>3, <2>1, <3>2 DEF OneMade
    <3>. QED  BY <3>1, <3>2
  <2>2. \A t \in Transports : d.sets[t].on => d.sets[t].made
    BY <1>3 DEF OneMade
  <2>. QED  BY <2>1, <2>2 DEF OneMade
<1>6. ASSUME NEW i \in 1..Len(r), Makes(r[i])
      PROVE  /\ \E t \in Transports : r[i].sets = {t}
             /\ i = 1 => NoneMade(d)
             /\ i > 1 => r[i - 1].op = "reset"
  <2>1. i + 1 \in 1..Len(s) /\ r[i] = s[i + 1] /\ i + 1 > 1 /\ (i + 1) - 1 = i
    BY <1>1
  <2>2. (\E t \in Transports : r[i].sets = {t}) /\ s[i].op = "reset"
    BY <1>6, <2>1 DEF Fresh
  <2>3. i = 1 => NoneMade(d)
    BY <1>1, <1>3, <2>2 DEF NoneMade
  <2>4. ASSUME i > 1
        PROVE  r[i - 1].op = "reset"
    <3>1. i - 1 \in 1..Len(r) /\ (i - 1) + 1 = i
      BY <1>1, <2>4
    <3>. QED  BY <1>1, <2>2, <3>1
  <2>. QED  BY <2>2, <2>3, <2>4
<1>7. Fresh(r, d)
  BY <1>6 DEF Fresh
<1>. QED  BY <1>5, <1>7 DEF r, d

\* A function's commands behind the pending ones.
LEMMA FreshJoined ==
  ASSUME NEW s \in Scripts, NEW t \in Careful, NEW c, Fresh(s, c)
  PROVE  Fresh(s \o t, c)
<1>. DEFINE r == s \o t
<1>1. t \in Scripts
  BY DEF Careful
<1>2. /\ Len(s) \in Nat /\ Len(t) \in Nat /\ Len(r) = Len(s) + Len(t)
      /\ \A i \in 1..Len(s) : r[i] = s[i]
      /\ \A i \in (Len(s) + 1)..(Len(s) + Len(t)) : i - Len(s) \in 1..Len(t) /\ r[i] = t[i - Len(s)]
  BY <1>1, ScriptsJoined
<1>. HIDE DEF r
<1>3. ASSUME NEW i \in 1..Len(r), Makes(r[i])
      PROVE  /\ \E u \in Transports : r[i].sets = {u}
             /\ i = 1 => NoneMade(c)
             /\ i > 1 => r[i - 1].op = "reset"
  <2>1. CASE i \in 1..Len(s)
    <3>1. /\ \E u \in Transports : s[i].sets = {u}
          /\ i = 1 => NoneMade(c)
          /\ i > 1 => s[i - 1].op = "reset"
      BY <1>2, <1>3, <2>1 DEF Fresh
    <3>2. i > 1 => i - 1 \in 1..Len(s)
      BY <1>2, <2>1
    <3>. QED  BY <1>2, <2>1, <3>1, <3>2
  <2>2. CASE i \in (Len(s) + 1)..(Len(s) + Len(t))
    <3>. DEFINE j == i - Len(s)
    <3>1. j \in 1..Len(t) /\ r[i] = t[j]
      BY <1>2, <2>2
    <3>. HIDE DEF j
    <3>2. (\E u \in Transports : t[j].sets = {u}) /\ j > 1 /\ t[j - 1].op = "reset"
      BY <1>3, <3>1 DEF Careful
    <3>3. i > 1 /\ i - 1 \in (Len(s) + 1)..(Len(s) + Len(t)) /\ (i - 1) - Len(s) = j - 1
      BY <1>2, <2>2, <3>1, <3>2 DEF j
    <3>4. r[i - 1] = t[j - 1] /\ i # 1
      BY <1>2, <3>3
    <3>. QED  BY <3>1, <3>2, <3>4
  <2>3. i \in 1..Len(s) \/ i \in (Len(s) + 1)..(Len(s) + Len(t))
    BY <1>2
  <2>. QED  BY <2>1, <2>2, <2>3
<1>. QED  BY <1>3 DEF Fresh, r

LEMMA MadeStarts ==
  ASSUME ConfigOK, Init
  PROVE  MadeInv
<1>1. /\ todo = InitBluetooth(config) /\ commands = <<>> /\ ~reading /\ controller = ResetController
  BY DEF Init
<1>2. InitBluetooth(config) \in Restarting
  BY InitIsCareful DEF ConfigOK
<1>3. Pending = <<>> \o InitBluetooth(config) /\ <<>> \in Scripts
  BY <1>1 DEF Pending, Scripts
<1>4. NoneMade(controller) /\ OneMade(controller)
  BY <1>1 DEF ResetController, NoSet, NoneMade, OneMade
<1>5. Fresh(<<>>, controller)
  <2>1. \A i \in 1..Len(<<>>) : FALSE
    OBVIOUS
  <2>. QED  BY <2>1 DEF Fresh
<1>6. Fresh(Pending, controller)
  BY <1>2, <1>3, <1>5, FreshJoined DEF Restarting
<1>. QED  BY <1>4, <1>6 DEF MadeInv

LEMMA MadeStep ==
  ASSUME ConfigOK, StepInv, SilenceInv, MadeInv, [Next]_vars
  PROVE  MadeInv'
<1>0. /\ FlagsOK /\ QueuesOK /\ commands \in Scripts /\ todo \in Scripts /\ controller \in Controllers
      /\ OneMade(controller) /\ Fresh(Pending, controller)
  BY StepInvParts DEF SilenceInv, MadeInv
<1>s. ASSUME OneMade(controller'), Fresh(Pending', controller')
      PROVE  MadeInv'
  BY <1>s DEF MadeInv, OneMade, Fresh, NoneMade
<1>f. Fresh(commands, controller)
  <2>. DEFINE rest == IF reading THEN Tail(todo) ELSE todo
  <2>1. rest \in Scripts
    BY <1>0, TailFacts DEF FlagsOK, Scripts
  <2>2. Pending = commands \o rest
    BY DEF Pending
  <2>. HIDE DEF rest
  <2>3. /\ Len(commands) \in Nat /\ Len(rest) \in Nat /\ Len(Pending) = Len(commands) + Len(rest)
        /\ \A i \in 1..Len(commands) : Pending[i] = commands[i]
    BY <1>0, <2>1, <2>2, ScriptsJoined
  <2>4. \A i \in 1..Len(commands) : i \in 1..Len(Pending) /\ (i > 1 => i - 1 \in 1..Len(commands))
    BY <2>3
  <2>. QED  BY <1>0, <2>3, <2>4 DEF Fresh
<1>1. CASE HostSend \/ HostRead \/ HostReadFails
  <2>1. Pending' = Pending
    BY <1>0, <1>1, PendingKept
  <2>2. controller' = controller
    BY <1>1 DEF HostSend, HostRead, HostReadFails
  <2>. QED  BY <1>0, <1>s, <2>1, <2>2
<1>2. CASE HostTransmit
  <2>1. /\ stage = "idle" /\ sent' \in 0..MaxMessages /\ sent' = sent + 1
        /\ todo' = SendMessage(config, sent') /\ UNCHANGED <<config, controller, commands, reading>>
    BY <1>0, <1>2, HciAssumption DEF HostTransmit, QueuesOK
  <2>2. ~reading /\ todo = <<>>
    BY <1>0, <2>1 DEF FlagsOK
  <2>3. todo' \in Careful
    BY <2>1, SendIsCareful DEF ConfigOK
  <2>4. Pending' = commands \o todo'
    BY <2>1, <2>2 DEF Pending
  <2>5. Fresh(Pending', controller')
    BY <1>0, <1>f, <2>1, <2>3, <2>4, FreshJoined
  <2>. QED  BY <1>0, <1>s, <2>1, <2>5
<1>3. CASE HostClose
  <2>1. /\ stage = "idle" /\ stage' = "closing" /\ todo' = StopTransmit
        /\ UNCHANGED <<controller, commands, reading>>
    BY <1>3 DEF HostClose
  <2>2. Pending' = commands \o StopTransmit
    BY <1>0, <2>1 DEF Pending, FlagsOK
  <2>3. Fresh(Pending', controller')
    BY <1>0, <1>f, <2>1, <2>2, StopIsCareful, FreshJoined
  <2>. QED  BY <1>0, <1>s, <2>1, <2>3
<1>4. CASE HostSendFails \/ HostKilled
  <2>1. stage' = "exited" /\ todo' = <<>> /\ ~reading' /\ UNCHANGED <<controller, commands>>
    BY <1>4 DEF HostSendFails, HostKilled
  <2>2. Pending' = commands
    <3>1. commands \in Seq(ProperCommands)
      BY <1>0 DEF Scripts
    <3>. QED  BY <2>1, <3>1, Empty DEF Pending
  <2>. QED  BY <1>0, <1>f, <1>s, <2>1, <2>2
<1>5. CASE ControllerExecutes
  <2>1. /\ Pending \in Scripts /\ Pending # <<>> /\ Head(Pending) = Head(commands)
        /\ Pending' = Tail(Pending)
    BY <1>0, <1>5, PendingExecuted
  <2>2. PICK read \in Readings(Head(Pending)) : controller' = Execute(controller, read)
    BY <1>5, <2>1 DEF ControllerExecutes
  <2>3. OneMade(controller') /\ Fresh(Pending', controller')
    BY <1>0, <2>1, <2>2, MadeExecuted
  <2>. QED  BY <1>s, <2>3
<1>6. CASE StrayEvent \/ Ended \/ UNCHANGED vars
  <2>1. UNCHANGED <<config, stage, todo, reading, commands, controller>>
    BY <1>6 DEF StrayEvent, Ended, vars, hostVars
  <2>2. Pending' = Pending
    BY <2>1 DEF Pending
  <2>. QED  BY <1>0, <1>s, <2>1, <2>2
<1>7. CASE HostRestart
  <2>1. /\ config' \in SUBSET Transports /\ todo' = InitBluetooth(config')
        /\ stage \in {"closed", "exited"} /\ UNCHANGED <<reading, commands, controller>>
    BY <1>7, HciAssumption DEF HostRestart, Transports
  <2>2. ~reading
    BY <1>0, <2>1 DEF FlagsOK
  <2>3. Pending' = commands \o InitBluetooth(config')
    BY <2>1, <2>2 DEF Pending
  <2>4. InitBluetooth(config') \in Restarting
    BY <2>1, InitIsCareful
  <2>5. Fresh(Pending', controller')
    BY <1>0, <1>f, <2>1, <2>3, <2>4, FreshJoined DEF Restarting
  <2>. QED  BY <1>0, <1>s, <2>1, <2>5
<1>. QED  BY <1>1, <1>2, <1>3, <1>4, <1>5, <1>6, <1>7 DEF Next, HostStep, HostFault

\* Whatever transports the program is run with, also differently from run to
\* run, wherever it is killed and whatever the controller makes of the command
\* that is to enable two sets: two sets are never on air at once.  So what
\* bluetooth.c:313 says of two sets is wrong of every run that gets there, not
\* only of the one that refutes TwoSetsSupported.
THEOREM NeverTwoOnAir == Spec => []OneOnAir
<1>1. ConfigOK /\ Init => MadeInv /\ SilenceInv
  BY SilenceStarts, MadeStarts
<1>2. ConfigOK /\ StepInv /\ SilenceInv /\ MadeInv /\ [Next]_vars => SilenceInv' /\ MadeInv'
  BY SilenceStep, MadeStep
<1>3. MadeInv => OneOnAir
  BY DEF MadeInv, OneMade, OnAir, OneOnAir
<1>. QED  BY InitStep, NextStep, <1>1, <1>2, <1>3, PTL DEF Spec
=============================================================================
