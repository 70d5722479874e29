------------------------ MODULE HciAdvertisingProofs ------------------------
(***************************************************************************)
(* Proofs about HciAdvertising, for any number of messages, stray events,  *)
(* faults and runs of the program: it reads one event for each command it  *)
(* sends (StepInv), the right one as long as nothing strays (AnswerInv),   *)
(* and leaves the controller silent when it closes (SilenceInv).           *)
(***************************************************************************)
EXTENDS HciAdvertising, SequenceTheorems, TLAPS

\* One more element at the end of a sequence.
LEMMA AppendFacts ==
  ASSUME NEW S, NEW s \in Seq(S), NEW e \in S
  PROVE  Append(s, e) \in Seq(S) /\ Len(Append(s, e)) = Len(s) + 1
OBVIOUS

\* One element less at its front.
LEMMA TailFacts ==
  ASSUME NEW S, NEW s \in Seq(S), s # <<>>
  PROVE  /\ Head(s) \in S
         /\ Tail(s) \in Seq(S)
         /\ Len(Tail(s)) = Len(s) - 1
         /\ Len(s) \in Nat
OBVIOUS

----------------------------------------------------------------------------
(* The scripts of bluetooth.c *)

\* What the scripts consist of: commands of which the ones that enable concern
\* the sets of their own interface.
Proper(cmd) ==
  /\ cmd.op = "enable" => cmd.sets = {"btl"}
  /\ cmd.op = "ext enable" => cmd.sets \subseteq Extended

ProperCommands == {cmd \in CommandSet : Proper(cmd)}
Scripts == Seq(ProperCommands)

LEMMA ScriptsAreCommands == Scripts \subseteq Seq(CommandSet)
<1>1. ProperCommands \subseteq CommandSet
  BY DEF ProperCommands
<1>. QED  BY <1>1 DEF Scripts

LEMMA OneOf ==
  ASSUME NEW S, NEW a \in S
  PROVE  <<a>> \in Seq(S)
OBVIOUS

LEMMA OneCommand ==
  ASSUME NEW op \in Ops, NEW sets \in SUBSET Transports, NEW data \in 0..MaxMessages,
         op = "enable" => sets = {"btl"}, op = "ext enable" => sets \subseteq Extended
  PROVE  <<Command(op, sets, data)>> \in Scripts
<1>1. Command(op, sets, data) \in ProperCommands
  BY DEF Command, CommandSet, ProperCommands, Proper
<1> QED
  BY <1>1, OneOf DEF Scripts

LEMMA TwoOf == \A S : \A a, b \in S : <<a, b>> \in Seq(S)
OBVIOUS

LEMMA FourOf == \A S : \A a, b, c, d \in S : <<a, b, c, d>> \in Seq(S)
OBVIOUS

LEMMA Joined ==
  ASSUME NEW s \in Scripts, NEW t \in Scripts
  PROVE  s \o t \in Scripts
BY DEF Scripts

LEMMA Conditional ==
  ASSUME NEW b, NEW s \in Scripts
  PROVE  When(b, s) \in Scripts
<1>1. CASE b
  BY <1>1 DEF When
<1>2. CASE ~b
  BY <1>2 DEF When, Scripts
<1> QED
  BY <1>1, <1>2

\* stop_transmit sends commands.
LEMMA StopTransmitType == StopTransmit \in Scripts
<1>1. 0 \in 0..MaxMessages
  BY HciAssumption
<1>2. /\ Command("disable", {"btl"}, 0) \in ProperCommands
      /\ Command("ext disable", Extended, 0) \in ProperCommands
      /\ Command("remove", {"bt4"}, 0) \in ProperCommands
      /\ Command("remove", {"bt5"}, 0) \in ProperCommands
  BY <1>1 DEF Command, CommandSet, ProperCommands, Proper, Ops, LegacyOps, ExtendedOps, Transports, Extended
<1> QED
  BY <1>2, FourOf DEF StopTransmit, Scripts

\* init_bluetooth sends commands, whatever the transports in use.
LEMMA InitBluetoothType ==
  ASSUME NEW cfg \in SUBSET Transports
  PROVE  InitBluetooth(cfg) \in Scripts
<1>1. 0 \in 0..MaxMessages
  BY HciAssumption
<1>2. Reset \in Scripts /\ ReadFeatures \in Scripts
  <2>1. "reset" \in Ops /\ "features" \in Ops /\ {} \in SUBSET Transports
    BY DEF Ops
  <2> QED
    BY <1>1, <2>1, OneCommand DEF Reset, ReadFeatures
<1>3. LegacySetUp \in Scripts
  <2>1. /\ Command("parameters", {"btl"}, 0) \in ProperCommands
        /\ Command("address", {"btl"}, 0) \in ProperCommands
    BY <1>1 DEF Command, CommandSet, ProperCommands, Proper, Ops, LegacyOps, Transports
  <2> QED
    BY <2>1, TwoOf DEF LegacySetUp, Scripts
<1>4. ASSUME NEW t \in Transports PROVE ExtendedSetUp(t) \in Scripts
  <2>1. /\ Command("ext parameters", {t}, 0) \in ProperCommands
        /\ Command("set address", {t}, 0) \in ProperCommands
    BY <1>1 DEF Command, CommandSet, ProperCommands, Proper, Ops, ExtendedOps
  <2> QED
    BY <2>1, TwoOf DEF ExtendedSetUp, Scripts
<1>5. ExtendedSetUp("bt4") \in Scripts /\ ExtendedSetUp("bt5") \in Scripts
  BY <1>4 DEF Transports
<1>6. EnableExtended(cfg) \in Scripts
  <2>1. "ext enable" \in Ops /\ cfg \cap Extended \in SUBSET Transports
    BY DEF Ops, ExtendedOps
  <2> QED
    BY <1>1, <2>1, OneCommand DEF EnableExtended, Extended
<1>7. <<Command("enable", {"btl"}, 0)>> \in Scripts
  <2>1. "enable" \in Ops /\ {"btl"} \in SUBSET Transports
    BY DEF Ops, LegacyOps, Transports
  <2> QED
    BY <1>1, <2>1, OneCommand
<1>8. /\ When("btl" \in cfg, Reset \o LegacySetUp) \in Scripts
      /\ When("bt4" \in cfg, Reset \o ExtendedSetUp("bt4")) \in Scripts
      /\ When("bt5" \in cfg, Reset \o ExtendedSetUp("bt5")) \in Scripts
      /\ When("btl" \in cfg, <<Command("enable", {"btl"}, 0)>>) \in Scripts
      /\ When("bt4" \in cfg, EnableExtended(cfg)) \in Scripts
      /\ When("bt5" \in cfg, EnableExtended(cfg)) \in Scripts
  BY <1>2, <1>3, <1>5, <1>6, <1>7, Joined, Conditional
<1> QED
  BY <1>2, <1>8, StopTransmitType, Joined DEF InitBluetooth

\* A message is sent with commands.
LEMMA SendMessageType ==
  ASSUME NEW cfg \in SUBSET Transports, NEW n \in 0..MaxMessages
  PROVE  SendMessage(cfg, n) \in Scripts
<1>1. /\ "data" \in Ops /\ "ext data" \in Ops
      /\ {"btl"} \in SUBSET Transports /\ {"bt4"} \in SUBSET Transports /\ {"bt5"} \in SUBSET Transports
  BY DEF Ops, LegacyOps, ExtendedOps, Transports
<1>2. /\ <<Command("data", {"btl"}, n)>> \in Scripts
      /\ <<Command("ext data", {"bt4"}, n)>> \in Scripts
      /\ <<Command("ext data", {"bt5"}, n)>> \in Scripts
  BY <1>1, OneCommand
<1>3. /\ When("btl" \in cfg, <<Command("data", {"btl"}, n)>>) \in Scripts
      /\ When("bt4" \in cfg, <<Command("ext data", {"bt4"}, n)>>) \in Scripts
      /\ When("bt5" \in cfg, <<Command("ext data", {"bt5"}, n)>>) \in Scripts
  BY <1>2, Conditional
<1> QED
  BY <1>3, Joined DEF SendMessage

----------------------------------------------------------------------------
\* The transports in use are never changed.
ConfigOK == config \in SUBSET Transports

LEMMA InitStep == Init => ConfigOK /\ StepInv
<1> SUFFICES ASSUME Init PROVE ConfigOK /\ StepInv
  OBVIOUS
<1>1. ConfigOK
  BY HciAssumption DEF Init, ConfigOK, Transports
<1>2. todo \in Seq(CommandSet)
  BY <1>1, InitBluetoothType, ScriptsAreCommands DEF Init, ConfigOK
<1>3. sent \in 0..MaxMessages
  BY HciAssumption DEF Init
<1>4. OneEventPerCommand
  <2>1. Awaited = 0
    BY DEF Init, Awaited
  <2>2. Len(commands) = 0 /\ Len(events) = 0 /\ extra = 0
    BY DEF Init
  <2> QED
    BY <2>1, <2>2 DEF OneEventPerCommand
<1>5. reading \in BOOLEAN /\ (reading => todo # <<>>) /\ (stage \in {"idle", "closed", "exited"} => todo = <<>>)
  BY DEF Init
<1>6. commands \in Seq(CommandSet) /\ events \in Seq(Ops \cup {"stray"}) /\ extra \in Nat
  BY DEF Init
<1> QED
  BY <1>1, <1>2, <1>3, <1>4, <1>5, <1>6 DEF StepInv

\* The types and flags of StepInv, and apart from them the count.
FlagsOK ==
  /\ reading \in BOOLEAN
  /\ reading => todo # <<>>
  /\ stage \in {"idle", "closed", "exited"} => todo = <<>>

QueuesOK ==
  /\ todo \in Seq(CommandSet)
  /\ commands \in Seq(CommandSet)
  /\ events \in Seq(Ops \cup {"stray"})
  /\ sent \in 0..MaxMessages
  /\ extra \in Nat

LEMMA StepInvParts == StepInv <=> FlagsOK /\ QueuesOK /\ OneEventPerCommand
BY DEF StepInv, FlagsOK, QueuesOK

LEMMA StepInvPartsNext == StepInv' <=> FlagsOK' /\ QueuesOK' /\ OneEventPerCommand'
BY DEF StepInv, FlagsOK, QueuesOK

LEMMA AwaitedIs == (reading => Awaited = 1) /\ (~reading => Awaited = 0)
BY DEF Awaited

LEMMA ConfigStep == ConfigOK /\ [Next]_vars => ConfigOK'
<1> SUFFICES ASSUME ConfigOK, [Next]_vars PROVE ConfigOK'
  OBVIOUS
<1>1. CASE HostRestart
  BY <1>1, HciAssumption DEF HostRestart, ConfigOK, Transports
<1>2. CASE ~HostRestart
  BY <1>2 DEF ConfigOK, Next, HostStep, HostFault, HostSend, HostRead, HostTransmit, HostClose,
     HostSendFails, HostReadFails, HostKilled, ControllerExecutes, StrayEvent, Ended, Return,
     vars, hostVars
<1> QED
  BY <1>1, <1>2

\* The last element gone, nothing is left.
LEMMA LastGone ==
  ASSUME NEW S, NEW s \in Seq(S), s # <<>>, ~(Len(s) > 1)
  PROVE  Tail(s) = <<>>
<1>1. Len(s) \in Nat /\ Tail(s) \in Seq(S) /\ Len(Tail(s)) \in Nat /\ Len(Tail(s)) = Len(s) - 1
  BY TailFacts
<1>2. Len(Tail(s)) = 0
  BY <1>1
<1> QED
  BY <1>1, <1>2, EmptySeq

\* What Return does to a script under way.
LEMMA ReturnStep ==
  ASSUME FlagsOK, QueuesOK, reading, Return
  PROVE  FlagsOK' /\ todo' \in Seq(CommandSet) /\ sent' = sent /\ ~reading'
<1>1. ~reading' /\ reading' \in BOOLEAN /\ sent' = sent
  BY DEF Return
<1>2. todo \in Seq(CommandSet) /\ todo # <<>> /\ stage \notin {"idle", "closed", "exited"}
  BY DEF FlagsOK, QueuesOK
<1>3. todo' \in Seq(CommandSet)
  BY <1>2, TailFacts DEF Return
<1>4. stage' \in {"idle", "closed", "exited"} => todo' = <<>>
  <2>1. CASE Len(todo) > 1
    BY <1>2, <2>1 DEF Return
  <2>2. CASE ~(Len(todo) > 1)
    BY <1>2, <2>2, LastGone DEF Return
  <2> QED
    BY <2>1, <2>2
<1> QED
  BY <1>1, <1>3, <1>4 DEF FlagsOK

\* A command is awaited only while there is one to wait for.
LEMMA FlagsStep == FlagsOK /\ QueuesOK /\ [Next]_vars => FlagsOK'
<1> SUFFICES ASSUME FlagsOK, QueuesOK, [Next]_vars PROVE FlagsOK'
  OBVIOUS
<1>1. CASE HostSend
  BY <1>1 DEF HostSend, FlagsOK
<1>2. CASE HostRead \/ HostReadFails
  BY <1>2, ReturnStep DEF HostRead, HostReadFails
<1>3. CASE HostTransmit \/ HostClose
  BY <1>3 DEF HostTransmit, HostClose, FlagsOK
<1>4. CASE HostSendFails
  <2>1. stage' = "exited" /\ todo' = <<>> /\ reading' = reading /\ ~reading
    BY <1>4 DEF HostSendFails
  <2> QED
    BY <2>1 DEF FlagsOK
<1>7. CASE HostKilled
  <2>1. stage' = "exited" /\ todo' = <<>> /\ reading' = FALSE
    BY <1>7 DEF HostKilled
  <2> QED
    BY <2>1 DEF FlagsOK
<1>6. CASE HostRestart
  <2>1. reading' = reading /\ stage' = "init" /\ ~reading
    BY <1>6 DEF HostRestart, FlagsOK
  <2> QED
    BY <2>1 DEF FlagsOK
<1>5. CASE ControllerExecutes \/ StrayEvent \/ Ended \/ UNCHANGED vars
  BY <1>5 DEF ControllerExecutes, StrayEvent, Ended, vars, hostVars, FlagsOK
<1> QED
  BY <1>1, <1>2, <1>3, <1>4, <1>5, <1>6, <1>7 DEF Next, HostStep, HostFault

\* The queues keep their types, and the count of what is under way is kept.
LEMMA QueuesStep ==
  ConfigOK /\ FlagsOK /\ QueuesOK /\ OneEventPerCommand /\ [Next]_vars
  => QueuesOK' /\ OneEventPerCommand'
<1> SUFFICES ASSUME ConfigOK, FlagsOK, QueuesOK, OneEventPerCommand, [Next]_vars
             PROVE  QueuesOK' /\ OneEventPerCommand'
  OBVIOUS
<1>a. /\ todo \in Seq(CommandSet)
      /\ commands \in Seq(CommandSet)
      /\ events \in Seq(Ops \cup {"stray"})
      /\ sent \in 0..MaxMessages
      /\ extra \in Nat
      /\ Len(commands) \in Nat
      /\ Len(events) \in Nat
  BY DEF QueuesOK
<1>c. Len(commands) \in Nat /\ Len(events) \in Nat /\ extra \in Nat
  BY <1>a
<1>b. Len(commands) + Len(events) = extra + Awaited /\ Awaited \in Nat
  <2>1. Awaited = 0 \/ Awaited = 1
    BY AwaitedIs
  <2> QED
    BY <2>1 DEF OneEventPerCommand
<1>w. (reading' => Awaited' = 1) /\ (~reading' => Awaited' = 0)
  BY DEF Awaited
<1>1. CASE HostSend
  <2>1. todo # <<>> /\ Awaited = 0 /\ Awaited' = 1
    BY <1>1, <1>w, AwaitedIs DEF HostSend
  <2>2. commands' \in Seq(CommandSet) /\ Len(commands') = Len(commands) + 1
    BY <1>1, <1>a, <2>1, TailFacts, AppendFacts DEF HostSend
  <2>3. UNCHANGED <<todo, events, sent, extra>>
    BY <1>1 DEF HostSend
  <2> QED
    BY <1>a, <1>b, <2>1, <2>2, <2>3 DEF QueuesOK, OneEventPerCommand
<1>2. CASE HostRead
  <2>1. reading /\ events # <<>> /\ events' = Tail(events) /\ Return /\ UNCHANGED <<commands, extra>>
    BY <1>2 DEF HostRead
  <2>2. events' \in Seq(Ops \cup {"stray"}) /\ Len(events') = Len(events) - 1
    BY <1>a, <2>1, TailFacts
  <2>3. todo' \in Seq(CommandSet) /\ sent' = sent /\ ~reading'
    BY <2>1, ReturnStep
  <2>4. Awaited = 1 /\ Awaited' = 0
    BY <2>1, <2>3, <1>w, AwaitedIs
  <2> QED
    BY <1>a, <1>b, <2>1, <2>2, <2>3, <2>4 DEF QueuesOK, OneEventPerCommand
<1>3. CASE HostTransmit
  <2>1. sent' \in 0..MaxMessages /\ sent' = sent + 1
    BY <1>3, <1>a, HciAssumption DEF HostTransmit
  <2>2. todo' \in Seq(CommandSet)
    BY <1>3, <2>1, SendMessageType, ScriptsAreCommands DEF HostTransmit, ConfigOK
  <2>3. UNCHANGED <<commands, events, extra>> /\ Awaited' = Awaited
    BY <1>3 DEF HostTransmit, Awaited
  <2> QED
    BY <1>a, <1>b, <2>1, <2>2, <2>3 DEF QueuesOK, OneEventPerCommand
<1>4. CASE HostClose
  <2>1. todo' \in Seq(CommandSet)
    BY <1>4, StopTransmitType, ScriptsAreCommands DEF HostClose
  <2>2. UNCHANGED <<sent, commands, events, extra>> /\ Awaited' = Awaited
    BY <1>4 DEF HostClose, Awaited
  <2> QED
    BY <1>a, <1>b, <2>1, <2>2 DEF QueuesOK, OneEventPerCommand
<1>5. CASE HostSendFails
  <2>1. todo' = <<>> /\ UNCHANGED <<sent, commands, events, extra>> /\ Awaited' = Awaited
    BY <1>5 DEF HostSendFails, Awaited
  <2> QED
    BY <1>a, <1>b, <2>1 DEF QueuesOK, OneEventPerCommand
<1>6. CASE HostReadFails
  <2>1. reading /\ Return /\ extra' = extra + 1 /\ UNCHANGED <<commands, events>>
    BY <1>6 DEF HostReadFails
  <2>2. todo' \in Seq(CommandSet) /\ sent' = sent /\ ~reading'
    BY <2>1, ReturnStep
  <2>3. Awaited = 1 /\ Awaited' = 0
    BY <2>1, <2>2, <1>w, AwaitedIs
  <2> QED
    BY <1>a, <1>b, <2>1, <2>2, <2>3 DEF QueuesOK, OneEventPerCommand
<1>7. CASE ControllerExecutes
  <2>1. commands # <<>> /\ commands' = Tail(commands) /\ events' = Append(events, Head(commands).op)
    BY <1>7 DEF ControllerExecutes
  <2>2. Head(commands) \in CommandSet /\ commands' \in Seq(CommandSet)
        /\ Len(commands') = Len(commands) - 1
    BY <1>a, <2>1, TailFacts
  <2>3. Head(commands).op \in Ops \cup {"stray"}
    BY <2>2 DEF CommandSet
  <2>4. events' \in Seq(Ops \cup {"stray"}) /\ Len(events') = Len(events) + 1
    BY <1>a, <2>1, <2>3, AppendFacts
  <2>5. UNCHANGED <<todo, sent, extra>> /\ Awaited' = Awaited
    BY <1>7 DEF ControllerExecutes, hostVars, Awaited
  <2>6. QueuesOK'
    <3>1. todo' \in Seq(CommandSet) /\ sent' \in 0..MaxMessages /\ extra' \in Nat
      BY <1>a, <2>5
    <3> QED
      BY <2>2, <2>4, <3>1, Zenon DEF QueuesOK
  <2>7. Len(commands') + Len(events') = extra' + Awaited'
    BY <1>c, <1>b, <2>2, <2>4, <2>5
  <2> QED
    BY <2>6, <2>7 DEF OneEventPerCommand
<1>8. CASE StrayEvent
  <2>1. events' \in Seq(Ops \cup {"stray"}) /\ Len(events') = Len(events) + 1
    BY <1>8, <1>a, AppendFacts DEF StrayEvent
  <2>2. extra' = extra + 1 /\ UNCHANGED <<todo, sent, commands>> /\ Awaited' = Awaited
    BY <1>8 DEF StrayEvent, hostVars, Awaited
  <2>3. QueuesOK'
    <3>1. todo' \in Seq(CommandSet) /\ commands' \in Seq(CommandSet)
          /\ sent' \in 0..MaxMessages /\ extra' \in Nat
      BY <1>a, <2>2
    <3> QED
      BY <2>1, <3>1, Zenon DEF QueuesOK
  <2>4. Len(commands') + Len(events') = extra' + Awaited'
    BY <1>c, <1>b, <2>1, <2>2
  <2> QED
    BY <2>3, <2>4 DEF OneEventPerCommand
<1>9. CASE Ended \/ UNCHANGED vars
  <2>1. UNCHANGED <<todo, sent, commands, events, extra>> /\ Awaited' = Awaited
    BY <1>9 DEF Ended, vars, hostVars, Awaited
  <2> QED
    BY <1>a, <1>b, <2>1 DEF QueuesOK, OneEventPerCommand
<1>10. CASE HostKilled
  <2>1. todo' = <<>> /\ UNCHANGED <<sent, commands, events>> /\ extra' = extra + Awaited
        /\ Awaited' = 0 /\ extra' \in Nat
    BY <1>10, <1>b, <1>c, <1>w DEF HostKilled
  <2> QED
    BY <1>a, <1>b, <2>1 DEF QueuesOK, OneEventPerCommand
<1>11. CASE HostRestart
  <2>1. todo' \in Seq(CommandSet)
    <3>1. config' \in SUBSET Transports /\ todo' = InitBluetooth(config')
      BY <1>11, HciAssumption DEF HostRestart, Transports
    <3> QED
      BY <3>1, InitBluetoothType, ScriptsAreCommands
  <2>2. events' = <<>> /\ extra' = Len(commands) /\ commands' = commands /\ sent' = 0
        /\ reading' = reading /\ ~reading
    BY <1>11 DEF HostRestart, FlagsOK
  <2>3. sent' \in 0..MaxMessages /\ Awaited' = 0
    BY <2>2, <1>w, HciAssumption
  <2> QED
    BY <1>a, <2>1, <2>2, <2>3 DEF QueuesOK, OneEventPerCommand
<1> QED
  BY <1>1, <1>2, <1>3, <1>4, <1>5, <1>6, <1>7, <1>8, <1>9, <1>10, <1>11 DEF Next, HostStep, HostFault

LEMMA NextStep == ConfigOK /\ StepInv /\ [Next]_vars => (ConfigOK /\ StepInv)'
BY ConfigStep, FlagsStep, QueuesStep, StepInvParts, StepInvPartsNext

\* However many commands are sent, events stray and reads fail, what is under
\* way is what has strayed and the event of the command being waited for.
THEOREM OneEventForEachCommand == Spec => []OneEventPerCommand
<1>1. ConfigOK /\ StepInv => OneEventPerCommand
  BY DEF StepInv
<1> QED
  BY InitStep, NextStep, <1>1, PTL DEF Spec

----------------------------------------------------------------------------
(* The answers *)

\* As long as nothing has strayed, the one command or event under way belongs
\* to the command being read for.
AnswerInv ==
  reading /\ extra = 0 =>
    /\ commands # <<>> => Head(commands).op = Head(todo).op
    /\ events # <<>> => Head(events) = Head(todo).op

LEMMA Small == \A m, n \in Nat : m + n = 1 /\ m # 0 => m = 1 /\ n = 0
OBVIOUS

LEMMA NoneUnderWay ==
  ASSUME QueuesOK, OneEventPerCommand, extra = 0
  PROVE  /\ ~reading => commands = <<>> /\ events = <<>>
         /\ reading /\ commands # <<>> => Tail(commands) = <<>> /\ events = <<>>
<1>1. commands \in Seq(CommandSet) /\ events \in Seq(Ops \cup {"stray"})
  BY DEF QueuesOK
<1>2. Len(commands) \in Nat /\ Len(events) \in Nat
  BY <1>1
<1>3. Len(commands) + Len(events) = Awaited
  <2>1. Awaited \in Nat
    BY AwaitedIs
  <2>. QED  BY <2>1 DEF OneEventPerCommand
<1>4. (Len(commands) = 0 => commands = <<>>) /\ (Len(events) = 0 => events = <<>>)
  BY <1>1, EmptySeq
<1>5. ASSUME ~reading
      PROVE  commands = <<>> /\ events = <<>>
  BY <1>2, <1>3, <1>4, <1>5, AwaitedIs
<1>6. ASSUME reading, commands # <<>>
      PROVE  Tail(commands) = <<>> /\ events = <<>>
  <2>1. Len(commands) # 0
    BY <1>1, <1>6, EmptySeq
  <2>2. Len(commands) = 1 /\ Len(events) = 0
    <3>1. Len(commands) + Len(events) = 1
      BY <1>3, <1>6, AwaitedIs
    <3>. QED  BY <1>2, <2>1, <3>1, Small
  <2>3. ~(Len(commands) > 1)
    BY <2>2
  <2>. QED  BY <1>1, <1>4, <1>6, <2>2, <2>3, LastGone
<1>. QED  BY <1>5, <1>6

LEMMA AnswerStep ==
  ASSUME StepInv, AnswerInv, [Next]_vars
  PROVE  AnswerInv'
<1>0. FlagsOK /\ QueuesOK /\ OneEventPerCommand
  BY StepInvParts
<1>. SUFFICES ASSUME reading', extra' = 0
              PROVE  /\ commands' # <<>> => Head(commands').op = Head(todo').op
                     /\ events' # <<>> => Head(events') = Head(todo').op
  BY DEF AnswerInv
<1>1. CASE HostSend
  <2>1. /\ ~reading /\ extra = 0 /\ commands' = Append(commands, Head(todo))
        /\ todo' = todo /\ events' = events
    BY <1>1 DEF HostSend
  <2>2. commands = <<>> /\ events = <<>>
    BY <1>0, <2>1, NoneUnderWay
  <2>3. Head(commands') = Head(todo)
    BY <2>1, <2>2
  <2>. QED  BY <2>1, <2>2, <2>3
<1>2. CASE HostRead \/ HostReadFails
  BY <1>2 DEF HostRead, HostReadFails, Return
<1>3. CASE HostTransmit \/ HostClose
  BY <1>0, <1>3 DEF HostTransmit, HostClose, FlagsOK
<1>4. CASE HostSendFails \/ HostKilled \/ HostRestart
  BY <1>0, <1>4 DEF HostSendFails, HostKilled, HostRestart, FlagsOK
<1>5. CASE ControllerExecutes
  <2>1. /\ commands # <<>> /\ commands' = Tail(commands) /\ events' = Append(events, Head(commands).op)
        /\ todo' = todo /\ reading /\ extra = 0
    BY <1>5 DEF ControllerExecutes, hostVars
  <2>2. Tail(commands) = <<>> /\ events = <<>>
    BY <1>0, <2>1, NoneUnderWay
  <2>3. Head(events') = Head(todo).op
    BY <2>1, <2>2 DEF AnswerInv
  <2>. QED  BY <2>1, <2>2, <2>3
<1>6. CASE StrayEvent
  BY <1>0, <1>6 DEF StrayEvent, QueuesOK
<1>7. CASE Ended \/ UNCHANGED vars
  BY <1>7 DEF Ended, vars, hostVars, AnswerInv
<1>. QED  BY <1>1, <1>2, <1>3, <1>4, <1>5, <1>6, <1>7 DEF Next, HostStep, HostFault

\* For any number of messages, the event read answers the command sent as long
\* as no event has strayed and no read has failed (send_cmd).
THEOREM AnswersMatch == Spec => []OpcodeExpected
<1>1. Init => AnswerInv
  BY DEF Init, AnswerInv
<1>2. StepInv /\ AnswerInv /\ [Next]_vars => AnswerInv'
  BY AnswerStep
<1>3. AnswerInv => OpcodeExpected
  BY DEF AnswerInv, OpcodeExpected
<1>. QED  BY InitStep, NextStep, <1>1, <1>2, <1>3, PTL DEF Spec

----------------------------------------------------------------------------
(* Silence after close_bluetooth *)

TurnsOn(cmd, t)  == cmd.op \in {"enable", "ext enable"} /\ t \in cmd.sets
TurnsOff(cmd, t) == cmd.op = (IF t = "btl" THEN "disable" ELSE "ext disable") /\ t \in cmd.sets

\* What the controller has still to execute of the functions called so far.
Pending == commands \o (IF reading THEN Tail(todo) ELSE todo)

Quiet(s, t)    == \A i \in 1..Len(s) : ~TurnsOn(s[i], t)
Silences(s, t) == \E j \in 1..Len(s) : TurnsOff(s[j], t) /\ \A i \in j..Len(s) : ~TurnsOn(s[i], t)

\* On a controller that keeps the two interfaces apart a set is on air only
\* under the interface it belongs to, which is the one that turns it off.
ApiInv ==
  \A t \in Transports : exclusive /\ controller.sets[t].on
                       => controller.api = (IF t = "btl" THEN "legacy" ELSE "extended")

SilenceInv ==
  /\ commands \in Scripts /\ todo \in Scripts
  /\ stage = "closed" => todo = <<>>
  /\ controller \in Controllers /\ ApiInv
  /\ stage \in {"closing", "closed"} =>
       \A t \in Transports : Silences(Pending, t)
                             \/ (~controller.sets[t].on /\ Quiet(Pending, t))

LEMMA ExecuteType ==
  ASSUME NEW c \in Controllers, NEW cmd \in CommandSet
  PROVE  Execute(c, cmd) \in Controllers
<1>1. NoSet \in [made : BOOLEAN, addressed : BOOLEAN, on : BOOLEAN, data : 0..MaxMessages]
  BY HciAssumption DEF NoSet
<1>2. ResetController \in Controllers
  BY <1>1 DEF ResetController, Controllers
<1>3. \A t \in Transports : Effect(c.sets[t], cmd) \in
        [made : BOOLEAN, addressed : BOOLEAN, on : BOOLEAN, data : 0..MaxMessages]
  BY <1>1 DEF Effect, Controllers, CommandSet
<1>4. Api(cmd.op) \in {"any", "legacy", "extended"}
  BY DEF Api
<1>. DEFINE d == [api  |-> IF c.api = "any" THEN Api(cmd.op) ELSE c.api,
                  sets |-> [t \in Transports |-> IF t \in cmd.sets THEN Effect(c.sets[t], cmd)
                                                                   ELSE c.sets[t]]]
<1>5. d \in Controllers
  <2>1. \A t \in Transports : (IF t \in cmd.sets THEN Effect(c.sets[t], cmd) ELSE c.sets[t]) \in
          [made : BOOLEAN, addressed : BOOLEAN, on : BOOLEAN, data : 0..MaxMessages]
    BY <1>3 DEF Controllers
  <2>2. (IF c.api = "any" THEN Api(cmd.op) ELSE c.api) \in {"any", "legacy", "extended"}
    BY <1>4 DEF Controllers
  <2>. QED  BY <2>1, <2>2 DEF Controllers
<1>. HIDE DEF d
<1>6. Execute(c, cmd) \in {ResetController, c, d}
  BY DEF Execute, d
<1>. QED  BY <1>2, <1>5, <1>6

\* The parts of Execute.
LEMMA ExecuteCases ==
  ASSUME NEW c \in Controllers, NEW cmd \in CommandSet, NEW t \in Transports
  PROVE  \/ /\ cmd.op = "reset" /\ ~Execute(c, cmd).sets[t].on
         \/ /\ cmd.op # "reset" /\ Execute(c, cmd) = c
            /\ Mixes(c, cmd) \/ ~Accepts(c, cmd)
         \/ /\ cmd.op # "reset" /\ ~Mixes(c, cmd)
            /\ Execute(c, cmd).api = (IF c.api = "any" THEN Api(cmd.op) ELSE c.api)
            /\ Execute(c, cmd).sets[t] = (IF t \in cmd.sets THEN Effect(c.sets[t], cmd) ELSE c.sets[t])
<1>1. CASE cmd.op = "reset"
  BY <1>1 DEF Execute, ResetController, NoSet
<1>2. CASE cmd.op # "reset" /\ (Mixes(c, cmd) \/ ~Accepts(c, cmd))
  <2>1. Execute(c, cmd) = c
    BY <1>2 DEF Execute
  <2>. QED  BY <1>2, <2>1
<1>3. CASE cmd.op # "reset" /\ ~Mixes(c, cmd) /\ Accepts(c, cmd)
  <2>1. Execute(c, cmd) =
          [api  |-> IF c.api = "any" THEN Api(cmd.op) ELSE c.api,
           sets |-> [u \in Transports |-> IF u \in cmd.sets THEN Effect(c.sets[u], cmd) ELSE c.sets[u]]]
    BY <1>3 DEF Execute
  <2>. QED  BY <1>3, <2>1
<1>. QED  BY <1>1, <1>2, <1>3

\* What a command may be taken for is no more than what it says.
LEMMA ReadingFacts ==
  ASSUME NEW cmd \in ProperCommands, NEW read \in Readings(cmd)
  PROVE  /\ read \in ProperCommands /\ read \in CommandSet
         /\ read.op = cmd.op /\ read.sets \subseteq cmd.sets
         /\ read = cmd \/ (cmd.op = "ext enable" /\ cmd.sets = Extended)
<1>1. CASE read = cmd
  BY <1>1 DEF ProperCommands
<1>2. CASE read # cmd
  <2>1. cmd.op = "ext enable" /\ cmd.sets = Extended
    BY <1>2 DEF Readings
  <2>2. PICK s \in SUBSET Extended : read = [cmd EXCEPT !.sets = s]
    BY <2>1 DEF Readings
  <2>3. cmd \in [op : Ops, sets : SUBSET Transports, data : 0..MaxMessages] /\ s \subseteq Transports
    BY DEF ProperCommands, CommandSet, Extended, Transports
  <2>4. read.op = cmd.op /\ read.sets = s /\ read \in CommandSet
    BY <2>2, <2>3 DEF CommandSet
  <2>. QED  BY <2>1, <2>4 DEF ProperCommands, Proper
<1>. QED  BY <1>1, <1>2

LEMMA EffectOn ==
  ASSUME NEW c \in Controllers, NEW cmd \in CommandSet, NEW t \in Transports
  PROVE  /\ cmd.op \in {"enable", "ext enable"} \/ Effect(c.sets[t], cmd).on => c.sets[t].on
            \/ cmd.op \in {"enable", "ext enable"}
         /\ cmd.op \in {"disable", "ext disable"} => ~Effect(c.sets[t], cmd).on
<1>1. c.sets[t] \in [made : BOOLEAN, addressed : BOOLEAN, on : BOOLEAN, data : 0..MaxMessages]
  BY DEF Controllers
<1>. QED  BY <1>1 DEF Effect, NoSet

\* A command turns on only what it says, and what it turns off is off.
LEMMA ExecuteOn ==
  ASSUME controller \in Controllers, ApiInv, NEW cmd \in CommandSet, NEW t \in Transports
  PROVE  /\ TurnsOff(cmd, t) => ~Execute(controller, cmd).sets[t].on
         /\ ~TurnsOn(cmd, t) /\ ~controller.sets[t].on => ~Execute(controller, cmd).sets[t].on
<1>. DEFINE c == controller  d == Execute(c, cmd)
<1>1. CASE cmd.op = "reset" /\ ~d.sets[t].on
  BY <1>1
<1>2. CASE d = c /\ (Mixes(c, cmd) \/ ~Accepts(c, cmd))
  <2>1. ASSUME TurnsOff(cmd, t)
        PROVE  ~c.sets[t].on
    <3>1. cmd.op = (IF t = "btl" THEN "disable" ELSE "ext disable")
      BY <2>1 DEF TurnsOff
    <3>2. Accepts(c, cmd)
      BY <3>1 DEF Accepts
    <3>3. Api(cmd.op) = (IF t = "btl" THEN "legacy" ELSE "extended")
      BY <3>1 DEF Api, LegacyOps, ExtendedOps
    <3>4. exclusive /\ c.api # Api(cmd.op)
      BY <1>2, <3>2 DEF Mixes
    <3>. QED  BY <3>3, <3>4 DEF ApiInv
  <2>. QED  BY <1>2, <2>1
<1>3. CASE d.sets[t] = (IF t \in cmd.sets THEN Effect(c.sets[t], cmd) ELSE c.sets[t])
  <2>1. ASSUME TurnsOff(cmd, t)
        PROVE  ~d.sets[t].on
    BY <1>3, <2>1, EffectOn DEF TurnsOff
  <2>2. ASSUME ~TurnsOn(cmd, t), ~c.sets[t].on
        PROVE  ~d.sets[t].on
    BY <1>3, <2>2, EffectOn DEF TurnsOn
  <2>. QED  BY <2>1, <2>2
<1>. HIDE DEF d
<1>4. \/ cmd.op = "reset" /\ ~d.sets[t].on
      \/ d = c /\ (Mixes(c, cmd) \/ ~Accepts(c, cmd))
      \/ d.sets[t] = (IF t \in cmd.sets THEN Effect(c.sets[t], cmd) ELSE c.sets[t])
  BY ExecuteCases DEF d
<1>. QED  BY <1>1, <1>2, <1>3, <1>4 DEF d

LEMMA ExecuteApi ==
  ASSUME controller \in Controllers, ApiInv, NEW cmd \in ProperCommands, NEW t \in Transports,
         exclusive, Execute(controller, cmd).sets[t].on
  PROVE  Execute(controller, cmd).api = (IF t = "btl" THEN "legacy" ELSE "extended")
<1>. DEFINE c == controller  d == Execute(c, cmd)
            own == IF t = "btl" THEN "legacy" ELSE "extended"
<1>0. cmd \in CommandSet /\ Proper(cmd)
  BY DEF ProperCommands
<1>1. c.sets[t].on => c.api = own
  BY DEF ApiInv
<1>2. CASE d = c
  BY <1>1, <1>2
<1>3. CASE /\ ~Mixes(c, cmd)
           /\ d.api = (IF c.api = "any" THEN Api(cmd.op) ELSE c.api)
           /\ d.sets[t] = (IF t \in cmd.sets THEN Effect(c.sets[t], cmd) ELSE c.sets[t])
  <2>1. CASE c.sets[t].on
    BY <1>1, <1>3, <2>1
  <2>2. CASE ~c.sets[t].on
    <3>1. t \in cmd.sets /\ cmd.op \in {"enable", "ext enable"}
      BY <1>0, <1>3, <2>2, EffectOn
    <3>2. Api(cmd.op) = own
      BY <1>0, <3>1 DEF Proper, Api, LegacyOps, ExtendedOps, Extended
    <3>3. c.api = "any" \/ c.api = own
      BY <1>3, <3>2 DEF Mixes
    <3>. QED  BY <1>3, <3>2, <3>3
  <2>. QED  BY <2>1, <2>2
<1>. HIDE DEF d
<1>. QED  BY <1>0, <1>2, <1>3, ExecuteCases DEF d

----------------------------------------------------------------------------
(* What is pending *)

LEMMA Associative ==
  \A S : \A s, t, u \in Seq(S) : (s \o t) \o u = s \o (t \o u)
BY ConcatAssociative

LEMMA HeadAndTail ==
  ASSUME NEW S, NEW s \in Seq(S), s # <<>>
  PROVE  <<Head(s)>> \o Tail(s) = s /\ Head(s) = s[1] /\ Head(s) \in S
<1>1. /\ Head(s) \in S /\ Tail(s) \in Seq(S) /\ Len(Tail(s)) = Len(s) - 1
      /\ \A i \in 1..Len(Tail(s)) : Tail(s)[i] = s[i + 1]
  BY HeadTailProperties
<1>2. Len(s) \in Nat /\ Head(s) = s[1]
  OBVIOUS
<1>. DEFINE p == <<Head(s)>>  q == Tail(s)
<1>3. p \in Seq(S) /\ Len(p) = 1 /\ p[1] = Head(s)
  BY <1>1
<1>. HIDE DEF p, q
<1>4. /\ p \o q \in Seq(S) /\ Len(p \o q) = 1 + Len(q)
      /\ \A i \in 1..(1 + Len(q)) : (p \o q)[i] = IF i <= 1 THEN p[i] ELSE q[i - 1]
  <2>1. q \in Seq(S) /\ p \in Seq(S) /\ Len(q) \in Nat
    BY <1>1, <1>3 DEF q
  <2>2. /\ p \o q \in Seq(S) /\ Len(p \o q) = Len(p) + Len(q)
        /\ \A i \in 1..(Len(p) + Len(q)) : (p \o q)[i] = IF i <= Len(p) THEN p[i] ELSE q[i - Len(p)]
    BY <2>1, ConcatProperties, Zenon
  <2>. QED  BY <1>3, <2>1, <2>2
<1>5. Len(p \o q) = Len(s)
  BY <1>1, <1>2, <1>4 DEF q
<1>6. ASSUME NEW i \in 1..Len(s)
      PROVE  (p \o q)[i] = s[i]
  <2>1. i \in 1..(1 + Len(q))
    BY <1>4, <1>5
  <2>2. CASE i = 1
    BY <1>2, <1>3, <1>4, <2>1, <2>2
  <2>3. CASE i # 1
    <3>1. i - 1 \in 1..Len(q) /\ (i - 1) + 1 = i /\ ~(i <= 1)
      BY <1>1, <1>2, <2>3 DEF q
    <3>2. q[i - 1] = s[(i - 1) + 1]
      BY <1>1, <3>1 DEF q
    <3>. QED  BY <1>4, <2>1, <3>1, <3>2
  <2>. QED  BY <2>2, <2>3
<1>7. p \o q = s
  BY <1>4, <1>5, <1>6, SeqEqual
<1>. QED  BY <1>1, <1>2, <1>7 DEF p, q

\* Sending moves the boundary between commands and todo, and nothing else.
LEMMA HeadMoves ==
  ASSUME NEW S, NEW s \in Seq(S), NEW t \in Seq(S), t # <<>>
  PROVE  Append(s, Head(t)) \o Tail(t) = s \o t
<1>. DEFINE p == <<Head(t)>>  q == Tail(t)
<1>1. Head(t) \in S /\ q \in Seq(S) /\ p \o q = t
  BY HeadTailProperties, HeadAndTail
<1>2. p \in Seq(S) /\ Append(s, Head(t)) = s \o p
  BY <1>1, AppendIsConcat
<1>. HIDE DEF p, q
<1>3. q \in Seq(S) /\ p \in Seq(S)
  BY <1>1, <1>2
<1>4. (s \o p) \o q = s \o (p \o q)
  BY <1>3, Associative
<1>. QED  BY <1>1, <1>2, <1>4 DEF q

LEMMA TailOfPending ==
  ASSUME NEW S, NEW s \in Seq(S), NEW t \in Seq(S), s # <<>>
  PROVE  Head(s \o t) = Head(s) /\ Tail(s \o t) = Tail(s) \o t /\ s \o t # <<>>
<1>. DEFINE p == <<Head(s)>>  q == Tail(s)  r == q \o t
<1>1. Head(s) \in S /\ q \in Seq(S) /\ p \o q = s /\ p \in Seq(S)
  BY HeadTailProperties, HeadAndTail
<1>2. (p \o q) \o t = p \o r
  BY <1>1, ConcatAssociative
<1>3. r \in Seq(S)
  BY <1>1, ConcatProperties
<1>4. ASSUME NEW u \in Seq(S), NEW e \in S
      PROVE  <<e>> \o u # <<>> /\ Head(<<e>> \o u) = e /\ Tail(<<e>> \o u) = u
  <2>. DEFINE v == <<e>> \o u
  <2>1. v \in Seq(S) /\ Len(v) = Len(u) + 1 /\ v[1] = e /\ \A i \in 1..Len(u) : v[i + 1] = u[i]
    OBVIOUS
  <2>. HIDE DEF v
  <2>2. v # <<>>
    BY <2>1
  <2>3. /\ Tail(v) \in Seq(S) /\ Len(Tail(v)) = Len(u)
        /\ \A i \in 1..Len(Tail(v)) : Tail(v)[i] = v[i + 1]
    BY <2>1, <2>2, HeadTailProperties
  <2>4. Tail(v) = u
    BY <2>1, <2>3, SeqEqual
  <2>5. Head(v) = e
    BY <2>1, <2>2, HeadAndTail
  <2>. QED  BY <2>2, <2>4, <2>5 DEF v
<1>. HIDE DEF q, r
<1>5. Head(p \o r) = Head(s) /\ Tail(p \o r) = r /\ p \o r # <<>>
  BY <1>1, <1>3, <1>4
<1>. HIDE DEF p
<1>6. s \o t = p \o r
  BY <1>1, <1>2
<1>. QED  BY <1>5, <1>6 DEF q, r

LEMMA TailQuiet ==
  ASSUME NEW s \in Scripts, s # <<>>, NEW t
  PROVE  /\ Quiet(s, t) => ~TurnsOn(Head(s), t) /\ Quiet(Tail(s), t)
         /\ Silences(s, t) => Silences(Tail(s), t) \/ (TurnsOff(Head(s), t) /\ Quiet(Tail(s), t))
<1>. DEFINE r == Tail(s)
<1>1. Len(s) \in Nat /\ Len(s) # 0 /\ Head(s) = s[1] /\ Len(r) = Len(s) - 1
  BY EmptySeq DEF Scripts
<1>2. \A i \in 1..Len(r) : r[i] = s[i + 1] /\ i + 1 \in 1..Len(s)
  BY <1>1 DEF Scripts
<1>. HIDE DEF r
<1>3. 1 \in 1..Len(s)
  BY <1>1
<1>4. ASSUME Quiet(s, t)
      PROVE  ~TurnsOn(Head(s), t) /\ Quiet(r, t)
  BY <1>1, <1>2, <1>3, <1>4 DEF Quiet
<1>5. ASSUME Silences(s, t)
      PROVE  Silences(r, t) \/ (TurnsOff(Head(s), t) /\ Quiet(r, t))
  <2>1. PICK j \in 1..Len(s) : TurnsOff(s[j], t) /\ \A i \in j..Len(s) : ~TurnsOn(s[i], t)
    BY <1>5 DEF Silences
  <2>2. CASE j = 1
    <3>1. \A i \in 1..Len(r) : ~TurnsOn(r[i], t)
      BY <1>2, <2>1, <2>2
    <3>. QED  BY <1>1, <2>1, <2>2, <3>1 DEF Quiet
  <2>3. CASE j # 1
    <3>1. j - 1 \in 1..Len(r) /\ r[j - 1] = s[j]
      <4>1. j - 1 \in 1..Len(r) /\ (j - 1) + 1 = j
        BY <1>1, <2>3
      <4>. QED  BY <1>2, <4>1
    <3>2. ASSUME NEW i \in (j - 1)..Len(r)
          PROVE  ~TurnsOn(r[i], t)
      <4>1. i \in 1..Len(r) /\ i + 1 \in j..Len(s)
        BY <1>1, <2>3
      <4>. QED  BY <1>2, <2>1, <4>1
    <3>. QED  BY <2>1, <3>1, <3>2 DEF Silences
  <2>. QED  BY <2>2, <2>3
<1>. QED  BY <1>4, <1>5 DEF r

\* Whatever is pending, the script of stop_transmit behind it silences every set.
LEMMA StopSilences ==
  ASSUME NEW s \in Scripts, NEW t \in Transports
  PROVE  Silences(s \o StopTransmit, t)
<1>. DEFINE r == s \o StopTransmit  n == Len(s)
<1>1. /\ Len(StopTransmit) = 4
      /\ StopTransmit[1].op = "disable" /\ StopTransmit[1].sets = {"btl"}
      /\ StopTransmit[2].op = "ext disable" /\ StopTransmit[2].sets = Extended
      /\ StopTransmit[3].op = "remove" /\ StopTransmit[4].op = "remove"
  BY DEF StopTransmit, Command
<1>2. StopTransmit \in Seq(CommandSet) /\ s \in Seq(CommandSet)
  <2>1. s \in Seq(CommandSet)
    BY DEF Scripts, ProperCommands
  <2>. QED  BY <2>1, StopTransmitType, ScriptsAreCommands
<1>d. n \in Nat
  BY <1>2
<1>3. /\ Len(r) = n + 4
      /\ \A i \in 1..(n + 4) : r[i] = IF i <= n THEN s[i] ELSE StopTransmit[i - n]
  <2>1. /\ Len(r) = Len(s) + Len(StopTransmit)
        /\ \A i \in 1..(Len(s) + Len(StopTransmit)) :
             r[i] = IF i <= Len(s) THEN s[i] ELSE StopTransmit[i - Len(s)]
    BY <1>2, ConcatProperties
  <2>. QED  BY <1>1, <2>1
<1>. HIDE DEF r, n
<1>a. /\ r[n + 1] = StopTransmit[1] /\ r[n + 2] = StopTransmit[2]
      /\ r[n + 3] = StopTransmit[3] /\ r[n + 4] = StopTransmit[4]
  BY <1>d, <1>3
<1>b. n + 1 \in 1..Len(r) /\ n + 2 \in 1..Len(r)
  BY <1>d, <1>3
<1>c. \A i \in (n + 1)..Len(r) : ~TurnsOn(r[i], t)
  <2>. SUFFICES ASSUME NEW i \in (n + 1)..Len(r) PROVE ~TurnsOn(r[i], t)
    OBVIOUS
  <2>1. i \in {n + 1, n + 2, n + 3, n + 4}
    BY <1>d, <1>3
  <2>2. r[i] \in {StopTransmit[1], StopTransmit[2], StopTransmit[3], StopTransmit[4]}
    BY <1>a, <2>1
  <2>3. r[i].op \in {"disable", "ext disable", "remove"}
    BY <1>1, <2>2
  <2>. QED  BY <2>3 DEF TurnsOn
<1>4. CASE t = "btl"
  <2>1. r[n + 1].op = "disable" /\ t \in r[n + 1].sets
    BY <1>1, <1>4, <1>a
  <2>2. TurnsOff(r[n + 1], t)
    BY <1>4, <2>1 DEF TurnsOff
  <2>3. Silences(r, t)
    BY <1>b, <1>c, <2>2 DEF Silences
  <2>. QED  BY <2>3 DEF r
<1>5. CASE t # "btl"
  <2>1. r[n + 2].op = "ext disable" /\ t \in r[n + 2].sets
    BY <1>1, <1>5, <1>a DEF Transports, Extended
  <2>2. TurnsOff(r[n + 2], t)
    BY <1>5, <2>1 DEF TurnsOff
  <2>3. \A i \in (n + 2)..Len(r) : ~TurnsOn(r[i], t)
    <3>1. \A i \in (n + 2)..Len(r) : i \in (n + 1)..Len(r)
      BY <1>d, <1>3
    <3>. QED  BY <1>c, <3>1
  <2>4. Silences(r, t)
    BY <1>b, <2>2, <2>3 DEF Silences
  <2>. QED  BY <2>4 DEF r
<1>. QED  BY <1>4, <1>5

\* Sending and reading leave what is pending as it is.
LEMMA PendingKept ==
  ASSUME SilenceInv, FlagsOK, HostSend \/ HostRead \/ HostReadFails
  PROVE  Pending' = Pending /\ todo' \in Scripts /\ commands' \in Scripts
<1>0. todo \in Scripts /\ commands \in Scripts
  BY DEF SilenceInv
<1>1. CASE HostSend
  <2>1. /\ todo # <<>> /\ ~reading /\ reading' /\ todo' = todo
        /\ commands' = Append(commands, Head(todo))
    BY <1>1 DEF HostSend
  <2>2. Append(commands, Head(todo)) \o Tail(todo) = commands \o todo
    BY <1>0, <2>1, HeadMoves DEF Scripts
  <2>3. commands' \in Scripts
    BY <1>0, <2>1, TailFacts, AppendFacts DEF Scripts
  <2>. QED  BY <1>0, <2>1, <2>2, <2>3 DEF Pending
<1>2. CASE HostRead \/ HostReadFails
  <2>1. reading /\ ~reading' /\ todo' = Tail(todo) /\ commands' = commands /\ todo # <<>>
    BY <1>2 DEF HostRead, HostReadFails, Return, FlagsOK
  <2>2. todo' \in Scripts
    BY <1>0, <2>1, TailFacts DEF Scripts
  <2>. QED  BY <1>0, <2>1, <2>2 DEF Pending
<1>. QED  BY <1>1, <1>2

LEMMA PendingExecuted ==
  ASSUME SilenceInv, FlagsOK, ControllerExecutes
  PROVE  /\ Pending \in Scripts /\ Pending # <<>> /\ Head(Pending) = Head(commands)
         /\ Pending' = Tail(Pending) /\ commands' \in Scripts /\ Head(commands) \in ProperCommands
<1>. DEFINE rest == IF reading THEN Tail(todo) ELSE todo
<1>1. /\ commands \in Scripts /\ todo \in Scripts /\ commands # <<>> /\ commands' = Tail(commands)
      /\ UNCHANGED <<reading, todo>>
  BY DEF SilenceInv, ControllerExecutes, hostVars
<1>2. rest \in Scripts
  BY <1>1, TailFacts DEF FlagsOK, Scripts
<1>3. Pending = commands \o rest /\ Pending' = Tail(commands) \o rest
  BY <1>1 DEF Pending
<1>. HIDE DEF rest
<1>4. Head(commands) \in ProperCommands /\ Tail(commands) \in Scripts
  BY <1>1, TailFacts DEF Scripts
<1>5. commands \o rest \in Scripts
  BY <1>1, <1>2, Joined
<1>6. Head(commands \o rest) = Head(commands) /\ Tail(commands \o rest) = Tail(commands) \o rest
      /\ commands \o rest # <<>>
  BY <1>1, <1>2, TailOfPending DEF Scripts
<1>. QED  BY <1>1, <1>3, <1>4, <1>5, <1>6

\* A set that is to be silenced, or is silent, stays so.
Silent(t) == Silences(Pending, t) \/ (~controller.sets[t].on /\ Quiet(Pending, t))

LEMMA SilenceStarts ==
  ASSUME Init
  PROVE  SilenceInv
<1>1. /\ config \in SUBSET Transports /\ todo = InitBluetooth(config) /\ commands = <<>> /\ stage = "init"
      /\ controller = ResetController
  BY HciAssumption DEF Init, Transports
<1>2. todo \in Scripts /\ commands \in Scripts
  BY <1>1, InitBluetoothType DEF Scripts
<1>3. NoSet \in [made : BOOLEAN, addressed : BOOLEAN, on : BOOLEAN, data : 0..MaxMessages] /\ ~NoSet.on
  BY HciAssumption DEF NoSet
<1>4. controller \in Controllers
  BY <1>1, <1>3 DEF ResetController, Controllers
<1>5. ApiInv
  BY <1>1, <1>3 DEF ResetController, ApiInv
<1>. QED  BY <1>1, <1>2, <1>4, <1>5 DEF SilenceInv

LEMMA SilenceStep ==
  ASSUME ConfigOK, StepInv, SilenceInv, [Next]_vars
  PROVE  SilenceInv'
<1>0. /\ FlagsOK /\ QueuesOK /\ commands \in Scripts /\ todo \in Scripts
      /\ (stage = "closed" => todo = <<>>) /\ controller \in Controllers /\ ApiInv
      /\ (stage \in {"closing", "closed"} => \A t \in Transports : Silent(t))
  BY StepInvParts DEF SilenceInv, Silent
<1>s. ASSUME commands' \in Scripts, todo' \in Scripts, stage' = "closed" => todo' = <<>>,
             controller' \in Controllers, ApiInv',
             stage' \in {"closing", "closed"} => \A t \in Transports : Silent(t)'
      PROVE  SilenceInv'
  BY <1>s DEF SilenceInv, Silent
<1>k. ASSUME UNCHANGED <<exclusive, controller>>
      PROVE  controller' \in Controllers /\ ApiInv' /\ (Pending' = Pending => \A t \in Transports : Silent(t)' <=> Silent(t))
  <2>1. controller' \in Controllers /\ ApiInv'
    BY <1>0, <1>k DEF ApiInv
  <2>2. ASSUME Pending' = Pending, NEW t \in Transports
        PROVE  Silent(t)' <=> Silent(t)
    BY <1>k, <2>2 DEF Silent, Silences, Quiet
  <2>. QED  BY <2>1, <2>2
<1>1. CASE HostSend
  <2>1. Pending' = Pending /\ todo' \in Scripts /\ commands' \in Scripts
    BY <1>0, <1>1, PendingKept
  <2>2. UNCHANGED <<exclusive, controller>> /\ stage' = stage /\ todo' = todo
    BY <1>1 DEF HostSend
  <2>. QED  BY <1>0, <1>s, <1>k, <2>1, <2>2
<1>2. CASE HostRead \/ HostReadFails
  <2>1. Pending' = Pending /\ todo' \in Scripts /\ commands' \in Scripts
    BY <1>0, <1>2, PendingKept
  <2>2. UNCHANGED <<exclusive, controller>> /\ reading /\ todo # <<>> /\ todo' = Tail(todo)
        /\ stage' = IF Len(todo) > 1 THEN stage ELSE IF stage = "closing" THEN "closed" ELSE "idle"
    BY <1>0, <1>2 DEF HostRead, HostReadFails, Return, FlagsOK
  <2>3. stage' \in {"closing", "closed"} => stage \in {"closing", "closed"}
    BY <2>2
  <2>4. stage' = "closed" => todo' = <<>>
    <3>1. stage # "closed"
      BY <1>0, <2>2
    <3>2. ~(Len(todo) > 1) => Tail(todo) = <<>>
      BY <1>0, <2>2, LastGone DEF Scripts
    <3>. QED  BY <2>2, <3>1, <3>2
  <2>. QED  BY <1>0, <1>s, <1>k, <2>1, <2>2, <2>3, <2>4
<1>3. CASE HostTransmit
  <2>1. stage' = "sending" /\ sent' \in 0..MaxMessages /\ sent' = sent + 1
        /\ todo' = SendMessage(config, sent + 1) /\ UNCHANGED <<exclusive, controller, commands>>
    BY <1>0, <1>3, HciAssumption DEF HostTransmit, QueuesOK
  <2>2. todo' \in Scripts
    BY <2>1, SendMessageType DEF ConfigOK
  <2>. QED  BY <1>0, <1>s, <1>k, <2>1, <2>2
<1>4. CASE HostClose
  <2>1. /\ stage' = "closing" /\ stage = "idle" /\ todo' = StopTransmit /\ reading' = reading
        /\ UNCHANGED <<exclusive, controller, commands>>
    BY <1>4 DEF HostClose
  <2>2. ~reading /\ todo' \in Scripts
    BY <1>0, <2>1, StopTransmitType DEF FlagsOK
  <2>3. Pending' = commands \o StopTransmit
    BY <2>1, <2>2 DEF Pending
  <2>4. ASSUME NEW t \in Transports
        PROVE  Silent(t)'
    <3>1. Silences(Pending', t)
      BY <1>0, <2>3, StopSilences
    <3>. QED  BY <3>1 DEF Silent, Silences
  <2>. QED  BY <1>0, <1>s, <1>k, <2>1, <2>2, <2>4
<1>5. CASE HostSendFails \/ HostKilled
  <2>1. stage' = "exited" /\ todo' = <<>> /\ UNCHANGED <<exclusive, controller, commands>>
    BY <1>5 DEF HostSendFails, HostKilled
  <2>2. todo' \in Scripts
    BY <2>1 DEF Scripts
  <2>. QED  BY <1>0, <1>s, <1>k, <2>1, <2>2
<1>6. CASE ControllerExecutes
  <2>. DEFINE cmd == Head(commands)
  <2>1. /\ Pending \in Scripts /\ Pending # <<>> /\ Head(Pending) = cmd
        /\ Pending' = Tail(Pending) /\ commands' \in Scripts /\ cmd \in ProperCommands
    BY <1>0, <1>6, PendingExecuted
  <2>2. PICK read \in Readings(cmd) :
          controller' = Execute(controller, read) /\ UNCHANGED <<stage, todo, exclusive>>
    BY <1>6 DEF ControllerExecutes, hostVars
  <2>. HIDE DEF cmd
  <2>3. /\ read \in ProperCommands /\ read \in CommandSet
        /\ read.op = cmd.op /\ read.sets \subseteq cmd.sets
        /\ read = cmd \/ cmd.op = "ext enable"
    BY <2>1, ReadingFacts
  <2>4. controller' \in Controllers
    BY <1>0, <2>2, <2>3, ExecuteType
  <2>5. ApiInv'
    BY <1>0, <2>2, <2>3, ExecuteApi DEF ApiInv
  <2>6. ASSUME NEW t \in Transports, Silent(t)
        PROVE  Silent(t)'
    <3>0. (TurnsOff(cmd, t) => TurnsOff(read, t)) /\ (TurnsOn(read, t) => TurnsOn(cmd, t))
      BY <2>3 DEF TurnsOff, TurnsOn
    <3>1. /\ TurnsOff(cmd, t) => ~controller'.sets[t].on
          /\ ~TurnsOn(cmd, t) /\ ~controller.sets[t].on => ~controller'.sets[t].on
      BY <1>0, <2>2, <2>3, <3>0, ExecuteOn
    <3>2. Silences(Tail(Pending), t) \/ (~controller'.sets[t].on /\ Quiet(Tail(Pending), t))
      BY <2>1, <2>6, <3>1, TailQuiet DEF Silent
    <3>. QED  BY <2>1, <3>2 DEF Silent, Silences, Quiet
  <2>. QED  BY <1>0, <1>s, <2>1, <2>2, <2>4, <2>5, <2>6
<1>7. CASE StrayEvent \/ Ended \/ UNCHANGED vars
  <2>1. UNCHANGED <<stage, todo, reading, commands, exclusive, controller>>
    BY <1>7 DEF StrayEvent, Ended, vars, hostVars
  <2>2. Pending' = Pending
    BY <2>1 DEF Pending
  <2>. QED  BY <1>0, <1>s, <1>k, <2>1, <2>2
<1>8. CASE HostRestart
  <2>1. /\ stage' = "init" /\ config' \in SUBSET Transports /\ todo' = InitBluetooth(config')
        /\ UNCHANGED <<exclusive, controller, commands>>
    BY <1>8, HciAssumption DEF HostRestart, Transports
  <2>2. todo' \in Scripts
    BY <2>1, InitBluetoothType
  <2>. QED  BY <1>0, <1>s, <1>k, <2>1, <2>2
<1>. QED  BY <1>1, <1>2, <1>3, <1>4, <1>5, <1>6, <1>7, <1>8 DEF Next, HostStep, HostFault

LEMMA SilentAtLast ==
  ASSUME StepInv, SilenceInv
  PROVE  SilentOnceClosed
<1>. SUFFICES ASSUME stage = "closed", commands = <<>>, NEW t \in Transports
              PROVE  ~controller.sets[t].on
  BY DEF SilentOnceClosed, InStep, OnAir
<1>1. todo = <<>> /\ ~reading
  BY DEF SilenceInv, StepInv
<1>2. Pending = <<>>
  BY <1>1 DEF Pending
<1>3. ~Silences(<<>>, t)
  BY DEF Silences
<1>. QED  BY <1>2, <1>3 DEF SilenceInv

\* However many messages were sent, events strayed, commands were refused and
\* reads failed, and wherever earlier runs were killed: after close_bluetooth,
\* once the controller has caught up, nothing is on air.
THEOREM SilenceAfterClose == Spec => []SilentOnceClosed
<1>1. Init => SilenceInv
  BY SilenceStarts
<1>2. ConfigOK /\ StepInv /\ SilenceInv /\ [Next]_vars => SilenceInv'
  BY SilenceStep
<1>3. StepInv /\ SilenceInv => SilentOnceClosed
  BY SilentAtLast
<1>. QED  BY InitStep, NextStep, <1>1, <1>2, <1>3, PTL DEF Spec

----------------------------------------------------------------------------
(* Types *)

\* What has strayed, failed or been given up is what is no longer left to.
Running == IF stage \in {"closed", "exited"} THEN 0 ELSE 1

BudgetInv ==
  /\ config \in Configs
  /\ stage \in {"init", "idle", "sending", "closing", "closed", "exited"}
  /\ straysLeft \in 0..MaxStrays /\ faultsLeft \in 0..MaxFaults /\ restartsLeft \in 0..MaxRestarts
  /\ extra \in Nat
  /\ extra + straysLeft + faultsLeft + restartsLeft + Running <= MaxStrays + MaxFaults + MaxRestarts + 1
  /\ exclusive \in BOOLEAN

LEMMA BudgetStep ==
  ASSUME StepInv, BudgetInv, [Next]_vars
  PROVE  BudgetInv'
<1>. DEFINE total == MaxStrays + MaxFaults + MaxRestarts + 1
<1>0. /\ config \in Configs /\ exclusive \in BOOLEAN
      /\ stage \in {"init", "idle", "sending", "closing", "closed", "exited"}
      /\ straysLeft \in 0..MaxStrays /\ faultsLeft \in 0..MaxFaults /\ restartsLeft \in 0..MaxRestarts
      /\ extra \in Nat /\ extra + straysLeft + faultsLeft + restartsLeft + Running <= total
      /\ MaxStrays \in Nat /\ MaxFaults \in Nat /\ MaxRestarts \in Nat /\ total \in Nat
  BY HciAssumption DEF BudgetInv
<1>. HIDE DEF total
<1>r. /\ Running \in {0, 1} /\ Running' \in {0, 1}
      /\ (Running = 0 <=> stage \in {"closed", "exited"})
      /\ (Running' = 0 <=> stage' \in {"closed", "exited"})
  BY DEF Running
<1>s. ASSUME config' \in Configs, exclusive' = exclusive,
             stage' \in {"init", "idle", "sending", "closing", "closed", "exited"},
             straysLeft' \in 0..MaxStrays, faultsLeft' \in 0..MaxFaults, restartsLeft' \in 0..MaxRestarts,
             extra' \in Nat, extra' + straysLeft' + faultsLeft' + restartsLeft' + Running' <= total
      PROVE  BudgetInv'
  BY <1>0, <1>s DEF BudgetInv, total
<1>f. FlagsOK /\ QueuesOK /\ OneEventPerCommand
  BY StepInvParts
<1>1. CASE HostSend \/ HostTransmit \/ HostClose
  <2>1. /\ UNCHANGED <<config, straysLeft, faultsLeft, restartsLeft, extra, exclusive>>
        /\ stage' = stage \/ (stage = "idle" /\ stage' \in {"sending", "closing"})
    BY <1>1 DEF HostSend, HostTransmit, HostClose, bounds
  <2>2. Running' = Running
    BY <2>1 DEF Running
  <2>. QED  BY <1>0, <1>s, <2>1, <2>2
<1>2. CASE HostRead \/ HostReadFails
  <2>1. /\ UNCHANGED <<config, straysLeft, restartsLeft, exclusive>> /\ reading
        /\ stage' \in {stage, "closed", "idle"}
        /\ (extra' = extra /\ faultsLeft' = faultsLeft)
           \/ (extra' = extra + 1 /\ faultsLeft > 0 /\ faultsLeft' = faultsLeft - 1)
    BY <1>2 DEF HostRead, HostReadFails, Return, bounds
  <2>2. Running = 1
    <3>1. stage \notin {"closed", "exited"}
      BY <1>f, <2>1 DEF FlagsOK
    <3>. QED  BY <1>r, <3>1
  <2>3. faultsLeft' \in 0..MaxFaults /\ extra' \in Nat /\ extra' + faultsLeft' = extra + faultsLeft
    BY <1>0, <2>1
  <2>4. extra' + straysLeft + faultsLeft' + restartsLeft = extra + straysLeft + faultsLeft + restartsLeft
    BY <1>0, <2>1
  <2>5. CASE Running' = 0
    <3>1. extra' + straysLeft' + faultsLeft' + restartsLeft' + Running' <= total
      BY <1>0, <1>r, <2>1, <2>2, <2>4, <2>5
    <3>. QED  BY <1>0, <1>s, <2>1, <2>3, <3>1
  <2>6. CASE Running' = 1
    <3>1. extra' + straysLeft' + faultsLeft' + restartsLeft' + Running' <= total
      BY <1>0, <1>r, <2>1, <2>2, <2>4, <2>6
    <3>. QED  BY <1>0, <1>s, <2>1, <2>3, <3>1
  <2>. QED  BY <1>r, <2>5, <2>6
<1>3. CASE HostSendFails
  <2>1. /\ UNCHANGED <<config, straysLeft, restartsLeft, exclusive, extra>> /\ stage' = "exited"
        /\ faultsLeft > 0 /\ faultsLeft' = faultsLeft - 1
    BY <1>3 DEF HostSendFails
  <2>2. faultsLeft' \in 0..MaxFaults /\ Running' = 0
    BY <1>0, <1>r, <2>1
  <2>3. extra' + straysLeft' + faultsLeft' + restartsLeft' + Running' <= total
    BY <1>0, <1>r, <2>1, <2>2
  <2>. QED  BY <1>0, <1>s, <2>1, <2>2, <2>3
<1>4. CASE HostKilled
  <2>1. /\ UNCHANGED <<config, straysLeft, faultsLeft, restartsLeft, exclusive>> /\ stage' = "exited"
        /\ stage \notin {"closed", "exited"} /\ extra' = extra + Awaited
    BY <1>4 DEF HostKilled, bounds
  <2>2. Running = 1 /\ Running' = 0 /\ Awaited \in {0, 1}
    BY <1>r, <2>1 DEF Awaited
  <2>3. extra' \in Nat /\ extra' + straysLeft' + faultsLeft' + restartsLeft' + Running' <= total
    BY <1>0, <2>1, <2>2
  <2>. QED  BY <1>0, <1>s, <2>1, <2>3
<1>5. CASE HostRestart
  <2>1. /\ UNCHANGED <<straysLeft, faultsLeft, exclusive>> /\ stage' = "init" /\ config' \in Configs
        /\ stage \in {"closed", "exited"} /\ extra' = Len(commands)
        /\ restartsLeft > 0 /\ restartsLeft' = restartsLeft - 1
    BY <1>5 DEF HostRestart
  <2>2. Running = 0 /\ Running' = 1 /\ ~reading
    BY <1>f, <1>r, <2>1 DEF FlagsOK
  <2>3. Len(commands) \in Nat /\ Len(events) \in Nat /\ Len(commands) + Len(events) = extra
    <3>1. Awaited = 0
      BY <2>2 DEF Awaited
    <3>2. commands \in Seq(CommandSet) /\ events \in Seq(Ops \cup {"stray"})
      BY <1>f DEF QueuesOK
    <3>3. Len(commands) \in Nat /\ Len(events) \in Nat
      BY <3>2
    <3>. QED  BY <1>0, <1>f, <3>1, <3>3 DEF OneEventPerCommand
  <2>4. extra' \in Nat /\ extra' <= extra /\ restartsLeft' \in 0..MaxRestarts
    BY <1>0, <2>1, <2>3
  <2>5. extra' + straysLeft' + faultsLeft' + restartsLeft' + Running' <= total
    BY <1>0, <2>1, <2>2, <2>4
  <2>. QED  BY <1>0, <1>s, <2>1, <2>4, <2>5
<1>6. CASE StrayEvent
  <2>1. /\ UNCHANGED <<config, stage, faultsLeft, restartsLeft, exclusive>> /\ extra' = extra + 1
        /\ straysLeft > 0 /\ straysLeft' = straysLeft - 1
    BY <1>6 DEF StrayEvent, hostVars
  <2>2. straysLeft' \in 0..MaxStrays /\ extra' \in Nat /\ Running' = Running
    BY <1>0, <2>1 DEF Running
  <2>3. extra' + straysLeft' + faultsLeft' + restartsLeft' + Running' <= total
    BY <1>0, <1>r, <2>1, <2>2
  <2>. QED  BY <1>0, <1>s, <2>1, <2>2, <2>3
<1>7. CASE ControllerExecutes \/ Ended \/ UNCHANGED vars
  <2>1. UNCHANGED <<config, stage, straysLeft, faultsLeft, restartsLeft, extra, exclusive>>
    BY <1>7 DEF ControllerExecutes, Ended, vars, hostVars, bounds
  <2>2. Running' = Running
    BY <2>1 DEF Running
  <2>. QED  BY <1>0, <1>s, <2>1, <2>2
<1>. QED  BY <1>1, <1>2, <1>3, <1>4, <1>5, <1>6, <1>7 DEF Next, HostStep, HostFault

\* For any number of messages, strays and faults every variable keeps its type.
THEOREM TypeCorrect == Spec => []TypeOK
<1>1. Init => SilenceInv
  BY SilenceStarts
<1>2. ConfigOK /\ StepInv /\ SilenceInv /\ [Next]_vars => SilenceInv'
  BY SilenceStep
<1>3. Init => BudgetInv
  BY HciAssumption DEF Init, BudgetInv, Running
<1>4. StepInv /\ BudgetInv /\ [Next]_vars => BudgetInv'
  BY BudgetStep
<1>5. StepInv /\ SilenceInv /\ BudgetInv => TypeOK
  <2>. SUFFICES ASSUME StepInv, SilenceInv, BudgetInv PROVE TypeOK
    OBVIOUS
  <2>1. extra \in 0..(MaxStrays + MaxFaults + MaxRestarts + 1)
    <3>1. Running \in Nat
      BY DEF Running
    <3>. QED  BY <3>1, HciAssumption DEF BudgetInv
  <2>. QED  BY <2>1 DEF StepInv, SilenceInv, BudgetInv, TypeOK
<1>. QED  BY InitStep, NextStep, <1>1, <1>2, <1>3, <1>4, <1>5, PTL DEF Spec
=============================================================================
