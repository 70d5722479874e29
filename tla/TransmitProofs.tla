--------------------------- MODULE TransmitProofs ---------------------------
(***************************************************************************)
(* The life of the program, for every retry limit, range of the counters,  *)
(* length of a loop and set of options.                                    *)
(*                                                                         *)
(* GpsInv is inductive for the steps of the gps thread, MainInv (the       *)
(* types) for those of the main thread; AllInv puts them together.  With   *)
(* them CountInv ties the counters to what each transport has heard.       *)
(* LifeInv has what the refinement of Lifecycle needs, FixInv and ApartInv *)
(* what is said of the fix a position comes from.                          *)
(***************************************************************************)
EXTENDS Transmit, SequenceTheorems, TLAPS

----------------------------------------------------------------------------
(* The gps thread *)

\* A retry counter is the number of failures in a row, and stays in its bounds
\* as long as the thread goes on.
GpsInv ==
  /\ GpsTypeOK
  /\ silent = retries /\ broken = read_retries
  /\ gpc # "exited" => /\ retries <= MaxWaitRetries + 1
                       /\ read_retries <= MaxReadRetries + 1
                       /\ exit_status = 0
  /\ DeadGpsStopsLoop
  /\ DataKeepsItAlive

LEMMA GpsStarts == GpsInit => GpsInv
<1>. SUFFICES ASSUME GpsInit PROVE GpsInv
  OBVIOUS
<1>1. location \in [Fields -> 0..MaxFixes]
  BY GpsAssumption DEF GpsInit
<1>2. writing \in Seq(Fields)
  BY DEF GpsInit
<1>3. /\ kill_program = FALSE /\ gpc = "none" /\ retries = 0 /\ read_retries = 0
      /\ exit_status = 0 /\ fix = 0 /\ silent = 0 /\ broken = 0
  BY DEF GpsInit
<1>4. /\ 0 \in 0..(MaxWaitRetries + 2) /\ 0 \in 0..(MaxReadRetries + 2) /\ 0 \in 0..MaxFixes
      /\ 0 <= MaxWaitRetries + 1 /\ 0 <= MaxReadRetries + 1
  BY GpsAssumption
<1>5. GpsTypeOK
  BY <1>1, <1>2, <1>3, <1>4, Zenon DEF GpsTypeOK
<1>. QED
  BY <1>3, <1>4, <1>5 DEF GpsInv, DeadGpsStopsLoop, DataKeepsItAlive

LEMMA Naturals ==
  /\ \A n \in Nat : n > 1 => n # 1
  /\ \A n \in Nat \ {0} : n = 1 \/ n > 1
  /\ \A m, n \in Nat : m = 1 \/ n = 1 => m + n > 0
  /\ \A n \in Nat : (n - 1 = 0 <=> n = 1) /\ n - 1 # n
OBVIOUS

LEMMA NoElements ==
  ASSUME NEW S, NEW s \in Seq(S)
  PROVE  s = <<>> <=> Len(s) = 0
OBVIOUS

LEMMA FirstAndRest ==
  ASSUME NEW S, NEW s \in Seq(S), s # <<>>
  PROVE  /\ Len(s) \in Nat \ {0} /\ Head(s) \in S
         /\ Tail(s) \in Seq(S) /\ Len(Tail(s)) = Len(s) - 1
         /\ Tail(s) = <<>> <=> Len(s) = 1
<1>1. Len(s) \in Nat \ {0}
  OBVIOUS
<1>2. Head(s) \in S /\ Tail(s) \in Seq(S) /\ Len(Tail(s)) = Len(s) - 1
  BY <1>1
<1>3. Tail(s) = <<>> <=> Len(Tail(s)) = 0
  BY <1>2, NoElements
<1>4. Tail(s) = <<>> <=> Len(s) = 1
  BY <1>1, <1>2, <1>3, Naturals
<1>. QED  BY <1>1, <1>2, <1>4

LEMMA AssignmentsType ==
  ASSUME NEW mode, NEW finite
  PROVE  Assignments(mode, finite) \in Seq(Fields)
<1>1. /\ <<"latitude", "longitude">> \in Seq(Fields)
      /\ <<"altitude", "height">> \in Seq(Fields)
      /\ <<>> \in Seq(Fields)
  BY DEF Fields
<1>. DEFINE a == IF mode \in {"2D", "3D"} THEN <<"latitude", "longitude">> ELSE <<>>
            b == IF mode = "3D" /\ finite THEN <<"altitude", "height">> ELSE <<>>
<1>2. a \in Seq(Fields) /\ b \in Seq(Fields)
  BY <1>1
<1>. HIDE DEF a, b
<1>3. a \o b \in Seq(Fields)
  BY <1>2
<1>. QED  BY <1>3 DEF Assignments, a, b

LEMMA GpsCreateKeeps ==
  ASSUME GpsInv, gpc = "none", GpsCreate
  PROVE  GpsInv'
  BY DEF GpsInv, GpsCreate, GpsTypeOK, DeadGpsStopsLoop, DataKeepsItAlive

LEMMA GpsStepKeeps ==
  ASSUME GpsInv, GpsStep
  PROVE  GpsInv'
<1>. USE DEF GpsInv
<1>0. GpsTypeOK /\ MaxWaitRetries \in Nat /\ MaxReadRetries \in Nat /\ MaxFixes \in Nat
  BY GpsAssumption
<1>1. CASE GpsStops
  BY <1>0, <1>1 DEF GpsStops, GpsTypeOK, DeadGpsStopsLoop, DataKeepsItAlive
<1>2. CASE GpsWaits
  BY <1>0, <1>2 DEF GpsWaits, GpsTypeOK, DeadGpsStopsLoop, DataKeepsItAlive
<1>3. CASE GpsNotReady
  <2>1. /\ retries \in 0..(MaxWaitRetries + 1) /\ retries' = retries + 1
        /\ silent' = silent + 1 /\ silent = retries
        /\ UNCHANGED <<read_retries, fix, writing, location, broken>>
    BY <1>0, <1>3 DEF GpsNotReady, GpsTypeOK
  <2>2. CASE retries > MaxWaitRetries
    <3>1. kill_program' = TRUE /\ gpc' = "exited" /\ exit_status' = 1
      BY <1>3, <2>2 DEF GpsNotReady, Retry
    <3>2. retries' = MaxWaitRetries + 2 /\ silent' = MaxWaitRetries + 2
      BY <1>0, <2>1, <2>2
    <3>3. GpsTypeOK'
      BY <1>0, <2>1, <3>1, <3>2 DEF GpsTypeOK
    <3>. QED  BY <2>1, <3>1, <3>2, <3>3 DEF DeadGpsStopsLoop, DataKeepsItAlive
  <2>3. CASE ~(retries > MaxWaitRetries)
    <3>1. gpc' = "check" /\ UNCHANGED <<kill_program, exit_status>> /\ gpc = "wait"
      BY <1>3, <2>3 DEF GpsNotReady, Retry
    <3>2. retries' \in 0..(MaxWaitRetries + 1) /\ retries' \in 0..(MaxWaitRetries + 2)
      BY <1>0, <2>1, <2>3
    <3>3. GpsTypeOK'
      BY <1>0, <2>1, <3>1, <3>2 DEF GpsTypeOK
    <3>. QED  BY <2>1, <3>1, <3>2, <3>3 DEF DeadGpsStopsLoop, DataKeepsItAlive
  <2>. QED  BY <2>2, <2>3
<1>4. CASE GpsReady
  BY <1>0, <1>4 DEF GpsReady, GpsTypeOK, DeadGpsStopsLoop, DataKeepsItAlive
<1>5. CASE GpsReadFails
  <2>1. /\ read_retries \in 0..(MaxReadRetries + 1) /\ read_retries' = read_retries + 1
        /\ broken' = broken + 1 /\ broken = read_retries
        /\ UNCHANGED <<retries, fix, writing, location, silent>>
    BY <1>0, <1>5 DEF GpsReadFails, GpsTypeOK
  <2>2. CASE read_retries > MaxReadRetries
    <3>1. kill_program' = TRUE /\ gpc' = "exited" /\ exit_status' = 1
      BY <1>5, <2>2 DEF GpsReadFails, Retry
    <3>2. read_retries' = MaxReadRetries + 2 /\ broken' = MaxReadRetries + 2
      BY <1>0, <2>1, <2>2
    <3>3. GpsTypeOK'
      BY <1>0, <2>1, <3>1, <3>2 DEF GpsTypeOK
    <3>. QED  BY <2>1, <3>1, <3>2, <3>3 DEF DeadGpsStopsLoop, DataKeepsItAlive
  <2>3. CASE ~(read_retries > MaxReadRetries)
    <3>1. gpc' = "check" /\ UNCHANGED <<kill_program, exit_status>> /\ gpc = "read"
      BY <1>5, <2>3 DEF GpsReadFails, Retry
    <3>2. read_retries' \in 0..(MaxReadRetries + 1) /\ read_retries' \in 0..(MaxReadRetries + 2)
      BY <1>0, <2>1, <2>3
    <3>3. GpsTypeOK'
      BY <1>0, <2>1, <3>1, <3>2 DEF GpsTypeOK
    <3>. QED  BY <2>1, <3>1, <3>2, <3>3 DEF DeadGpsStopsLoop, DataKeepsItAlive
  <2>. QED  BY <2>2, <2>3
<1>6. CASE GpsReads
  <2>1. PICK mode \in Modes, finite \in BOOLEAN : writing' = Assignments(mode, finite)
    BY <1>6 DEF GpsReads
  <2>2. writing' \in Seq(Fields)
    BY <2>1, AssignmentsType
  <2>3. fix' \in 0..MaxFixes /\ read_retries' = 0 /\ broken' = 0 /\ gpc' = "process" /\ gpc = "read"
        /\ UNCHANGED <<kill_program, retries, exit_status, location, silent>>
    BY <1>6 DEF GpsReads
  <2>4. GpsTypeOK'
    BY <1>0, <2>2, <2>3 DEF GpsTypeOK
  <2>. QED  BY <1>0, <2>3, <2>4 DEF DeadGpsStopsLoop, DataKeepsItAlive
<1>7. CASE GpsAssigns
  <2>1. Head(writing) \in Fields /\ Tail(writing) \in Seq(Fields)
    BY <1>0, <1>7 DEF GpsAssigns, GpsTypeOK
  <2>2. location' \in [Fields -> 0..MaxFixes] /\ writing' \in Seq(Fields)
    BY <1>0, <1>7, <2>1 DEF GpsAssigns, GpsTypeOK
  <2>. QED  BY <1>0, <1>7, <2>2 DEF GpsAssigns, GpsTypeOK, DeadGpsStopsLoop, DataKeepsItAlive
<1>8. CASE GpsProcessed
  BY <1>0, <1>8 DEF GpsProcessed, GpsTypeOK, DeadGpsStopsLoop, DataKeepsItAlive
<1>. QED  BY <1>1, <1>2, <1>3, <1>4, <1>5, <1>6, <1>7, <1>8 DEF GpsStep

\* A signal may set kill_program; nothing clears it.
LEMMA GpsStays ==
  ASSUME GpsInv, UNCHANGED gpsVars, kill_program' \in {kill_program, TRUE}
  PROVE  GpsInv'
  BY DEF GpsInv, gpsVars, GpsTypeOK, DeadGpsStopsLoop, DataKeepsItAlive

LEMMA GpsStepNotNone ==
  ASSUME GpsStep
  PROVE  gpc # "none" /\ gpc' # "none"
  BY DEF GpsStep, GpsStops, GpsWaits, GpsNotReady, GpsReady, GpsReadFails, GpsReads, GpsAssigns,
         GpsProcessed, Retry

----------------------------------------------------------------------------
(* The types of the main thread *)

\* Main is in the middle of a beacon command.
BeaconPlaces == {"setWait", "update", "updateWait"}

MainInv ==
  /\ config \in CommandLines /\ Accepted(config)
  /\ mpc \in Places
  /\ position \in 1..(Len(Schedule) + 1)
  /\ mpc \in {"message", "encode", "send"} => position <= Len(Schedule)
  /\ mpc \in BeaconPlaces /\ legs # <<>> => position <= Len(Schedule)
  /\ encoding \in Seq(Fields) /\ (mpc = "encode" => encoding # <<>>)
  /\ encoded \in [Fields -> 0..MaxFixes]
  /\ legs \in Seq(Transports) /\ (mpc \in {"encode", "send"} => legs # <<>>)
  /\ counters \in [Types -> 0..(CounterRange - 1)]
  /\ heard \in [Transports -> [Types -> 0..None]]
  /\ mpc \in {"start", "waitAp", "setUp", "signals", "openGps"} => gpc = "none"

RestInv ==
  /\ ap \in ApPlaces
  /\ ended \in BOOLEAN /\ connected \in BOOLEAN
  /\ semaphore \in 0..SemValueMax
  /\ disposition \in {"default", "eloop", "sig_handler"}
  /\ signals \in 0..MaxSignals

AllInv == GpsInv /\ MainInv /\ RestInv

LEMMA ScheduleType ==
  /\ Schedule \in Seq(Types)
  /\ Len(Schedule) \in Nat \ {0}
<1>1. SingleSchedule \in Seq(Types) /\ Len(SingleSchedule) = 9
  BY DEF SingleSchedule, Types
<1>2. /\ [i \in 1..PacksPerLoop |-> "PACKED"] \in Seq(Types)
      /\ Len([i \in 1..PacksPerLoop |-> "PACKED"]) = PacksPerLoop
  BY TransmitAssumption DEF Types
<1>. QED  BY <1>1, <1>2, TransmitAssumption DEF Schedule

LEMMA UsingType ==
  ASSUME NEW t \in Transports
  PROVE  Using(t) \in Seq(Transports)
BY DEF Using

LEMMA LegsType ==
  ASSUME config \in Options, Accepted(config)
  PROVE  Legs \in Seq(Transports) /\ Legs # <<>>
<1>1. /\ "btl" \in Transports /\ "bt4" \in Transports
      /\ "bt5" \in Transports /\ "beacon" \in Transports
  BY DEF Transports, Bluetooth
<1>. DEFINE a == Using("btl")  b == Using("bt4")  c == Using("bt5")  d == Using("beacon")
<1>2. /\ a \in Seq(Transports) /\ b \in Seq(Transports)
      /\ c \in Seq(Transports) /\ d \in Seq(Transports)
  BY <1>1, UsingType
<1>3. /\ "btl" \in config.bt => Len(a) = 1
      /\ "bt4" \in config.bt => Len(b) = 1
      /\ "bt5" \in config.bt => Len(c) = 1
      /\ config.beacon => Len(d) = 1
  BY DEF Using
<1>4. config.bt \subseteq {"btl", "bt4", "bt5"}
  BY DEF Options, Bluetooth
<1>5. /\ config.beacon \/ "btl" \in config.bt \/ "bt4" \in config.bt \/ "bt5" \in config.bt
      /\ config.packs => config.beacon \/ "bt5" \in config.bt
  BY <1>4 DEF Accepted
<1>. HIDE DEF a, b, c, d
<1>6. d \o c \in Seq(Transports) /\ Len(d \o c) = Len(d) + Len(c)
  BY <1>2
<1>7. a \o b \o c \o d \in Seq(Transports) /\ Len(a \o b \o c \o d) = Len(a) + Len(b) + Len(c) + Len(d)
  BY <1>2
<1>8. Len(a) \in Nat /\ Len(b) \in Nat /\ Len(c) \in Nat /\ Len(d) \in Nat
  BY <1>2
<1>9. Legs = IF config.packs THEN d \o c ELSE a \o b \o c \o d
  BY DEF Legs, a, b, c, d
<1>10. CASE config.packs
  <2>1. Legs \in Seq(Transports) /\ Len(Legs) = Len(d) + Len(c)
    BY <1>6, <1>9, <1>10
  <2>2. Len(d) + Len(c) > 0
    BY <1>3, <1>5, <1>8, <1>10, Naturals
  <2>. QED  BY <2>1, <2>2
<1>11. CASE ~config.packs
  <2>1. Legs \in Seq(Transports) /\ Len(Legs) = Len(a) + Len(b) + Len(c) + Len(d)
    BY <1>7, <1>9, <1>11
  <2>2. Len(a) + Len(b) + Len(c) + Len(d) > 0
    BY <1>3, <1>5, <1>8
  <2>. QED  BY <2>1, <2>2
<1>. QED  BY <1>10, <1>11

\* A place outside the loop of messages asks nothing of what is left alone.
LEMMA GotoKeeps ==
  ASSUME MainInv, NEW place \in Places \ ({"message", "encode", "send"} \cup BeaconPlaces), Goto(place),
         place \in {"start", "waitAp", "setUp", "signals", "openGps"} => gpc' = "none"
  PROVE  MainInv'
<1>1. UNCHANGED <<config, position, encoding, encoded, legs, counters, heard>> /\ mpc' = place
  BY DEF Goto
<1>2. Schedule' = Schedule
  BY <1>1 DEF Schedule
<1>. QED  BY <1>1, <1>2 DEF MainInv, BeaconPlaces, Accepted

LEMMA MainStays ==
  ASSUME MainInv, UNCHANGED mainVars, gpc' = gpc \/ gpc # "none"
  PROVE  MainInv'
<1>1. UNCHANGED <<config, mpc, position, encoding, encoded, legs, counters, heard>>
  BY DEF mainVars
<1>2. Schedule' = Schedule
  BY <1>1 DEF Schedule
<1>. QED  BY <1>1, <1>2 DEF MainInv, BeaconPlaces, Accepted

LEMMA RestStays ==
  ASSUME RestInv, UNCHANGED <<apVars, disposition, signals>>, semaphore' \in 0..SemValueMax
  PROVE  RestInv'
BY DEF RestInv, apVars

LEMMA SemaphoreType ==
  ASSUME RestInv
  PROVE  /\ semaphore \in 0..SemValueMax
         /\ SemPost \/ SemWait \/ Request \/ UNCHANGED semaphore => semaphore' \in 0..SemValueMax
<1>1. semaphore \in 0..SemValueMax /\ SemValueMax \in Nat \ {0}
  BY TransmitAssumption DEF RestInv
<1>. QED  BY <1>1 DEF SemPost, SemWait, Request

LEMMA AsideStays ==
  ASSUME GpsInv, RestInv, UNCHANGED aside, semaphore' \in 0..SemValueMax
  PROVE  GpsInv' /\ RestInv' /\ gpc' = gpc
<1>1. UNCHANGED gpsVars /\ UNCHANGED kill_program /\ UNCHANGED <<apVars, disposition, signals>>
  BY DEF aside, gpsAll
<1>2. gpc' = gpc
  BY <1>1 DEF gpsVars
<1>. QED  BY <1>1, <1>2, GpsStays, RestStays

LEMMA OthersStay ==
  ASSUME GpsInv, RestInv, UNCHANGED others
  PROVE  GpsInv' /\ RestInv' /\ gpc' = gpc
BY AsideStays, SemaphoreType DEF others

----------------------------------------------------------------------------
(* One lemma for each kind of step *)

\* The steps before and after the loop of messages.
LEMMA OutsideKeeps ==
  ASSUME AllInv,
         \/ MainStarts \/ MainConnected \/ MainSetsUp \/ MainTakesSignals \/ MainOpensGps
         \/ MainFindsNoGps \/ MainStops \/ MainCrashes \/ MainAborts \/ MainCleansUp
         \/ MainQuits \/ MainHasQuit \/ MainJoinsAp \/ MainJoinsGps \/ MainJoinsNoThread
  PROVE  AllInv'
<1>. USE DEF AllInv, BeaconPlaces
<1>0. GpsInv /\ MainInv /\ RestInv
  OBVIOUS
<1>g. ASSUME UNCHANGED gpsAll
      PROVE  GpsInv' /\ gpc' = gpc
  BY <1>0, <1>g, GpsStays DEF gpsAll, gpsVars
<1>1. CASE MainStarts
  <2>1. gpc = "none"
    BY <1>0, <1>1 DEF MainStarts, MainInv
  <2>2. PICK place \in {"waitAp", "setUp"} : Goto(place)
    BY <1>1 DEF MainStarts
  <2>3. UNCHANGED gpsAll /\ RestInv'
    BY <1>0, <1>1 DEF MainStarts, RestInv, ApPlaces
  <2>4. GpsInv' /\ gpc' = "none"
    BY <1>g, <2>1, <2>3
  <2>. QED  BY <1>0, <2>2, <2>3, <2>4, GotoKeeps DEF Places
<1>2. CASE MainConnected
  <2>1. GpsInv' /\ RestInv' /\ gpc' = gpc /\ gpc = "none"
    BY <1>0, <1>2, AsideStays, SemaphoreType DEF MainConnected, MainInv
  <2>. QED  BY <1>0, <1>2, <2>1, GotoKeeps DEF MainConnected, Places
<1>3. CASE MainSetsUp
  <2>1. GpsInv' /\ RestInv' /\ gpc' = gpc /\ gpc = "none"
    BY <1>0, <1>3, OthersStay DEF MainSetsUp, MainInv
  <2>2. PICK place \in {"signals", "loop"} : Goto(place)
    BY <1>3 DEF MainSetsUp
  <2>. QED  BY <1>0, <2>1, <2>2, GotoKeeps DEF Places
<1>4. CASE MainTakesSignals
  <2>1. UNCHANGED gpsAll /\ UNCHANGED <<apVars, semaphore, signals>> /\ disposition' = "sig_handler"
        /\ Goto("openGps") /\ mpc = "signals"
    BY <1>4 DEF MainTakesSignals
  <2>2. RestInv'
    BY <1>0, <2>1 DEF RestInv, apVars
  <2>3. GpsInv' /\ gpc' = "none"
    BY <1>0, <1>g, <2>1 DEF MainInv
  <2>. QED  BY <1>0, <2>1, <2>2, <2>3, GotoKeeps DEF Places
<1>5. CASE MainOpensGps
  <2>1. gpc = "none" /\ GpsCreate /\ Goto("loop") /\ UNCHANGED <<apVars, semaphore, disposition, signals>>
    BY <1>0, <1>5 DEF MainOpensGps, MainInv
  <2>2. GpsInv' /\ RestInv'
    BY <1>0, <2>1, GpsCreateKeeps, RestStays, SemaphoreType
  <2>. QED  BY <1>0, <2>1, <2>2, GotoKeeps DEF Places
<1>6. CASE MainFindsNoGps
  BY <1>0, <1>6, OthersStay, GotoKeeps DEF MainFindsNoGps, Places
<1>7. CASE MainStops
  BY <1>0, <1>7, OthersStay, GotoKeeps DEF MainStops, Places
<1>8. CASE MainCrashes
  BY <1>0, <1>8, OthersStay, GotoKeeps DEF MainCrashes, Places
<1>9. CASE MainAborts
  BY <1>0, <1>9, OthersStay, GotoKeeps DEF MainAborts, Places
<1>10. CASE MainCleansUp
  <2>1. PICK place \in {"quit", "joinGps", "exit"} : Goto(place)
    BY <1>10 DEF MainCleansUp, AfterBeacon
  <2>2. UNCHANGED others
    BY <1>10 DEF MainCleansUp
  <2>. QED  BY <1>0, <2>1, <2>2, OthersStay, GotoKeeps DEF Places
<1>11. CASE MainQuits
  <2>0. semaphore' \in 0..SemValueMax
    BY <1>0, <1>11, SemaphoreType DEF MainQuits
  <2>1. GpsInv' /\ RestInv' /\ Goto("quitWait")
    BY <1>0, <1>11, <1>g, <2>0 DEF MainQuits, RestInv
  <2>. QED  BY <1>0, <2>1, GotoKeeps DEF Places
<1>12. CASE MainJoinsAp
  <2>1. PICK place \in {"joinGps", "exit"} : Goto(place)
    BY <1>12 DEF MainJoinsAp, AfterBeacon
  <2>2. UNCHANGED others
    BY <1>12 DEF MainJoinsAp
  <2>. QED  BY <1>0, <2>1, <2>2, OthersStay, GotoKeeps DEF Places
<1>13. CASE MainJoinsGps
  BY <1>0, <1>13, OthersStay, GotoKeeps DEF MainJoinsGps, Places
<1>14. CASE MainJoinsNoThread
  <2>1. PICK place \in {"crashed", "exit"} : Goto(place)
    BY <1>14 DEF MainJoinsNoThread
  <2>2. UNCHANGED others
    BY <1>14 DEF MainJoinsNoThread
  <2>. QED  BY <1>0, <2>1, <2>2, OthersStay, GotoKeeps DEF Places
<1>15. CASE MainHasQuit
  <2>1. GpsInv' /\ RestInv' /\ Goto("joinAp")
    BY <1>0, <1>15, AsideStays, SemaphoreType DEF MainHasQuit
  <2>. QED  BY <1>0, <2>1, GotoKeeps DEF Places
<1>. QED  BY <1>1, <1>2, <1>3, <1>4, <1>5, <1>6, <1>7, <1>8, <1>9, <1>10, <1>11, <1>12, <1>13, <1>14,
          <1>15

LEMMA MainBeginsKeeps ==
  ASSUME AllInv, MainBegins
  PROVE  AllInv'
<1>0. GpsInv /\ MainInv /\ RestInv
  BY DEF AllInv
<1>1. mpc' = "message" /\ position' = 1
      /\ UNCHANGED <<config, encoding, encoded, legs, counters, heard>> /\ UNCHANGED others
  BY DEF MainBegins
<1>2. GpsInv' /\ RestInv'
  BY <1>0, <1>1, OthersStay
<1>3. Schedule' = Schedule
  BY <1>1 DEF Schedule
<1>4. position' \in 1..(Len(Schedule) + 1) /\ position' <= Len(Schedule)
  BY <1>1, ScheduleType
<1>5. MainInv'
  BY <1>0, <1>1, <1>3, <1>4 DEF MainInv, BeaconPlaces, Places, Accepted
<1>. QED  BY <1>2, <1>5 DEF AllInv

LEMMA MainEncodesKeeps ==
  ASSUME AllInv, MainEncodes
  PROVE  AllInv'
<1>0. GpsInv /\ MainInv /\ RestInv
  BY DEF AllInv
<1>1. legs' = Legs /\ mpc = "message" /\ mpc' \in {"encode", "send"}
      /\ UNCHANGED <<config, position, encoded, counters, heard>> /\ UNCHANGED others
      /\ (mpc' = "encode" => encoding' = LocationOrder)
      /\ (mpc' # "encode" => encoding' = encoding)
  BY DEF MainEncodes
<1>2. GpsInv' /\ RestInv'
  BY <1>0, <1>1, OthersStay
<1>3. Schedule' = Schedule
  BY <1>1 DEF Schedule
<1>4. legs' \in Seq(Transports) /\ legs' # <<>>
  BY <1>0, <1>1, LegsType, TransmitAssumption DEF MainInv
<1>5. LocationOrder \in Seq(Fields) /\ LocationOrder # <<>>
  BY DEF LocationOrder, Fields
<1>6. MainInv'
  BY <1>0, <1>1, <1>3, <1>4, <1>5 DEF MainInv, BeaconPlaces, Places, Accepted
<1>. QED  BY <1>2, <1>6 DEF AllInv

LEMMA MainReadsFieldKeeps ==
  ASSUME AllInv, MainReadsField
  PROVE  AllInv'
<1>0. GpsInv /\ MainInv /\ RestInv
  BY DEF AllInv
<1>1. /\ mpc = "encode" /\ encoding \in Seq(Fields) /\ encoding # <<>>
      /\ encoding' = Tail(encoding) /\ mpc' = IF Len(encoding) = 1 THEN "send" ELSE "encode"
      /\ encoded' = [encoded EXCEPT ![Head(encoding)] = location[Head(encoding)]]
      /\ UNCHANGED <<config, position, legs, counters, heard>> /\ UNCHANGED others
  BY <1>0 DEF MainReadsField, MainInv
<1>2. GpsInv' /\ RestInv'
  BY <1>0, <1>1, OthersStay
<1>3. Schedule' = Schedule
  BY <1>1 DEF Schedule
<1>4. Head(encoding) \in Fields /\ encoding' \in Seq(Fields) /\ (mpc' = "encode" => encoding' # <<>>)
  BY <1>1, FirstAndRest
<1>5. encoded' \in [Fields -> 0..MaxFixes]
  BY <1>0, <1>1, <1>4 DEF MainInv, GpsInv, GpsTypeOK
<1>6. MainInv'
  BY <1>0, <1>1, <1>3, <1>4, <1>5 DEF MainInv, BeaconPlaces, Places, Accepted
<1>. QED  BY <1>2, <1>6 DEF AllInv

\* What the giving of a message does to the place in the schedule and the counters.
LEMMA GiveFacts ==
  ASSUME AllInv, Give
  PROVE  /\ mpc = "send" /\ position \in 1..Len(Schedule) /\ Schedule[position] \in Types
         /\ legs \in Seq(Transports) /\ legs # <<>> /\ Len(legs) \in Nat \ {0}
         /\ Head(legs) \in Transports /\ legs' = Tail(legs) /\ legs' \in Seq(Transports)
         /\ Schedule' = Schedule /\ UNCHANGED <<config, encoding, encoded>>
         /\ heard' = [heard EXCEPT ![Head(legs)][Schedule[position]] = counters[Schedule[position]]]
         /\ legs' # <<>> => Len(legs) > 1 /\ Len(legs) # 1 /\ position' = position
         /\ legs' = <<>> => Len(legs) = 1 /\ position' = position + 1
<1>0. MainInv
  BY DEF AllInv
<1>1. mpc = "send" /\ legs' = Tail(legs) /\ UNCHANGED <<config, encoding, encoded>>
      /\ heard' = [heard EXCEPT ![Head(legs)][Schedule[position]] = counters[Schedule[position]]]
      /\ position' = (IF Len(legs) = 1 THEN position + 1 ELSE position)
  BY DEF Give
<1>2. Schedule' = Schedule
  BY <1>1 DEF Schedule
<1>3. position \in 1..Len(Schedule)
  BY <1>0, <1>1, ScheduleType DEF MainInv
<1>4. Schedule[position] \in Types
  BY <1>3, ScheduleType
<1>5. legs \in Seq(Transports) /\ legs # <<>>
  BY <1>0, <1>1 DEF MainInv
<1>6. Len(legs) \in Nat \ {0} /\ Head(legs) \in Transports /\ Tail(legs) \in Seq(Transports)
      /\ (Tail(legs) = <<>> <=> Len(legs) = 1)
  BY <1>5, FirstAndRest
<1>7. Len(legs) # 1 => Len(legs) > 1
  BY <1>6, Naturals
<1>. QED  BY <1>1, <1>2, <1>3, <1>4, <1>5, <1>6, <1>7

LEMMA OnwardFacts ==
  ASSUME NEW rest, NEW next
  PROVE  /\ Onward(rest, next) \in {"send", "message", "loop", "cleanup"}
         /\ Onward(rest, next) = "send" <=> rest # <<>>
         /\ Onward(rest, next) = "message" => next <= Len(Schedule)
         /\ Onward(rest, next) \in {"loop", "cleanup"}
            => Onward(rest, next) = (IF config.gps THEN "loop" ELSE "cleanup")
<1>1. CASE rest # <<>>
  BY <1>1 DEF Onward
<1>2. CASE rest = <<>> /\ next <= Len(Schedule)
  BY <1>2 DEF Onward
<1>3. CASE rest = <<>> /\ ~(next <= Len(Schedule))
  BY <1>3 DEF Onward
<1>. QED  BY <1>1, <1>2, <1>3

\* Onward in the step that gives the message, whose new values it is about.
LEMMA OnwardNext ==
  ASSUME MainGives
  PROVE  /\ mpc' \in {"send", "message", "loop", "cleanup"}
         /\ mpc' = "send" <=> legs' # <<>>
         /\ mpc' = "message" => position' <= Len(Schedule)
         /\ mpc' \in {"loop", "cleanup"} => mpc' = (IF config.gps THEN "loop" ELSE "cleanup")
<1>1. mpc' = Onward(legs', position')
  BY DEF MainGives
<1>. QED  BY <1>1, OnwardFacts

LEMMA GiveKeeps ==
  ASSUME AllInv, MainGives \/ MainSets
  PROVE  AllInv'
<1>0. GpsInv /\ MainInv /\ RestInv /\ Give
  BY DEF AllInv, MainGives, MainSets
<1>. DEFINE m == Schedule[position]
<1>1. GpsInv' /\ RestInv' /\ gpc' = gpc
  BY <1>0, AsideStays, SemaphoreType DEF MainGives, MainSets, others
<1>2. m \in Types /\ Head(legs) \in Transports
  BY <1>0, GiveFacts
<1>3. counters' \in [Types -> 0..(CounterRange - 1)]
  <2>1. counters \in [Types -> 0..(CounterRange - 1)] /\ CounterRange \in Nat \ {0}
    BY <1>0, TransmitAssumption DEF MainInv
  <2>2. counters' = counters \/ counters' = [counters EXCEPT ![m] = (@ + 1) % CounterRange]
    BY <1>0 DEF Give, Counted
  <2>3. counters[m] \in Nat
    BY <1>2, <2>1
  <2>4. (counters[m] + 1) % CounterRange \in 0..(CounterRange - 1)
    BY <2>1, <2>3
  <2>. HIDE DEF m
  <2>. QED  BY <1>2, <2>1, <2>2, <2>4
<1>4. heard' \in [Transports -> [Types -> 0..None]]
  <2>1. counters[m] \in 0..None
    BY <1>0, <1>2, TransmitAssumption DEF MainInv, None
  <2>2. heard' = [heard EXCEPT ![Head(legs)][m] = counters[m]]
    BY <1>0, GiveFacts
  <2>. HIDE DEF m
  <2>. QED  BY <1>0, <1>2, <2>1, <2>2 DEF MainInv
<1>5. /\ UNCHANGED <<config, encoding, encoded>> /\ Schedule' = Schedule /\ mpc = "send"
      /\ legs' \in Seq(Transports) /\ position \in 1..Len(Schedule) /\ Len(Schedule) \in Nat
      /\ legs' # <<>> => position' = position
      /\ legs' = <<>> => position' = position + 1
  BY <1>0, GiveFacts, ScheduleType
<1>6. position' \in 1..(Len(Schedule) + 1) /\ (legs' # <<>> => position' <= Len(Schedule))
  BY <1>5
<1>7. /\ mpc' \in {"send", "message", "loop", "cleanup", "setWait"}
      /\ mpc' = "send" => legs' # <<>>
      /\ mpc' = "message" => position' <= Len(Schedule)
  BY OnwardNext DEF MainSets
<1>8. MainInv'
  BY <1>0, <1>1, <1>3, <1>4, <1>5, <1>6, <1>7 DEF MainInv, BeaconPlaces, Places, Accepted
<1>. QED  BY <1>1, <1>8 DEF AllInv

\* The rest of a beacon command.
LEMMA BeaconKeeps ==
  ASSUME AllInv, MainIsSet \/ MainUpdates \/ MainIsUpdated
  PROVE  AllInv'
<1>0. GpsInv /\ MainInv /\ RestInv
  BY DEF AllInv
<1>1. GpsInv' /\ RestInv' /\ gpc' = gpc
  BY <1>0, AsideStays, SemaphoreType DEF MainIsSet, MainUpdates, MainIsUpdated
<1>2. /\ UNCHANGED <<config, position, encoding, encoded, legs, counters, heard>>
      /\ mpc \in BeaconPlaces
      /\ mpc' \in BeaconPlaces \/ mpc' = Onward(legs, position)
  BY DEF MainIsSet, MainUpdates, MainIsUpdated, Goto, BeaconPlaces
<1>3. Schedule' = Schedule
  BY <1>2 DEF Schedule
<1>4. mpc' \notin BeaconPlaces =>
        /\ mpc' \in {"send", "message", "loop", "cleanup"}
        /\ mpc' = "send" => legs # <<>>
        /\ mpc' = "message" => position <= Len(Schedule)
  BY <1>2, OnwardFacts
<1>5. MainInv'
  BY <1>0, <1>1, <1>2, <1>3, <1>4 DEF MainInv, BeaconPlaces, Places, Accepted
<1>. QED  BY <1>1, <1>5 DEF AllInv

----------------------------------------------------------------------------
(* The other threads, signals, and the invariant *)

LEMMA ApKeeps ==
  ASSUME AllInv, ApStep
  PROVE  AllInv'
<1>. USE DEF ApStep, ApRuns, ApPosts, ApFails, ApRegisters, ApPings, ApPinged, ApCloses, ApReconnects, ApEnds
<1>0. GpsInv /\ MainInv /\ RestInv
  BY DEF AllInv
<1>1. UNCHANGED gpsVars /\ UNCHANGED kill_program /\ UNCHANGED mainVars /\ signals' = signals
      /\ ended' = ended /\ ap' \in ApPlaces
      /\ connected' \in {connected, TRUE, FALSE} /\ disposition' \in {disposition, "eloop"}
  BY <1>0 DEF apRest, gpsAll, ApPlaces, RestInv
<1>2. GpsInv' /\ gpc' = gpc
  BY <1>0, <1>1, GpsStays DEF gpsVars
<1>3. MainInv'
  BY <1>0, <1>1, <1>2, MainStays
<1>4. semaphore' \in 0..SemValueMax
  BY <1>0, SemaphoreType
<1>5. RestInv'
  BY <1>0, <1>1, <1>4 DEF RestInv
<1>. QED  BY <1>2, <1>3, <1>5 DEF AllInv

LEMMA GpsRunsKeeps ==
  ASSUME AllInv, GpsRuns
  PROVE  AllInv'
<1>0. GpsInv /\ MainInv /\ RestInv
  BY DEF AllInv
<1>1. GpsStep /\ UNCHANGED mainVars /\ UNCHANGED <<apVars, semaphore, disposition, signals>>
  BY DEF GpsRuns
<1>2. GpsInv'
  BY <1>0, <1>1, GpsStepKeeps
<1>3. MainInv'
  BY <1>0, <1>1, GpsStepNotNone, MainStays
<1>. QED  BY <1>0, <1>1, <1>2, <1>3, RestStays, SemaphoreType DEF AllInv

LEMMA SignalKeeps ==
  ASSUME AllInv, Signal
  PROVE  AllInv'
<1>0. GpsInv /\ MainInv /\ RestInv
  BY DEF AllInv
<1>1. UNCHANGED gpsVars /\ kill_program' \in {kill_program, TRUE}
      /\ UNCHANGED <<ap, connected, semaphore, disposition>> /\ signals > 0 /\ signals' = signals - 1
      /\ ended' \in {ended, TRUE}
      /\ (Goto("killed") \/ UNCHANGED mainVars)
  BY DEF Signal, Handled
<1>2. GpsInv' /\ gpc' = gpc
  BY <1>0, <1>1, GpsStays DEF gpsVars
<1>3. MainInv'
  BY <1>0, <1>1, <1>2, MainStays, GotoKeeps DEF Places, BeaconPlaces
<1>4. signals' \in 0..MaxSignals
  BY <1>0, <1>1, TransmitAssumption DEF RestInv
<1>5. RestInv'
  BY <1>0, <1>1, <1>4 DEF RestInv
<1>. QED  BY <1>2, <1>3, <1>5 DEF AllInv

LEMMA AllStarts == Init => AllInv
<1>. SUFFICES ASSUME Init PROVE AllInv
  OBVIOUS
<1>1. GpsInv /\ gpc = "none"
  BY GpsStarts DEF Init, GpsInit
<1>2. RestInv
  <2>1. ap = "none" /\ ended = FALSE /\ connected = FALSE /\ semaphore = 0
        /\ disposition = "default" /\ signals = MaxSignals
    BY DEF Init
  <2>2. signals \in 0..MaxSignals /\ semaphore \in 0..SemValueMax
    BY <2>1, TransmitAssumption
  <2>. QED  BY <2>1, <2>2 DEF RestInv, ApPlaces
<1>3. /\ counters \in [Types -> 0..(CounterRange - 1)]
      /\ heard \in [Transports -> [Types -> 0..None]]
      /\ encoded \in [Fields -> 0..MaxFixes]
  BY TransmitAssumption, GpsAssumption DEF Init, None
<1>4. position \in 1..(Len(Schedule) + 1)
  BY ScheduleType DEF Init
<1>5. encoding = <<>> /\ legs = <<>> /\ mpc = "start" /\ config \in CommandLines /\ Accepted(config)
  BY DEF Init
<1>6. MainInv
  BY <1>1, <1>3, <1>4, <1>5 DEF MainInv, BeaconPlaces, Places
<1>. QED  BY <1>1, <1>2, <1>6 DEF AllInv

LEMMA AllKeeps ==
  ASSUME AllInv, [Next]_vars
  PROVE  AllInv'
<1>1. CASE MainStep
  BY <1>1, OutsideKeeps, MainBeginsKeeps, MainEncodesKeeps, MainReadsFieldKeeps, GiveKeeps,
     BeaconKeeps
  DEF MainStep
<1>2. CASE UNCHANGED vars
  <2>1. UNCHANGED mainVars /\ UNCHANGED gpsVars /\ kill_program' = kill_program
        /\ UNCHANGED <<apVars, semaphore, disposition, signals>>
    BY <1>2 DEF vars
  <2>2. GpsInv' /\ RestInv'
    BY <2>1, GpsStays, RestStays, SemaphoreType DEF AllInv
  <2>3. MainInv'
    BY <2>1, MainStays DEF AllInv, gpsVars
  <2>. QED  BY <2>2, <2>3 DEF AllInv
<1>. QED  BY <1>1, <1>2, ApKeeps, GpsRunsKeeps, SignalKeeps DEF Next

\* The retry counters of gps_loop are the failures in a row (GpsInv), and
\* every variable of both threads keeps to its type (MainInv, RestInv).
THEOREM Invariant == Spec => []AllInv
<1>1. AllInv /\ [Next]_vars => AllInv'
  BY AllKeeps
<1>. QED  BY AllStarts, <1>1, PTL DEF Spec

\* Every variable keeps to its type, for every retry limit, counter range,
\* length of a loop and number of fixes and signals.
THEOREM TypeCorrect == Spec => []TypeOK
<1>1. AllInv => TypeOK
  BY DEF AllInv, GpsInv, MainInv, RestInv, TypeOK
<1>. QED  BY Invariant, <1>1, PTL

\* Whatever ends the gps thread (gps_loop), retries used up or kill_program,
\* leaves kill_program set, so that main begins no further loop of messages.
THEOREM DeadGpsNoticed == Spec => []DeadGpsStopsLoop
<1>1. AllInv => DeadGpsStopsLoop
  BY DEF AllInv, GpsInv
<1>. QED  BY Invariant, <1>1, PTL

\* For every MAX_GPS_WAIT_RETRIES and MAX_GPS_READ_RETRIES the gps thread
\* gives up only after two more failures in a row than the constant says.
THEOREM GivesUpOnlyOnSilence == Spec => []DataKeepsItAlive
<1>1. AllInv => DataKeepsItAlive
  BY DEF AllInv, GpsInv
<1>. QED  BY Invariant, <1>1, PTL

----------------------------------------------------------------------------
(* Sequences of different transports *)

Elements(s) == {s[i] : i \in 1..Len(s)}
Distinct(s) == \A i, j \in 1..Len(s) : s[i] = s[j] => i = j

LEMMA ElementsOfEmpty == Elements(<<>>) = {} /\ Distinct(<<>>)
BY DEF Elements, Distinct

LEMMA ElementsOfOne ==
  ASSUME NEW t
  PROVE  Elements(<<t>>) = {t} /\ Distinct(<<t>>)
<1>1. Len(<<t>>) = 1 /\ <<t>>[1] = t
  OBVIOUS
<1>2. 1..1 = {1}
  OBVIOUS
<1>. QED  BY <1>1, <1>2 DEF Elements, Distinct

LEMMA ElementsOfConcatenation ==
  ASSUME NEW S, NEW p \in Seq(S), NEW q \in Seq(S), Distinct(p), Distinct(q),
         Elements(p) \cap Elements(q) = {}
  PROVE  p \o q \in Seq(S) /\ Distinct(p \o q) /\ Elements(p \o q) = Elements(p) \cup Elements(q)
<1>. DEFINE r == p \o q
<1>1. r \in Seq(S) /\ Len(r) = Len(p) + Len(q) /\ Len(p) \in Nat /\ Len(q) \in Nat
  OBVIOUS
<1>2. /\ \A i \in 1..Len(p) : i \in 1..Len(r) /\ r[i] = p[i]
      /\ \A i \in 1..Len(q) : i + Len(p) \in 1..Len(r) /\ r[i + Len(p)] = q[i]
  BY <1>1
<1>3. \A i \in 1..Len(r) :
        \/ i \in 1..Len(p) /\ r[i] = p[i]
        \/ i - Len(p) \in 1..Len(q) /\ r[i] = q[i - Len(p)]
  BY <1>1
<1>. HIDE DEF r
<1>4. Elements(r) = Elements(p) \cup Elements(q)
  <2>1. Elements(r) \subseteq Elements(p) \cup Elements(q)
    BY <1>3 DEF Elements
  <2>2. Elements(p) \subseteq Elements(r) /\ Elements(q) \subseteq Elements(r)
    BY <1>2 DEF Elements
  <2>. QED  BY <2>1, <2>2
<1>5. ASSUME NEW i \in 1..Len(r), NEW j \in 1..Len(r), r[i] = r[j]
      PROVE  i = j
  <2>1. CASE i \in 1..Len(p) /\ r[i] = p[i] /\ j \in 1..Len(p) /\ r[j] = p[j]
    BY <1>5, <2>1 DEF Distinct
  <2>2. CASE i \in 1..Len(p) /\ r[i] = p[i] /\ j - Len(p) \in 1..Len(q) /\ r[j] = q[j - Len(p)]
    <3>1. r[i] \in Elements(p) /\ r[j] \in Elements(q)
      BY <2>2 DEF Elements
    <3>. QED  BY <1>5, <3>1
  <2>3. CASE j \in 1..Len(p) /\ r[j] = p[j] /\ i - Len(p) \in 1..Len(q) /\ r[i] = q[i - Len(p)]
    <3>1. r[j] \in Elements(p) /\ r[i] \in Elements(q)
      BY <2>3 DEF Elements
    <3>. QED  BY <1>5, <3>1
  <2>4. CASE i - Len(p) \in 1..Len(q) /\ r[i] = q[i - Len(p)] /\ j - Len(p) \in 1..Len(q) /\ r[j] = q[j - Len(p)]
    <3>1. i - Len(p) = j - Len(p)
      BY <1>5, <2>4 DEF Distinct
    <3>. QED  BY <1>1, <3>1
  <2>. QED  BY <1>3, <2>1, <2>2, <2>3, <2>4
<1>6. Distinct(r)
  BY <1>5 DEF Distinct
<1>. QED  BY <1>1, <1>4, <1>6 DEF r

LEMMA ElementsOfTail ==
  ASSUME NEW S, NEW s \in Seq(S), s # <<>>, Distinct(s)
  PROVE  /\ Distinct(Tail(s)) /\ Elements(Tail(s)) = Elements(s) \ {Head(s)}
         /\ Head(s) \in Elements(s)
         /\ Len(s) = 1 => Elements(s) = {Head(s)}
<1>. DEFINE r == Tail(s)
<1>1. Len(s) \in Nat \ {0} /\ Len(r) = Len(s) - 1 /\ Head(s) = s[1]
  BY FirstAndRest
<1>2. \A i \in 1..Len(r) : i + 1 \in 1..Len(s) /\ r[i] = s[i + 1]
  BY <1>1
<1>3. 1 \in 1..Len(s) /\ \A i \in 1..Len(s) : i = 1 \/ i - 1 \in 1..Len(r)
  BY <1>1
<1>. HIDE DEF r
<1>4. Distinct(r)
  <2>. SUFFICES ASSUME NEW i \in 1..Len(r), NEW j \in 1..Len(r), r[i] = r[j]
                PROVE  i = j
    BY DEF Distinct
  <2>1. i + 1 = j + 1
    BY <1>2 DEF Distinct
  <2>. QED  BY <2>1
<1>5. Head(s) \in Elements(s)
  BY <1>1, <1>3 DEF Elements
<1>6. \A i \in 1..Len(r) : r[i] \in Elements(s) /\ r[i] # Head(s)
  <2>. SUFFICES ASSUME NEW i \in 1..Len(r)
                PROVE  r[i] \in Elements(s) /\ r[i] # Head(s)
    OBVIOUS
  <2>1. r[i] = s[i + 1] /\ i + 1 \in 1..Len(s) /\ i + 1 # 1
    BY <1>2
  <2>. QED  BY <1>1, <1>3, <2>1 DEF Elements, Distinct
<1>7. \A i \in 1..Len(s) : s[i] # Head(s) => s[i] \in Elements(r)
  <2>. SUFFICES ASSUME NEW i \in 1..Len(s), s[i] # Head(s)
                PROVE  s[i] \in Elements(r)
    OBVIOUS
  <2>1. i - 1 \in 1..Len(r)
    BY <1>1, <1>3
  <2>2. r[i - 1] = s[i]
    BY <1>2, <2>1
  <2>. QED  BY <2>1, <2>2 DEF Elements
<1>8. Elements(r) = Elements(s) \ {Head(s)}
  <2>1. Elements(r) \subseteq Elements(s) \ {Head(s)}
    BY <1>6 DEF Elements
  <2>2. Elements(s) \ {Head(s)} \subseteq Elements(r)
    BY <1>7 DEF Elements
  <2>. QED  BY <2>1, <2>2
<1>9. Len(s) = 1 => Elements(s) = {Head(s)}
  BY <1>1 DEF Elements
<1>. QED  BY <1>4, <1>5, <1>8, <1>9 DEF r

----------------------------------------------------------------------------
(* The counters *)

\* send_packs counts once for each transport, so that what follows holds only
\* where a pack has one transport.
OnePack == \A o \in CommandLines : Accepted(o) => ~(o.packs /\ o.beacon /\ o.bt # {})

Used == {x \in Transports : Using(x) # <<>>}

Successor(h) == IF h = None THEN 0 ELSE (h + 1) % CounterRange

\* A message has been given to some of its transports and not to all.
Midway == mpc = "send" \/ (mpc \in BeaconPlaces /\ legs # <<>>)

\* A transport that has had the message under way, and waits for the others.
Done(t, m) == Midway /\ m = Schedule[position] /\ t \notin Elements(legs)

Counting == {"start", "waitAp", "setUp", "signals", "openGps", "loop", "message", "encode", "send"}
            \cup BeaconPlaces

LegsInv ==
  /\ mpc \in {"encode", "send"} \cup BeaconPlaces =>
       Distinct(legs) /\ Elements(legs) \subseteq Used
  /\ mpc \in {"encode", "send"} /\ config.packs => Len(legs) = 1
  /\ mpc \in BeaconPlaces /\ config.packs => legs = <<>>
  /\ mpc = "encode" => Elements(legs) = Used

HeardInv ==
  mpc \in Counting =>
    \A t \in Used, m \in Types :
      /\ Done(t, m) => heard[t][m] = counters[m]
      /\ ~Done(t, m) => Successor(heard[t][m]) = counters[m]
      /\ \A u \in Used : (Done(t, m) <=> Done(u, m)) => heard[t][m] = heard[u][m]

CountInv == LegsInv /\ HeardInv

LEMMA UsingElements ==
  ASSUME NEW t \in Transports
  PROVE  /\ Using(t) \in Seq(Transports) /\ Distinct(Using(t))
         /\ Elements(Using(t)) = {t} \cap Used
<1>1. CASE Using(t) = <<>>
  <2>1. t \notin Used
    BY <1>1 DEF Used
  <2>. QED  BY <1>1, <2>1, ElementsOfEmpty
<1>2. CASE Using(t) # <<>>
  <2>1. Using(t) = <<t>> /\ t \in Used
    BY <1>2 DEF Using, Used
  <2>2. <<t>> \in Seq(Transports)
    OBVIOUS
  <2>. QED  BY <2>1, <2>2, ElementsOfOne
<1>. QED  BY <1>1, <1>2

LEMMA LegsElements ==
  ASSUME OnePack, config \in CommandLines, Accepted(config)
  PROVE  Distinct(Legs) /\ Elements(Legs) = Used /\ (config.packs => Len(Legs) = 1)
<1>1. /\ "btl" \in Transports /\ "bt4" \in Transports
      /\ "bt5" \in Transports /\ "beacon" \in Transports
      /\ Transports = {"btl", "bt4", "bt5", "beacon"}
  BY DEF Transports, Bluetooth
<1>. DEFINE a == Using("btl")  b == Using("bt4")  c == Using("bt5")  d == Using("beacon")
<1>2. /\ a \in Seq(Transports) /\ Distinct(a) /\ Elements(a) = {"btl"} \cap Used
      /\ b \in Seq(Transports) /\ Distinct(b) /\ Elements(b) = {"bt4"} \cap Used
      /\ c \in Seq(Transports) /\ Distinct(c) /\ Elements(c) = {"bt5"} \cap Used
      /\ d \in Seq(Transports) /\ Distinct(d) /\ Elements(d) = {"beacon"} \cap Used
  BY <1>1, UsingElements
<1>3. config.bt \subseteq {"btl", "bt4", "bt5"}
  BY TransmitAssumption DEF Options, Bluetooth
<1>4. Legs = IF config.packs THEN d \o c ELSE a \o b \o c \o d
  BY DEF Legs, a, b, c, d
<1>5. CASE config.packs
  <2>1. "btl" \notin config.bt /\ "bt4" \notin config.bt /\ ~(config.beacon /\ config.bt # {})
    BY <1>5 DEF OnePack, Accepted
  <2>2. "btl" \notin Used /\ "bt4" \notin Used
    BY <2>1 DEF Used, Using
  <2>3. (config.beacon /\ "bt5" \notin config.bt) \/ (~config.beacon /\ "bt5" \in config.bt)
    BY <1>3, <2>1 DEF Accepted
  <2>4. (d = <<"beacon">> /\ c = <<>>) \/ (d = <<>> /\ c = <<"bt5">>)
    <3>1. /\ d = IF "beacon" \in config.bt \/ config.beacon THEN <<"beacon">> ELSE <<>>
          /\ c = IF "bt5" \in config.bt THEN <<"bt5">> ELSE <<>>
      BY DEF c, d, Using
    <3>2. "beacon" \notin config.bt
      BY <1>3
    <3>. HIDE DEF c, d
    <3>. QED  BY <2>3, <3>1, <3>2
  <2>. HIDE DEF c, d
  <2>5. Distinct(d \o c) /\ Elements(d \o c) = ({"beacon"} \cap Used) \cup ({"bt5"} \cap Used)
    <3>1. Elements(d) \cap Elements(c) = {}
      BY <1>2
    <3>. QED  BY <1>2, <3>1, ElementsOfConcatenation
  <2>6. Used = ({"beacon"} \cap Used) \cup ({"bt5"} \cap Used)
    <3>1. Used \subseteq Transports
      BY DEF Used
    <3>. QED  BY <1>1, <2>2, <3>1
  <2>7. Len(d \o c) = 1
    <3>1. CASE d = <<"beacon">> /\ c = <<>>
      BY <3>1
    <3>2. CASE d = <<>> /\ c = <<"bt5">>
      BY <3>2
    <3>. QED  BY <2>4, <3>1, <3>2
  <2>. QED  BY <1>4, <1>5, <2>5, <2>6, <2>7
<1>6. CASE ~config.packs
  <2>. DEFINE e == a \o b  f == e \o c  g == f \o d
  <2>0. Legs = g
    BY <1>4, <1>6
  <2>. HIDE DEF a, b, c, d, e, f, g
  <2>1. e \in Seq(Transports) /\ Distinct(e) /\ Elements(e) = {"btl", "bt4"} \cap Used
    <3>1. Elements(a) \cap Elements(b) = {}
      BY <1>2
    <3>2. e \in Seq(Transports) /\ Distinct(e) /\ Elements(e) = Elements(a) \cup Elements(b)
      BY <1>2, <3>1, ElementsOfConcatenation DEF e
    <3>. QED  BY <1>2, <3>2
  <2>2. f \in Seq(Transports) /\ Distinct(f) /\ Elements(f) = {"btl", "bt4", "bt5"} \cap Used
    <3>1. Elements(e) \cap Elements(c) = {}
      BY <1>2, <2>1
    <3>2. f \in Seq(Transports) /\ Distinct(f) /\ Elements(f) = Elements(e) \cup Elements(c)
      BY <1>2, <2>1, <3>1, ElementsOfConcatenation DEF f
    <3>. QED  BY <1>2, <2>1, <3>2
  <2>3. Distinct(g) /\ Elements(g) = {"btl", "bt4", "bt5", "beacon"} \cap Used
    <3>1. Elements(f) \cap Elements(d) = {}
      BY <1>2, <2>2
    <3>2. Distinct(g) /\ Elements(g) = Elements(f) \cup Elements(d)
      BY <1>2, <2>2, <3>1, ElementsOfConcatenation DEF g
    <3>. QED  BY <1>2, <2>2, <3>2
  <2>4. Used = {"btl", "bt4", "bt5", "beacon"} \cap Used
    <3>1. Used \subseteq Transports
      BY DEF Used
    <3>. QED  BY <1>1, <3>1
  <2>. QED  BY <1>6, <2>0, <2>3, <2>4
<1>. QED  BY <1>5, <1>6

\* Outside "encode", "send" and the rest of a beacon command the counters are
\* what they were.
LEMMA CountsAsideKeeps ==
  ASSUME CountInv, UNCHANGED <<config, counters, heard>>,
         mpc' \notin {"encode", "send"} \cup BeaconPlaces,
         mpc' \in Counting => mpc \in Counting /\ ~Midway
  PROVE  CountInv'
<1>1. Used' = Used
  BY DEF Used, Using
<1>2. LegsInv' /\ ~Midway'
  BY DEF LegsInv, Midway, BeaconPlaces
<1>3. ASSUME mpc' \in Counting, NEW t \in Used, NEW m \in Types
      PROVE  /\ ~Done(t, m)' /\ ~Done(t, m)
             /\ Successor(heard[t][m]) = counters[m]
             /\ \A u \in Used : heard[t][m] = heard[u][m]
  <2>1. \A u \in Used : ~Done(u, m)' /\ ~Done(u, m)
    BY <1>2, <1>3 DEF Done
  <2>. QED  BY <1>3, <2>1 DEF CountInv, HeardInv
<1>4. HeardInv'
  BY <1>1, <1>3 DEF HeardInv, Successor, None, Counting, BeaconPlaces
<1>. QED  BY <1>2, <1>4 DEF CountInv

\* From one place in the middle of a message to another.
LEMMA CountsPass ==
  ASSUME CountInv, UNCHANGED <<config, position, legs, counters, heard>>,
         Midway' <=> Midway, LegsInv', mpc' \in Counting => mpc \in Counting
  PROVE  CountInv'
<1>1. Used' = Used /\ Schedule' = Schedule
  BY DEF Used, Using, Schedule
<1>2. \A t, m : Done(t, m)' <=> Done(t, m)
  BY <1>1 DEF Done, Elements
<1>3. HeardInv'
  BY <1>1, <1>2 DEF CountInv, HeardInv, Successor, None, Counting, BeaconPlaces
<1>. QED  BY <1>3 DEF CountInv

LEMMA CountStays ==
  ASSUME CountInv, UNCHANGED mainVars
  PROVE  CountInv'
<1>1. UNCHANGED <<config, mpc, position, legs, counters, heard>>
  BY DEF mainVars
<1>2. Used' = Used
  BY <1>1 DEF Used, Using
<1>3. LegsInv' /\ (Midway' <=> Midway)
  BY <1>1, <1>2 DEF CountInv, LegsInv, Midway, Distinct, Elements, BeaconPlaces
<1>. QED  BY <1>1, <1>3, CountsPass DEF Counting, BeaconPlaces

\* A message begins: all its transports are due.
LEMMA CountsBegin ==
  ASSUME CountInv, UNCHANGED <<config, counters, heard>>,
         mpc \in Counting, ~Midway, mpc' \in {"encode", "send"},
         Distinct(legs'), Elements(legs') = Used, config.packs => Len(legs') = 1
  PROVE  CountInv'
<1>1. Used' = Used
  BY DEF Used, Using
<1>2. Elements(legs)' = Used /\ Distinct(legs)'
  BY DEF Elements, Distinct
<1>3. LegsInv'
  BY <1>1, <1>2 DEF LegsInv, BeaconPlaces
<1>4. ASSUME NEW t \in Used, NEW m \in Types
      PROVE  /\ ~Done(t, m)' /\ ~Done(t, m)
             /\ Successor(heard[t][m]) = counters[m]
             /\ \A u \in Used : heard[t][m] = heard[u][m]
  <2>1. \A u \in Used : ~Done(u, m)' /\ ~Done(u, m)
    BY <1>2 DEF Done
  <2>. QED  BY <2>1 DEF CountInv, HeardInv
<1>5. HeardInv'
  BY <1>1, <1>4 DEF HeardInv, Successor, None
<1>. QED  BY <1>3, <1>5 DEF CountInv

\* The rest of a beacon command counts nothing.
LEMMA CountsWait ==
  ASSUME CountInv, MainIsSet \/ MainUpdates \/ MainIsUpdated
  PROVE  CountInv'
<1>. USE DEF BeaconPlaces
<1>1. /\ UNCHANGED <<config, position, legs, counters, heard>>
      /\ mpc \in BeaconPlaces
      /\ mpc' \in BeaconPlaces \/ mpc' = Onward(legs, position)
  BY DEF MainIsSet, MainUpdates, MainIsUpdated, Goto
<1>2. /\ mpc' \in BeaconPlaces \cup {"send", "message", "loop", "cleanup"}
      /\ mpc' \notin BeaconPlaces => (mpc' = "send" <=> legs # <<>>)
  BY <1>1, OnwardFacts
<1>3. Midway' <=> Midway
  BY <1>1, <1>2 DEF Midway
<1>4. Used' = Used /\ (Distinct(legs) <=> Distinct(legs)') /\ Elements(legs)' = Elements(legs)
  BY <1>1 DEF Used, Using, Distinct, Elements
<1>5. LegsInv'
  BY <1>1, <1>2, <1>4 DEF CountInv, LegsInv
<1>. QED  BY <1>1, <1>3, <1>5, CountsPass DEF Counting

\* A transport is given the message under way with the counter that follows
\* the one it had before; the last of them moves the counter on.
LEMMA CountsGiven ==
  ASSUME AllInv, CountInv, MainGives \/ MainSets
  PROVE  /\ CountInv'
         /\ heard'[Head(legs)][Schedule[position]] = Successor(heard[Head(legs)][Schedule[position]])
<1>. DEFINE n == Schedule[position]  h == Head(legs)
<1>0. Give
  BY DEF MainGives, MainSets
<1>1. /\ mpc = "send" /\ n \in Types /\ legs \in Seq(Transports) /\ legs # <<>>
      /\ Len(legs) \in Nat \ {0} /\ h \in Transports /\ legs' = Tail(legs) /\ Schedule' = Schedule
      /\ UNCHANGED config
      /\ heard' = [heard EXCEPT ![h][n] = counters[n]]
  BY <1>0, GiveFacts
<1>p. /\ mpc' \in {"send", "message", "loop", "cleanup"} \cup BeaconPlaces
      /\ mpc' = "send" => legs' # <<>>
      /\ mpc' \notin BeaconPlaces => (mpc' = "send" <=> legs' # <<>>)
  BY OnwardNext DEF MainSets, BeaconPlaces
<1>2. /\ counters \in [Types -> 0..(CounterRange - 1)]
      /\ heard \in [Transports -> [Types -> 0..None]]
  BY DEF AllInv, MainInv
<1>3. Used' = Used /\ Used \subseteq Transports
  BY <1>1 DEF Used, Using
<1>4. Distinct(legs) /\ Elements(legs) \subseteq Used /\ (config.packs => Len(legs) = 1)
  BY <1>1 DEF CountInv, LegsInv, BeaconPlaces
<1>5. /\ Distinct(Tail(legs)) /\ Elements(Tail(legs)) = Elements(legs) \ {h}
      /\ h \in Elements(legs) /\ (Len(legs) = 1 => Elements(legs) = {h})
  BY <1>1, <1>4, ElementsOfTail
<1>6. Distinct(legs)' /\ Elements(legs)' = Elements(legs) \ {h}
  <2>1. Distinct(legs)' <=> Distinct(Tail(legs))
    BY <1>1 DEF Distinct
  <2>2. Elements(legs)' = Elements(Tail(legs))
    BY <1>1 DEF Elements
  <2>. QED  BY <1>5, <2>1, <2>2
<1>7. counters[n] \in Nat /\ counters[n] # None /\ Successor(counters[n]) = (counters[n] + 1) % CounterRange
  BY <1>1, <1>2, TransmitAssumption DEF None, Successor
<1>8. \A t \in Used, m \in Types :
        /\ Done(t, m) => heard[t][m] = counters[m]
        /\ ~Done(t, m) => Successor(heard[t][m]) = counters[m]
        /\ \A u \in Used : (Done(t, m) <=> Done(u, m)) => heard[t][m] = heard[u][m]
  BY <1>1 DEF CountInv, HeardInv, Counting
<1>9. \A t \in Used, m \in Types : Done(t, m) <=> (m = n /\ t \notin Elements(legs))
  BY <1>1 DEF Done, Midway
<1>10. \A t \in Transports, m \in Types :
         heard'[t][m] = IF t = h /\ m = n THEN counters[n] ELSE heard[t][m]
  BY <1>1, <1>2
<1>. HIDE DEF n, h
<1>11. h \in Used /\ ~Done(h, n)
  BY <1>1, <1>4, <1>5, <1>9
<1>12. heard'[h][n] = Successor(heard[h][n])
  BY <1>1, <1>8, <1>10, <1>11
<1>13. CASE legs' # <<>>
  <2>1. /\ Midway' /\ mpc' \in {"send"} \cup BeaconPlaces /\ position' = position
        /\ ~config.packs /\ Len(legs) # 1
    BY <1>0, <1>1, <1>4, <1>p, <1>13, GiveFacts DEF Midway
  <2>2. counters' = counters
    BY <1>0, <2>1 DEF Give, Counted
  <2>3. LegsInv'
    BY <1>1, <1>3, <1>4, <1>6, <2>1 DEF LegsInv, BeaconPlaces
  <2>4. \A t \in Used, m \in Types : Done(t, m)' <=> (m = n /\ (t \notin Elements(legs) \/ t = h))
    BY <1>1, <1>6, <2>1 DEF Done, n
  <2>5. ASSUME NEW t \in Used, NEW m \in Types
        PROVE  /\ Done(t, m)' => heard'[t][m] = counters[m]
               /\ ~Done(t, m)' => Successor(heard'[t][m]) = counters[m]
    BY <1>3, <1>8, <1>9, <1>10, <2>4, <2>5
  <2>6. ASSUME NEW t \in Used, NEW m \in Types, NEW u \in Used, Done(t, m)' <=> Done(u, m)'
        PROVE  heard'[t][m] = heard'[u][m]
    <3>1. CASE Done(t, m)'
      BY <2>5, <2>6, <3>1
    <3>2. CASE ~Done(t, m)'
      <4>1. ~Done(t, m) /\ ~Done(u, m)
        BY <1>9, <2>4, <2>6, <3>2
      <4>2. heard'[t][m] = heard[t][m] /\ heard'[u][m] = heard[u][m]
        BY <1>3, <1>10, <2>4, <2>6, <3>2
      <4>. QED  BY <1>8, <4>1, <4>2
    <3>. QED  BY <3>1, <3>2
  <2>7. HeardInv'
    BY <1>3, <2>2, <2>5, <2>6 DEF HeardInv, Successor, None
  <2>. QED  BY <1>12, <2>3, <2>7 DEF CountInv, h, n
<1>14. CASE legs' = <<>>
  <2>1. /\ ~Midway' /\ mpc' \in {"message", "loop", "cleanup"} \cup BeaconPlaces
        /\ Len(legs) = 1 /\ Elements(legs) = {h}
    BY <1>0, <1>5, <1>p, <1>14, GiveFacts DEF Midway, BeaconPlaces
  <2>2. counters' = [counters EXCEPT ![n] = (@ + 1) % CounterRange]
    BY <1>0, <2>1 DEF Give, Counted, n
  <2>3. LegsInv'
    BY <1>6, <1>14, <2>1 DEF LegsInv, BeaconPlaces
  <2>4. \A t \in Used, m \in Types : ~Done(t, m)'
    BY <2>1 DEF Done
  <2>5. \A t \in Used : heard'[t][n] = counters[n]
    BY <1>1, <1>3, <1>8, <1>9, <1>10, <2>1
  <2>6. counters'[n] = Successor(counters[n])
    BY <1>1, <1>2, <1>7, <2>2
  <2>7. ASSUME NEW t \in Used, NEW m \in Types, m # n
        PROVE  /\ heard'[t][m] = heard[t][m] /\ counters'[m] = counters[m]
               /\ Successor(heard[t][m]) = counters[m]
               /\ \A u \in Used : heard'[u][m] = heard[t][m]
    <3>1. \A u \in Used : heard'[u][m] = heard[u][m] /\ ~Done(u, m)
      BY <1>3, <1>9, <1>10, <2>7
    <3>2. counters'[m] = counters[m]
      BY <1>2, <2>2, <2>7
    <3>. QED  BY <1>8, <3>1, <3>2
  <2>8. ASSUME NEW t \in Used, NEW m \in Types
        PROVE  /\ Successor(heard'[t][m]) = counters'[m]
               /\ \A u \in Used : heard'[t][m] = heard'[u][m]
    <3>1. CASE m = n
      BY <2>5, <2>6, <3>1
    <3>2. CASE m # n
      BY <2>7, <3>2
    <3>. QED  BY <3>1, <3>2
  <2>9. HeardInv'
    BY <1>3, <2>4, <2>8 DEF HeardInv, Successor, None
  <2>. QED  BY <1>12, <2>3, <2>9 DEF CountInv, h, n
<1>. QED  BY <1>13, <1>14

LEMMA CountStarts == AllInv /\ Init => CountInv
<1>. SUFFICES ASSUME AllInv, Init PROVE CountInv
  OBVIOUS
<1>1. /\ mpc = "start" /\ counters = [m \in Types |-> 0]
      /\ heard = [t \in Transports |-> [m \in Types |-> None]]
  BY DEF Init
<1>2. LegsInv
  BY <1>1 DEF LegsInv, BeaconPlaces
<1>3. ASSUME NEW t \in Used, NEW m \in Types
      PROVE  ~Done(t, m) /\ counters[m] = 0 /\ heard[t][m] = None
  BY <1>1 DEF Done, Midway, BeaconPlaces, Used
<1>4. HeardInv
  BY <1>3 DEF HeardInv, Successor
<1>. QED  BY <1>2, <1>4 DEF CountInv

LEMMA ApLeavesMain ==
  ASSUME ApStep
  PROVE  UNCHANGED <<mainVars, gpsAll, signals, ended>>
BY DEF ApStep, ApRuns, ApPosts, ApFails, ApRegisters, ApPings, ApPinged, ApCloses, ApReconnects, ApEnds,
   apRest

LEMMA CountKeeps ==
  ASSUME OnePack, AllInv, CountInv, [Next]_vars
  PROVE  CountInv'
<1>1. CASE /\ \/ MainStarts \/ MainConnected \/ MainSetsUp \/ MainTakesSignals \/ MainOpensGps
              \/ MainFindsNoGps \/ MainStops \/ MainCrashes \/ MainAborts \/ MainCleansUp
              \/ MainQuits \/ MainHasQuit \/ MainJoinsAp \/ MainJoinsGps \/ MainJoinsNoThread \/ MainBegins
  <2>1. UNCHANGED <<config, counters, heard>>
    BY <1>1 DEF MainStarts, MainConnected, MainSetsUp, MainTakesSignals, MainOpensGps,
       MainFindsNoGps, MainStops, MainCrashes, MainAborts, MainCleansUp, MainQuits, MainHasQuit, MainJoinsAp,
       MainJoinsGps, MainJoinsNoThread, MainBegins, AfterBeacon, Goto, BeaconPlaces
  <2>2. mpc' \notin {"encode", "send"} \cup BeaconPlaces
    BY <1>1 DEF MainStarts, MainConnected, MainSetsUp, MainTakesSignals, MainOpensGps,
       MainFindsNoGps, MainStops, MainCrashes, MainAborts, MainCleansUp, MainQuits, MainHasQuit, MainJoinsAp,
       MainJoinsGps, MainJoinsNoThread, MainBegins, AfterBeacon, Goto, BeaconPlaces
  <2>3. mpc' \in Counting => mpc \in Counting /\ ~Midway
    BY <1>1 DEF MainStarts, MainConnected, MainSetsUp, MainTakesSignals, MainOpensGps,
       MainFindsNoGps, MainStops, MainCrashes, MainAborts, MainCleansUp, MainQuits, MainHasQuit, MainJoinsAp,
       MainJoinsGps, MainJoinsNoThread, MainBegins, AfterBeacon, Goto, Counting, Midway, BeaconPlaces
  <2>. QED  BY <2>1, <2>2, <2>3, CountsAsideKeeps
<1>2. CASE MainEncodes
  <2>1. /\ UNCHANGED <<config, counters, heard>> /\ legs' = Legs /\ mpc = "message"
        /\ mpc' \in {"encode", "send"}
    BY <1>2 DEF MainEncodes
  <2>2. Distinct(Legs) /\ Elements(Legs) = Used /\ (config.packs => Len(Legs) = 1)
    BY LegsElements DEF AllInv, MainInv
  <2>. QED  BY <2>1, <2>2, CountsBegin DEF Counting, Midway, BeaconPlaces
<1>3. CASE MainReadsField
  <2>1. /\ UNCHANGED <<config, counters, heard>> /\ legs' = legs /\ mpc = "encode"
        /\ mpc' \in {"encode", "send"}
    BY <1>3 DEF MainReadsField
  <2>2. Distinct(legs) /\ Elements(legs) = Used /\ (config.packs => Len(legs) = 1)
    BY <2>1 DEF CountInv, LegsInv
  <2>. QED  BY <2>1, <2>2, CountsBegin DEF Counting, Midway, BeaconPlaces
<1>4. CASE MainGives \/ MainSets
  BY <1>4, CountsGiven
<1>7. CASE MainIsSet \/ MainUpdates \/ MainIsUpdated
  BY <1>7, CountsWait
<1>5. CASE ApStep \/ GpsRuns \/ UNCHANGED vars
  <2>1. UNCHANGED mainVars
    BY <1>5, ApLeavesMain DEF GpsRuns, vars
  <2>. QED  BY <2>1, CountStays
<1>6. CASE Signal
  <2>1. Goto("killed") \/ UNCHANGED mainVars
    BY <1>6 DEF Signal
  <2>2. CASE Goto("killed")
    BY <2>2, CountsAsideKeeps DEF Goto, Counting, BeaconPlaces
  <2>. QED  BY <2>1, <2>2, CountStays
<1>. QED  BY <1>1, <1>2, <1>3, <1>4, <1>5, <1>6, <1>7 DEF Next, MainStep

\* Where a pack goes to one transport only, each transport is given the
\* counters of a message type one after the other, modulo the range
\* (MainGives: msg_counters in send_single_messages and send_packs).
THEOREM CountersAscend == OnePack => (Spec => CounterSequence)
<1>. SUFFICES ASSUME OnePack PROVE Spec => CounterSequence
  OBVIOUS
<1>1. Init => CountInv
  BY AllStarts, CountStarts
<1>2. AllInv /\ CountInv /\ [Next]_vars => CountInv'
  BY CountKeeps
<1>3. ASSUME AllInv, CountInv, [Next]_vars
      PROVE  [\A t \in Transports :
                mpc = "send" /\ Head(legs) = t /\ legs' = Tail(legs)
                => LET m == Schedule[position]
                   IN  heard'[t][m] = IF heard[t][m] = None THEN 0
                                      ELSE (heard[t][m] + 1) % CounterRange]_vars
  <2>1. CASE MainGives \/ MainSets
    BY <2>1, <1>3, CountsGiven DEF Successor
  <2>2. CASE ~(MainGives \/ MainSets) /\ mpc = "send"
    <3>1. legs \in Seq(Transports) /\ legs # <<>>
      BY <1>3, <2>2 DEF AllInv, MainInv
    <3>2. Len(Tail(legs)) = Len(legs) - 1 /\ Len(legs) \in Nat \ {0}
      BY <3>1, FirstAndRest
    <3>3. legs # Tail(legs)
      BY <3>2, Naturals
    <3>4. CASE MainStep
      BY <2>2, <3>3, <3>4 DEF MainStep, MainStarts, MainConnected, MainSetsUp, MainTakesSignals,
         MainOpensGps, MainFindsNoGps, MainBegins, MainStops, MainEncodes, MainReadsField,
         MainIsSet, MainUpdates, MainIsUpdated, MainCrashes, MainAborts, MainCleansUp, MainQuits,
         MainHasQuit, MainJoinsAp, MainJoinsGps, MainJoinsNoThread, Goto
    <3>5. CASE ApStep \/ GpsRuns \/ Signal \/ UNCHANGED vars
      <4>1. legs' = legs
        BY <3>5, ApLeavesMain DEF GpsRuns, Signal, Goto, mainVars, vars
      <4>. QED  BY <3>3, <4>1
    <3>. QED  BY <1>3, <3>4, <3>5 DEF Next
  <2>. QED  BY <2>1, <2>2
<1>. QED  BY AllStarts, AllKeeps, <1>1, <1>2, <1>3, PTL DEF Spec, CounterSequence

\* On the same terms no transport is behind another between two loops.
THEOREM NoneLagsBehind == OnePack => (Spec => []TransportsAgree)
<1>. SUFFICES ASSUME OnePack PROVE Spec => []TransportsAgree
  OBVIOUS
<1>1. Init => CountInv
  BY AllStarts, CountStarts
<1>2. AllInv /\ CountInv /\ [Next]_vars => CountInv'
  BY CountKeeps
<1>3. AllInv /\ CountInv => TransportsAgree
  <2>. SUFFICES ASSUME AllInv, CountInv, mpc = "loop", NEW t \in Used, NEW u \in Used
                PROVE  heard[t] = heard[u]
    BY DEF TransportsAgree, Used
  <2>1. heard[t] \in [Types -> 0..None] /\ heard[u] \in [Types -> 0..None]
    BY DEF AllInv, MainInv, Used
  <2>2. \A m \in Types : heard[t][m] = heard[u][m]
    BY DEF CountInv, HeardInv, Counting, Done, Midway, BeaconPlaces
  <2>. QED  BY <2>1, <2>2
<1>. QED  BY AllStarts, AllKeeps, <1>1, <1>2, <1>3, PTL DEF Spec

----------------------------------------------------------------------------
(* The life of the two threads *)

\* Places of main after its wait for the ap thread, until it has joined it.
PastWait == {"setUp", "signals", "openGps", "loop", "message", "encode", "send", "setWait", "update",
             "updateWait", "cleanup", "quit", "quitWait", "joinAp"}

\* The ap thread has posted that it is connected.
Posted == {"posted", "running", "pinging", "losing", "exited"}

\* What each place of main knows of the threads: which options brought it
\* there, that the ap thread has posted, and that a thread it waits for, or
\* that has gone, was told to end.
LifeInv ==
  /\ mpc = "start" \/ ~config.beacon => ap = "none"
  /\ mpc = "start" => semaphore = 0
  /\ mpc = "waitAp" /\ semaphore > 0 => ap \in Posted
  /\ gpc # "none" \/ mpc \in {"signals", "openGps"} => config.gps
  /\ mpc \in PastWait => ~config.beacon \/ ap \in Posted
  /\ ap = "exited" \/ mpc \in {"quitWait", "joinAp"} => ended
  /\ mpc \in {"quit", "quitWait", "joinAp"} => config.beacon
  /\ mpc = "joinGps" => config.gps /\ ap \in {"none", "exited"}
  /\ mpc \in {"cleanup", "quit", "quitWait", "joinAp", "joinGps"} => gpc = "none" \/ kill_program

LEMMA LifeStarts == Init => LifeInv
BY DEF Init, GpsInit, LifeInv, PastWait, Posted

\* The steps of main do not touch the threads, but for the three named here.
MainAside ==
  \/ MainConnected \/ MainSetsUp \/ MainTakesSignals \/ MainFindsNoGps \/ MainBegins \/ MainStops
  \/ MainEncodes \/ MainReadsField \/ MainGives \/ MainSets \/ MainIsSet \/ MainUpdates \/ MainIsUpdated
  \/ MainCrashes \/ MainAborts \/ MainCleansUp \/ MainHasQuit
  \/ MainJoinsAp \/ MainJoinsGps \/ MainJoinsNoThread

\* Places within a loop of messages, from the first message on.
Within == {"message", "encode", "send", "setWait", "update", "updateWait"}

LEMMA MainAsideFacts ==
  ASSUME MainAside
  PROVE  /\ UNCHANGED <<config, ap, ended, gpc, kill_program>>
         /\ \/ mpc = "waitAp" /\ mpc' = "setUp" /\ semaphore > 0
            \/ mpc = "setUp" /\ mpc' = (IF config.gps THEN "signals" ELSE "loop")
            \/ mpc = "signals" /\ mpc' = "openGps"
            \/ mpc = "openGps" /\ mpc' = "cleanup"
            \/ mpc = "loop" /\ mpc' = "message"
            \/ mpc = "loop" /\ mpc' = "cleanup" /\ kill_program
            \/ mpc \in Within /\ mpc' \in Within
            \/ mpc \in Within /\ mpc' = (IF config.gps THEN "loop" ELSE "cleanup")
            \/ mpc \in {"setUp", "cleanup", "send", "update"} /\ mpc' \in {"aborted", "crashed"}
            \/ mpc = "cleanup" /\ mpc' = "quit" /\ config.beacon
            \/ mpc = "cleanup" /\ ~config.beacon /\ mpc' = (IF config.gps THEN "joinGps" ELSE "exit")
            \/ mpc = "quitWait" /\ mpc' = "joinAp"
            \/ mpc = "joinAp" /\ ap = "exited" /\ mpc' = (IF config.gps THEN "joinGps" ELSE "exit")
            \/ mpc = "joinGps" /\ gpc = "exited" /\ mpc' = "exit"
            \/ mpc = "joinGps" /\ gpc = "none" /\ mpc' \in {"exit", "crashed"}
<1>. USE DEF others, aside, gpsAll, gpsVars, apVars, Goto, Within
<1>1. CASE MainConnected \/ MainSetsUp \/ MainTakesSignals \/ MainFindsNoGps \/ MainBegins \/ MainStops
  BY <1>1 DEF MainConnected, MainSetsUp, MainTakesSignals, MainFindsNoGps, MainBegins, MainStops, SemWait
<1>2. CASE MainEncodes \/ MainReadsField
  BY <1>2 DEF MainEncodes, MainReadsField
<1>3. CASE MainGives
  <2>1. UNCHANGED <<config, ap, ended, gpc, kill_program>> /\ mpc = "send"
    BY <1>3 DEF MainGives, Give
  <2>2. mpc' \in {"send", "message"} \/ mpc' = (IF config.gps THEN "loop" ELSE "cleanup")
    BY <1>3, OnwardNext
  <2>. QED  BY <2>1, <2>2
<1>4. CASE MainSets \/ MainIsSet \/ MainUpdates
  BY <1>4 DEF MainSets, MainIsSet, MainUpdates, Give
<1>5. CASE MainIsUpdated
  <2>1. /\ UNCHANGED <<config, ap, ended, gpc, kill_program>> /\ mpc = "updateWait"
        /\ mpc' = Onward(legs, position)
    BY <1>5 DEF MainIsUpdated
  <2>2. mpc' \in {"send", "message"} \/ mpc' = (IF config.gps THEN "loop" ELSE "cleanup")
    BY <2>1, OnwardFacts
  <2>. QED  BY <2>1, <2>2
<1>6. CASE MainCrashes \/ MainAborts \/ MainCleansUp \/ MainHasQuit
  BY <1>6 DEF MainCrashes, MainAborts, MainCleansUp, MainHasQuit, AfterBeacon
<1>7. CASE MainJoinsAp \/ MainJoinsGps \/ MainJoinsNoThread
  BY <1>7 DEF MainJoinsAp, MainJoinsGps, MainJoinsNoThread, AfterBeacon
<1>. QED  BY <1>1, <1>2, <1>3, <1>4, <1>5, <1>6, <1>7 DEF MainAside

\* What a step of the gps thread shows of itself.
LEMMA GpsRunsFacts ==
  ASSUME GpsRuns, kill_program \in BOOLEAN
  PROVE  /\ UNCHANGED <<config, mpc, ap, ended, semaphore>>
         /\ gpc \notin {"none", "exited"} /\ gpc' # "none"
         /\ kill_program' \in {kill_program, TRUE}
         /\ gpc' = "exited" => kill_program'
         /\ gpc' # "exited" => kill_program' = kill_program
<1>1. UNCHANGED <<config, mpc, ap, ended, semaphore>> /\ GpsStep
  BY DEF GpsRuns, mainVars, apVars
<1>2. CASE GpsNotReady \/ GpsReadFails
  BY <1>1, <1>2 DEF GpsNotReady, GpsReadFails, Retry
<1>3. CASE GpsStops \/ GpsWaits \/ GpsReady \/ GpsReads \/ GpsAssigns \/ GpsProcessed
  BY <1>1, <1>3 DEF GpsStops, GpsWaits, GpsReady, GpsReads, GpsAssigns, GpsProcessed
<1>. QED  BY <1>1, <1>2, <1>3 DEF GpsStep

LEMMA SignalFacts ==
  ASSUME Signal
  PROVE  /\ UNCHANGED <<config, ap, gpc, semaphore>>
         /\ \/ mpc' = "killed" /\ UNCHANGED <<ended, kill_program>>
            \/ mpc' = mpc /\ ended' = TRUE /\ kill_program' = kill_program
            \/ mpc' = mpc /\ ended' = ended /\ kill_program' = TRUE
BY DEF Signal, Goto, Handled, mainVars, gpsVars

LEMMA ApFacts ==
  ASSUME ApStep
  PROVE  /\ UNCHANGED <<config, mpc, ended, gpc, kill_program>>
         /\ \/ ap = "starting" /\ ap' = "posted"
            \/ ap = "starting" /\ ap' = "failed" /\ semaphore' = semaphore
            \/ ap \in Posted \ {"exited"} /\ ap' \in Posted \ {"exited"}
            \/ ap = "running" /\ ap' = "exited" /\ ended
BY DEF ApStep, ApRuns, ApPosts, ApFails, ApRegisters, ApPings, ApPinged, ApCloses, ApReconnects, ApEnds,
   Posted, apRest, gpsAll, gpsVars, mainVars

LEMMA LifeKeeps ==
  ASSUME AllInv, LifeInv, [Next]_vars
  PROVE  LifeInv'
<1>0. /\ kill_program \in BOOLEAN /\ ended \in BOOLEAN
      /\ ap \in {"none", "starting", "failed"} \cup Posted
      /\ mpc \in Places /\ (mpc = "openGps" => gpc = "none")
  BY DEF AllInv, GpsInv, GpsTypeOK, MainInv, RestInv, ApPlaces, Posted
<1>1. CASE MainStarts
  <2>1. UNCHANGED <<config, gpc, kill_program, ended, semaphore>> /\ mpc = "start"
        /\ \/ config.beacon /\ ap' = "starting" /\ mpc' = "waitAp"
           \/ ~config.beacon /\ ap' = ap /\ mpc' = "setUp"
    BY <1>1 DEF MainStarts, Goto, gpsAll, gpsVars
  <2>. QED  BY <2>1 DEF LifeInv, PastWait, Posted
<1>2. CASE MainOpensGps
  <2>1. UNCHANGED <<config, kill_program, ap, ended>> /\ gpc' = "check"
        /\ mpc = "openGps" /\ mpc' = "loop"
    BY <1>2 DEF MainOpensGps, Goto, GpsCreate, apVars
  <2>. QED  BY <2>1 DEF LifeInv, PastWait, Posted
<1>3. CASE MainQuits
  <2>1. UNCHANGED <<config, kill_program, ap, gpc>> /\ ended' = TRUE
        /\ mpc = "quit" /\ mpc' = "quitWait"
    BY <1>3 DEF MainQuits, Goto, gpsAll, gpsVars
  <2>. QED  BY <2>1 DEF LifeInv, PastWait, Posted
<1>4. CASE MainAside
  BY <1>0, <1>4, MainAsideFacts DEF LifeInv, PastWait, Posted, Within
<1>5. CASE ApStep
  BY <1>0, <1>5, ApFacts DEF LifeInv, PastWait, Posted, Places
<1>6. CASE GpsRuns
  BY <1>0, <1>6, GpsRunsFacts DEF LifeInv, PastWait, Posted
<1>7. CASE Signal
  BY <1>0, <1>7, SignalFacts DEF LifeInv, PastWait, Posted
<1>8. CASE UNCHANGED vars
  BY <1>8 DEF LifeInv, PastWait, Posted, vars, mainVars, apVars, gpsVars
<1>. QED  BY <1>1, <1>2, <1>3, <1>4, <1>5, <1>6, <1>7, <1>8 DEF Next, MainStep, MainAside

\* The steps of the program are those of Lifecycle.
LEMMA LifeBegins == Init => Life!Init
BY DEF Init, GpsInit, Life!Init, Life!Threads

LEMMA LifeSteps ==
  ASSUME AllInv, LifeInv, [Next]_vars
  PROVE  [Life!Next]_(Life!vars)
<1>. USE DEF Life!Threads
<1>0. /\ kill_program \in BOOLEAN /\ ended \in BOOLEAN
      /\ ap \in {"none", "starting", "failed"} \cup Posted
      /\ mpc \in Places
      /\ mpc \in {"start", "waitAp", "setUp", "signals", "openGps"} => gpc = "none"
  BY DEF AllInv, GpsInv, GpsTypeOK, MainInv, RestInv, ApPlaces, Posted
<1>1. CASE MainStarts
  <2>1. UNCHANGED <<gpc, kill_program, ended>> /\ ap = "none" /\ mpc = "start"
        /\ \/ config.beacon /\ ap' = "starting" /\ mpc' = "waitAp"
           \/ ~config.beacon /\ ap' = ap /\ mpc' = "setUp"
    BY <1>1 DEF MainStarts, Goto, gpsAll, gpsVars, LifeInv
  <2>2. CASE ap' = "starting" /\ mpc' = "waitAp"
    <3>1. Life!Create("ap")
      BY <2>1, <2>2 DEF Life!Create, Life!Created
    <3>. QED  BY <3>1 DEF Life!Next
  <2>3. CASE ap' = ap /\ mpc' = "setUp"
    BY <2>1, <2>3 DEF Life!vars
  <2>. QED  BY <2>1, <2>2, <2>3
<1>2. CASE MainOpensGps
  <2>1. UNCHANGED <<kill_program, ap, ended>> /\ gpc = "none" /\ gpc' = "check"
        /\ mpc = "openGps" /\ mpc' = "loop"
    BY <1>0, <1>2 DEF MainOpensGps, Goto, GpsCreate, apVars
  <2>2. ap \in {"none"} \cup Posted /\ (ap = "exited" => ended)
    BY <2>1 DEF LifeInv, PastWait, Posted
  <2>3. Life!Begin
    BY <2>1, <2>2 DEF Life!Begin, Life!Created, Posted
  <2>. QED  BY <2>3 DEF Life!Next
<1>3. CASE MainQuits
  <2>1. UNCHANGED <<kill_program, ap, gpc>> /\ ended' = TRUE /\ mpc = "quit" /\ mpc' = "quitWait"
    BY <1>3 DEF MainQuits, Goto, gpsAll, gpsVars
  <2>2. Life!Tell("ap")
    BY <1>0, <2>1 DEF Life!Tell, Life!Running
  <2>. QED  BY <2>2 DEF Life!Next
<1>4. CASE MainAside
  <2>. USE DEF Life!Next
  <2>0. UNCHANGED <<ap, ended, gpc, kill_program>>
    BY <1>4, MainAsideFacts
  <2>1. CASE mpc \in {"setUp", "cleanup", "send", "update"} /\ mpc' \in {"aborted", "crashed"}
    <3>1. Life!Cut
      BY <2>0, <2>1 DEF Life!Cut, Life!Running
    <3>. QED  BY <3>1
  <2>2. CASE mpc = "joinGps" /\ mpc' = "crashed"
    <3>1. Life!Cut
      BY <2>0, <2>2 DEF Life!Cut, Life!Running
    <3>. QED  BY <3>1
  <2>3. CASE mpc = "setUp" /\ mpc' = "loop"
    <3>1. gpc = "none" /\ ap \in {"none"} \cup Posted /\ (ap = "exited" => ended)
      BY <1>0, <2>3 DEF LifeInv, PastWait, Posted
    <3>2. Life!Begin
      BY <2>0, <2>3, <3>1 DEF Life!Begin, Posted
    <3>. QED  BY <3>2
  <2>4. CASE mpc \in {"openGps", "loop"} \cup Within /\ mpc' = "cleanup"
    <3>1. gpc = "none" \/ kill_program
      BY <1>0, <1>4, <2>4, MainAsideFacts DEF LifeInv, Within
    <3>2. Life!Stop
      BY <1>0, <2>0, <2>4, <3>1 DEF Life!Stop, Within
    <3>. QED  BY <3>2
  <2>5. CASE mpc \in {"cleanup", "joinAp"} /\ mpc' = "joinGps"
    <3>1. (gpc = "none" \/ kill_program) /\ (mpc = "joinAp" => ap = "exited")
      BY <1>4, <2>5, MainAsideFacts DEF LifeInv, Within
    <3>2. Life!Await("gps")
      BY <1>0, <2>0, <2>5, <3>1 DEF Life!Await
    <3>. QED  BY <3>2
  <2>6. CASE mpc \in {"cleanup", "joinAp", "joinGps"} /\ mpc' = "exit"
    <3>1. gpc \in {"none", "exited"} /\ ap \in {"none", "exited"}
      BY <1>4, <2>6, MainAsideFacts DEF LifeInv, Within
    <3>2. Life!Exit
      BY <2>0, <2>6, <3>1 DEF Life!Exit
    <3>. QED  BY <3>2
  <2>7. CASE mpc = "quitWait" /\ mpc' = "joinAp"
    <3>1. ended
      BY <2>7 DEF LifeInv
    <3>2. Life!Await("ap")
      BY <1>0, <2>0, <2>7, <3>1 DEF Life!Await
    <3>. QED  BY <3>2
  <2>8. CASE \/ mpc \in {"waitAp", "setUp", "signals"} /\ mpc' \in {"setUp", "signals", "openGps"}
             \/ mpc \in {"loop"} \cup Within /\ mpc' \in {"loop"} \cup Within
             \/ mpc = "cleanup" /\ mpc' = "quit"
    BY <2>0, <2>8 DEF Life!vars, Within
  <2>. QED  BY <1>4, <2>1, <2>2, <2>3, <2>4, <2>5, <2>6, <2>7, <2>8, MainAsideFacts DEF Within
<1>5. CASE ~Ended /\ ApStep
  <2>. USE DEF Life!Next
  <2>0. UNCHANGED <<mpc, ended, gpc, kill_program>> /\ mpc \notin {"exit", "crashed", "killed", "aborted"}
    BY <1>5, ApFacts DEF Ended
  <2>1. CASE ap = "starting" /\ ap' = "failed"
    <3>1. mpc = "waitAp"
      BY <1>0, <2>0, <2>1 DEF LifeInv, PastWait, Posted, Places
    <3>2. Life!Fail("ap")
      BY <2>0, <2>1, <3>1 DEF Life!Fail
    <3>. QED  BY <3>2
  <2>2. CASE ap = "running" /\ ap' = "exited" /\ ended
    <3>1. Life!End("ap")
      BY <1>0, <2>0, <2>2 DEF Life!End, Life!Running, Places
    <3>. QED  BY <3>1
  <2>3. CASE ap \in {"starting"} \cup (Posted \ {"exited"}) /\ ap' \in Posted \ {"exited"}
    BY <2>0, <2>3 DEF Life!vars, Posted
  <2>. QED  BY <1>5, <2>1, <2>2, <2>3, ApFacts DEF Posted
<1>6. CASE ~Ended /\ GpsRuns
  <2>f. /\ gpc' = "exited" => kill_program'
        /\ gpc' # "exited" => kill_program' = kill_program
    BY <1>0, <1>6, GpsRunsFacts
  <2>0. /\ UNCHANGED <<mpc, ap, ended>> /\ gpc \notin {"none", "exited"} /\ gpc' # "none"
        /\ mpc \notin {"exit", "crashed", "killed", "aborted"}
    BY <1>0, <1>6, GpsRunsFacts DEF Ended
  <2>1. CASE gpc' = "exited"
    <3>1. kill_program'
      BY <2>f, <2>1
    <3>2. Life!End("gps")
      BY <1>0, <2>0, <2>1, <3>1 DEF Life!End, Life!Running, Places
    <3>. QED  BY <3>2 DEF Life!Next
  <2>2. CASE gpc' # "exited"
    <3>1. kill_program' = kill_program
      BY <2>f, <2>2
    <3>. QED  BY <2>0, <2>2, <3>1 DEF Life!vars
  <2>. QED  BY <2>1, <2>2
<1>7. CASE ~Ended /\ Signal
  <2>0. UNCHANGED <<ap, gpc>> /\ mpc \notin {"exit", "crashed", "killed", "aborted"}
    BY <1>7, SignalFacts DEF Ended
  <2>1. CASE mpc' = "killed" /\ UNCHANGED <<ended, kill_program>>
    <3>1. Life!Cut
      BY <1>0, <2>0, <2>1 DEF Life!Cut, Life!Running, Places
    <3>. QED  BY <3>1 DEF Life!Next
  <2>2. CASE mpc' = mpc /\ ended' = TRUE /\ kill_program' = kill_program
    <3>1. Life!Tell("ap")
      BY <1>0, <2>0, <2>2 DEF Life!Tell, Life!Running, Places
    <3>. QED  BY <3>1 DEF Life!Next
  <2>3. CASE mpc' = mpc /\ ended' = ended /\ kill_program' = TRUE
    <3>1. Life!Tell("gps")
      BY <1>0, <2>0, <2>3 DEF Life!Tell, Life!Running, Places
    <3>. QED  BY <3>1 DEF Life!Next
  <2>4. \/ mpc' = "killed" /\ UNCHANGED <<ended, kill_program>>
        \/ mpc' = mpc /\ ended' = TRUE /\ kill_program' = kill_program
        \/ mpc' = mpc /\ ended' = ended /\ kill_program' = TRUE
    BY <1>7, SignalFacts
  <2>. QED  BY <2>1, <2>2, <2>3, <2>4, Zenon
<1>8. CASE UNCHANGED vars
  BY <1>8 DEF Life!vars, vars, mainVars, apVars, gpsVars
<1>. QED  BY <1>1, <1>2, <1>3, <1>4, <1>5, <1>6, <1>7, <1>8 DEF Next, MainStep, MainAside

\* Whatever the options, the retries and the signals: a thread is told before
\* it is waited for, transmission needs a start that succeeded, and exit leaves
\* no thread behind.
THEOREM LifecycleImplemented == Spec => ImplementsLifecycle
<1>1. Init => LifeInv
  BY LifeStarts
<1>2. AllInv /\ LifeInv /\ [Next]_vars => LifeInv'
  BY LifeKeeps
<1>3. AllInv /\ LifeInv /\ [Next]_vars => [Life!Next]_(Life!vars)
  BY LifeSteps
<1>. QED  BY AllStarts, AllKeeps, LifeBegins, <1>1, <1>2, <1>3, PTL DEF Spec, ImplementsLifecycle, Life!Spec

----------------------------------------------------------------------------
(* The fixes that the fields come from *)

\* What process_gps_data may have still to assign.
Remaining == {<<>>, <<"longitude">>, <<"latitude", "longitude">>, <<"height">>,
              <<"altitude", "height">>, <<"longitude", "altitude", "height">>, LocationOrder}

\* The latitude is assigned and the longitude is not.
Half == writing # <<>> /\ Head(writing) = "longitude"

\* No field is ahead of gpsd, nothing encoded is ahead of it, and only between two
\* assignments of process_gps_data is the position that of two fixes.
FixInv ==
  /\ writing \in Remaining
  /\ writing # <<>> => gpc = "process"
  /\ \A f \in Fields : location[f] <= fix /\ encoded[f] <= location[f]
  /\ Half => location["latitude"] = fix
  /\ ~Half => location["latitude"] = location["longitude"]

LEMMA AssignmentsAre ==
  ASSUME NEW mode, NEW finite
  PROVE  Assignments(mode, finite) \in {<<>>, <<"latitude", "longitude">>, LocationOrder}
<1>1. CASE mode = "3D" /\ finite
  <2>1. Assignments(mode, finite) = <<"latitude", "longitude">> \o <<"altitude", "height">>
    BY <1>1 DEF Assignments
  <2>. DEFINE a == <<"latitude", "longitude">>  b == <<"altitude", "height">>
  <2>2. /\ a \in Seq(Fields) /\ Len(a) = 2 /\ a[1] = "latitude" /\ a[2] = "longitude"
        /\ b \in Seq(Fields) /\ Len(b) = 2 /\ b[1] = "altitude" /\ b[2] = "height"
        /\ LocationOrder \in Seq(Fields) /\ Len(LocationOrder) = 4
        /\ LocationOrder[1] = a[1] /\ LocationOrder[2] = a[2]
        /\ LocationOrder[3] = b[1] /\ LocationOrder[4] = b[2]
    BY DEF LocationOrder, Fields
  <2>. HIDE DEF a, b
  <2>3. /\ a \o b \in Seq(Fields) /\ Len(a \o b) = Len(a) + Len(b)
        /\ \A i \in 1..(Len(a) + Len(b)) : (a \o b)[i] = IF i <= Len(a) THEN a[i] ELSE b[i - Len(a)]
    BY <2>2, ConcatProperties
  <2>4. /\ Len(a \o b) = 4
        /\ \A i \in 1..4 : (a \o b)[i] = LocationOrder[i]
    BY <2>2, <2>3
  <2>5. a \o b = LocationOrder
    BY <2>2, <2>3, <2>4, SeqEqual
  <2>. QED  BY <2>1, <2>5 DEF a, b
<1>2. CASE ~(mode = "3D" /\ finite) /\ mode \in {"2D", "3D"}
  <2>1. Assignments(mode, finite) = <<"latitude", "longitude">> \o <<>>
    BY <1>2 DEF Assignments
  <2>. QED  BY <2>1
<1>3. CASE mode \notin {"2D", "3D"}
  <2>1. Assignments(mode, finite) = <<>> \o <<>>
    BY <1>3 DEF Assignments
  <2>. QED  BY <2>1
<1>. QED  BY <1>1, <1>2, <1>3

LEMMA RemainingTail ==
  ASSUME NEW s \in Remaining, s # <<>>
  PROVE  /\ Head(s) \in Fields /\ Tail(s) \in Remaining
         /\ Head(s) = "latitude" => Tail(s) # <<>> /\ Head(Tail(s)) = "longitude"
         /\ Head(s) # "latitude" => Tail(s) = <<>> \/ Head(Tail(s)) # "longitude"
<1>. USE DEF Remaining, LocationOrder, Fields
<1>1. ASSUME NEW f \in {"longitude", "height"}, s = <<f>>
      PROVE  Head(s) = f /\ Tail(s) = <<>>
  <2>1. s \in Seq(Fields) /\ Len(s) = 1 /\ Head(s) = f
    BY <1>1
  <2>. QED  BY <2>1, FirstAndRest
<1>2. CASE s = <<"latitude", "longitude">>
  BY <1>2
<1>3. CASE s = <<"altitude", "height">>
  BY <1>3
<1>4. CASE s = <<"longitude", "altitude", "height">>
  BY <1>4
<1>5. CASE s = LocationOrder
  BY <1>5
<1>6. CASE s = <<"longitude">> \/ s = <<"height">>
  BY <1>1, <1>6
<1>. QED  BY <1>2, <1>3, <1>4, <1>5, <1>6

LEMMA FixStarts == AllInv /\ Init => FixInv
BY GpsAssumption DEF Init, GpsInit, FixInv, Half, Remaining, Fields

\* Nothing but a step of the gps thread, and the reading of a field, touches
\* the position.
LEMMA FixStays ==
  ASSUME FixInv, UNCHANGED <<fix, writing, location, encoded>>, gpc' = gpc \/ writing = <<>>
  PROVE  FixInv'
BY DEF FixInv, Half

LEMMA FixTypes ==
  ASSUME AllInv
  PROVE  /\ fix \in Nat
         /\ location \in [Fields -> 0..MaxFixes] /\ encoded \in [Fields -> 0..MaxFixes]
         /\ \A f \in Fields : location[f] \in Nat /\ encoded[f] \in Nat
BY GpsAssumption DEF AllInv, GpsInv, GpsTypeOK, MainInv

LEMMA FixRead ==
  ASSUME AllInv, FixInv, GpsReads, encoded' = encoded
  PROVE  FixInv'
<1>1. /\ gpc = "read" /\ gpc' = "process" /\ location' = location /\ fix <= fix' /\ fix' \in Nat
      /\ writing' \in {<<>>, <<"latitude", "longitude">>, LocationOrder}
  BY AssignmentsAre, FixTypes DEF GpsReads
<1>2. writing = <<>> /\ ~Half
  BY <1>1 DEF FixInv, Half
<1>3. writing' \in Remaining /\ (writing' # <<>> => Head(writing') # "longitude")
  BY <1>1 DEF Remaining, LocationOrder
<1>4. \A f \in Fields : location'[f] <= fix' /\ encoded'[f] <= location'[f]
  BY <1>1, FixTypes DEF FixInv
<1>. QED  BY <1>1, <1>2, <1>3, <1>4 DEF FixInv, Half

LEMMA FixAssigned ==
  ASSUME AllInv, FixInv, GpsAssigns, encoded' = encoded
  PROVE  /\ FixInv'
         /\ \A f \in Fields : location[f] <= location'[f]
<1>. DEFINE g == Head(writing)
<1>1. /\ gpc = "process" /\ gpc' = gpc /\ fix' = fix /\ writing # <<>> /\ writing' = Tail(writing)
      /\ location' = [location EXCEPT ![g] = fix]
  BY DEF GpsAssigns
<1>2. g \in Fields /\ writing' \in Remaining
  BY <1>1, RemainingTail DEF FixInv
<1>3. \A f \in Fields : location'[f] = IF f = g THEN fix ELSE location[f]
  BY <1>1, <1>2, FixTypes
<1>4. /\ g = "latitude" => Half'
      /\ g # "latitude" => ~Half'
      /\ Half <=> g = "longitude"
  BY <1>1, RemainingTail DEF FixInv, Half
<1>. HIDE DEF g
<1>5. \A f \in Fields : /\ location'[f] <= fix' /\ encoded'[f] <= location'[f]
                        /\ location[f] <= location'[f]
  BY <1>1, <1>3, FixTypes DEF FixInv
<1>6. "latitude" \in Fields /\ "longitude" \in Fields
  BY DEF Fields
<1>7. /\ Half' => location'["latitude"] = fix'
      /\ ~Half' => location'["latitude"] = location'["longitude"]
  BY <1>1, <1>3, <1>4, <1>6 DEF FixInv
<1>. QED  BY <1>1, <1>2, <1>5, <1>7 DEF FixInv

LEMMA FixEncoded ==
  ASSUME AllInv, FixInv, MainReadsField
  PROVE  /\ FixInv'
         /\ \A f \in Fields : encoded[f] <= encoded'[f]
<1>. DEFINE g == Head(encoding)
<1>1. /\ UNCHANGED <<fix, writing, location, gpc>>
      /\ encoded' = [encoded EXCEPT ![g] = location[g]]
  BY DEF MainReadsField, others, aside, gpsAll, gpsVars
<1>2. mpc = "encode" /\ encoding \in Seq(Fields) /\ encoding # <<>>
  BY DEF MainReadsField, AllInv, MainInv
<1>3. g \in Fields
  BY <1>2, FirstAndRest
<1>4. \A f \in Fields : encoded'[f] = IF f = g THEN location[g] ELSE encoded[f]
  BY <1>1, <1>3, FixTypes
<1>. HIDE DEF g
<1>5. \A f \in Fields : /\ location'[f] <= fix' /\ encoded'[f] <= location'[f]
                        /\ encoded[f] <= encoded'[f]
  BY <1>1, <1>3, <1>4, FixTypes DEF FixInv
<1>. QED  BY <1>1, <1>5 DEF FixInv, Half

\* Every other step leaves the position alone, while a fix is assigned too.
LEMMA FixAside ==
  ASSUME AllInv, FixInv, [Next]_vars, ~MainReadsField, GpsRuns => ~GpsReads /\ ~GpsAssigns
  PROVE  FixInv' /\ UNCHANGED <<location, encoded>>
<1>1. CASE MainStep /\ ~MainOpensGps
  <2>1. UNCHANGED others \/ UNCHANGED aside \/ UNCHANGED gpsAll
    BY <1>1 DEF MainStep, MainStarts, MainConnected, MainSetsUp, MainTakesSignals, MainFindsNoGps,
       MainBegins, MainStops, MainEncodes, MainGives, MainSets, MainIsSet, MainUpdates, MainIsUpdated,
       MainCrashes, MainAborts, MainCleansUp, MainQuits, MainHasQuit, MainJoinsAp, MainJoinsGps,
       MainJoinsNoThread, AfterBeacon
  <2>2. UNCHANGED <<fix, writing, location, gpc>>
    BY <2>1 DEF others, aside, gpsAll, gpsVars
  <2>3. encoded' = encoded
    BY <1>1 DEF MainStep, MainStarts, MainConnected, MainSetsUp, MainTakesSignals, MainFindsNoGps,
       MainBegins, MainStops, MainEncodes, MainGives, MainSets, MainIsSet, MainUpdates, MainIsUpdated,
       MainCrashes, MainAborts, MainCleansUp, MainQuits, MainHasQuit, MainJoinsAp, MainJoinsGps,
       MainJoinsNoThread, AfterBeacon, Goto, Give
  <2>. QED  BY <2>2, <2>3, FixStays
<1>2. CASE MainOpensGps
  <2>1. UNCHANGED <<fix, writing, location, encoded>> /\ mpc = "openGps"
    BY <1>2 DEF MainOpensGps, GpsCreate, Goto
  <2>2. gpc = "none"
    BY <2>1 DEF AllInv, MainInv
  <2>3. writing = <<>>
    BY <2>2 DEF FixInv
  <2>. QED  BY <2>1, <2>3, FixStays
<1>3. CASE GpsRuns
  <2>1. /\ encoded' = encoded
        /\ GpsStops \/ GpsWaits \/ GpsNotReady \/ GpsReady \/ GpsReadFails \/ GpsProcessed
    BY <1>3 DEF GpsRuns, GpsStep, mainVars
  <2>2. UNCHANGED <<fix, writing, location>> /\ (gpc # "process" \/ writing = <<>>)
    BY <2>1 DEF GpsStops, GpsWaits, GpsNotReady, GpsReady, GpsReadFails, GpsProcessed
  <2>3. writing = <<>>
    BY <2>2 DEF FixInv
  <2>. QED  BY <2>1, <2>2, <2>3, FixStays
<1>4. CASE ApStep \/ Signal \/ UNCHANGED vars
  <2>1. UNCHANGED <<fix, writing, location, gpc>>
    BY <1>4, ApLeavesMain DEF Signal, gpsAll, gpsVars, vars
  <2>2. encoded' = encoded
    BY <1>4, ApLeavesMain DEF Signal, Goto, mainVars, vars
  <2>. QED  BY <2>1, <2>2, FixStays
<1>. QED  BY <1>1, <1>2, <1>3, <1>4 DEF Next

LEMMA FixKeeps ==
  ASSUME AllInv, FixInv, [Next]_vars
  PROVE  /\ FixInv'
         /\ \A f \in Fields : location[f] <= location'[f] /\ encoded[f] <= encoded'[f]
<1>0. \A f \in Fields : location[f] <= location[f] /\ encoded[f] <= encoded[f]
  BY FixTypes
<1>1. CASE MainReadsField
  <2>1. location' = location
    BY <1>1 DEF MainReadsField, others, aside, gpsAll, gpsVars
  <2>. QED  BY <1>0, <1>1, <2>1, FixEncoded
<1>2. CASE GpsRuns /\ (GpsReads \/ GpsAssigns)
  <2>1. encoded' = encoded
    BY <1>2 DEF GpsRuns, mainVars
  <2>2. GpsReads => location' = location
    BY DEF GpsReads
  <2>. QED  BY <1>0, <1>2, <2>1, <2>2, FixRead, FixAssigned
<1>3. CASE ~MainReadsField /\ (GpsRuns => ~GpsReads /\ ~GpsAssigns)
  <2>1. FixInv' /\ UNCHANGED <<location, encoded>>
    BY <1>3, FixAside
  <2>. QED  BY <1>0, <2>1
<1>. QED  BY <1>1, <1>2, <1>3

\* Whatever gpsd reports and whenever the fields are read: no field that is
\* transmitted of the position is older than it was when transmitted before
\* (process_gps_data and encodeLocationMessage, without a lock).
THEOREM PositionsNeverGoBack == Spec => PositionsAdvance
<1>1. Init => FixInv
  BY AllStarts, FixStarts
<1>2. AllInv /\ FixInv /\ [Next]_vars => FixInv'
  BY FixKeeps
<1>3. AllInv /\ FixInv /\ [Next]_vars
      => [\A f \in Fields : location[f] <= location'[f] /\ encoded[f] <= encoded'[f]]_vars
  BY FixKeeps
<1>. QED  BY AllStarts, AllKeeps, <1>1, <1>2, <1>3, PTL DEF Spec, PositionsAdvance

\* The latitude has been read and the longitude has not.
ReadHalf == mpc = "encode" /\ Head(encoding) = "longitude"

\* As long as the two functions exclude one another: what has been read of the
\* position is what it still is, and all of it is of one fix.
ApartInv ==
  /\ encoding \in Remaining
  /\ ReadHalf => encoded["latitude"] = location["latitude"]
  /\ ~ReadHalf /\ mpc # "killed" => encoded["latitude"] = encoded["longitude"]

LEMMA ApartStarts == Init => ApartInv
BY DEF Init, ApartInv, ReadHalf, Remaining, Fields

LEMMA ApartEncoded ==
  ASSUME AllInv, FixInv, ApartInv, Apart, MainReadsField
  PROVE  ApartInv'
<1>. DEFINE g == Head(encoding)
<1>1. /\ mpc = "encode" /\ location' = location /\ encoding' = Tail(encoding)
      /\ encoded' = [encoded EXCEPT ![g] = location[g]]
      /\ mpc' = IF Len(encoding) = 1 THEN "send" ELSE "encode"
  BY DEF MainReadsField, others, aside, gpsAll, gpsVars
<1>2. encoding \in Seq(Fields) /\ encoding # <<>>
  BY <1>1 DEF AllInv, MainInv
<1>3. /\ g \in Fields /\ encoding' \in Remaining
      /\ g = "latitude" => encoding' # <<>> /\ Head(encoding') = "longitude"
      /\ g # "latitude" => encoding' = <<>> \/ Head(encoding') # "longitude"
  BY <1>1, <1>2, RemainingTail DEF ApartInv
<1>4. mpc' = "encode" <=> encoding' # <<>>
  BY <1>1, <1>2, FirstAndRest
<1>5. location["latitude"] = location["longitude"]
  BY <1>1 DEF Apart, FixInv, Half
<1>6. /\ encoded'["latitude"] = IF g = "latitude" THEN location[g] ELSE encoded["latitude"]
      /\ encoded'["longitude"] = IF g = "longitude" THEN location[g] ELSE encoded["longitude"]
  BY <1>1, FixTypes DEF Fields
<1>7. ReadHalf <=> g = "longitude"
  BY <1>1 DEF ReadHalf
<1>8. ReadHalf' <=> g = "latitude"
  BY <1>3, <1>4 DEF ReadHalf
<1>. HIDE DEF g
<1>. QED  BY <1>1, <1>3, <1>5, <1>6, <1>7, <1>8 DEF ApartInv

LEMMA ApartStays ==
  ASSUME ApartInv, UNCHANGED <<encoding, encoded>>, mpc # "killed" \/ mpc' = "killed",
         \/ UNCHANGED <<mpc, location>> \/ (mpc # "encode" /\ mpc' # "encode") \/ mpc' = "killed"
         \/ mpc # "encode" /\ mpc' = mpc
  PROVE  ApartInv'
BY DEF ApartInv, ReadHalf

LEMMA ApartKeeps ==
  ASSUME AllInv, FixInv, ApartInv, Apart, [Next]_vars
  PROVE  ApartInv'
<1>1. CASE MainReadsField
  BY <1>1, ApartEncoded
<1>2. CASE MainEncodes
  <2>1. /\ mpc = "message" /\ encoded' = encoded
        /\ \/ mpc' = "encode" /\ encoding' = LocationOrder
           \/ mpc' = "send" /\ encoding' = encoding
    BY <1>2 DEF MainEncodes
  <2>2. LocationOrder \in Remaining /\ Head(LocationOrder) # "longitude"
    BY DEF Remaining, LocationOrder
  <2>. QED  BY <2>1, <2>2 DEF ApartInv, ReadHalf
<1>3. CASE MainStep /\ ~MainReadsField /\ ~MainEncodes
  <2>1. UNCHANGED <<encoding, encoded>>
    BY <1>3 DEF MainStep, MainStarts, MainConnected, MainSetsUp, MainTakesSignals, MainOpensGps,
       MainFindsNoGps, MainBegins, MainStops, MainGives, MainSets, MainIsSet, MainUpdates, MainIsUpdated,
       MainCrashes, MainAborts, MainCleansUp, MainQuits, MainHasQuit, MainJoinsAp, MainJoinsGps,
       MainJoinsNoThread, AfterBeacon, Goto, Give
  <2>2. mpc # "killed" /\ mpc # "encode" /\ mpc' # "encode"
    <3>1. CASE MainGives \/ MainIsUpdated
      BY <3>1, OnwardNext, OnwardFacts DEF MainGives, MainIsUpdated, Goto, Give
    <3>2. CASE ~(MainGives \/ MainIsUpdated)
      BY <1>3, <3>2 DEF MainStep, MainStarts, MainConnected, MainSetsUp, MainTakesSignals, MainOpensGps,
         MainFindsNoGps, MainBegins, MainStops, MainSets, MainIsSet, MainUpdates, MainCrashes, MainAborts,
         MainCleansUp, MainQuits, MainHasQuit, MainJoinsAp, MainJoinsGps, MainJoinsNoThread, AfterBeacon,
         Goto, Give
    <3>. QED  BY <3>1, <3>2
  <2>. QED  BY <2>1, <2>2, ApartStays
<1>4. CASE ~Ended /\ GpsRuns
  <2>1. UNCHANGED <<encoding, encoded, mpc>> /\ mpc # "killed"
    BY <1>4 DEF GpsRuns, mainVars, Ended
  <2>2. mpc = "encode" => ~GpsAssigns
    BY DEF Apart, GpsAssigns
  <2>3. location' = location \/ GpsAssigns
    BY <1>4 DEF GpsRuns, GpsStep, GpsStops, GpsWaits, GpsNotReady, GpsReady, GpsReadFails, GpsReads,
       GpsProcessed
  <2>. QED  BY <2>1, <2>2, <2>3, ApartStays
<1>5. CASE \/ ~Ended /\ (ApStep \/ Signal)
           \/ UNCHANGED vars
  <2>1. UNCHANGED <<encoding, encoded, location>> /\ mpc' \in {mpc, "killed"}
    BY <1>5, ApLeavesMain DEF Signal, Goto, gpsAll, gpsVars, mainVars, vars
  <2>. QED  BY <2>1 DEF ApartInv, ReadHalf
<1>. QED  BY <1>1, <1>2, <1>3, <1>4, <1>5 DEF Next

\* With encodeLocationMessage and process_gps_data kept apart, as a lock around
\* each would, every location message is of one fix; nothing else is needed.
THEOREM ALockSuffices == Spec /\ []Apart => []EncodedLocationIsOneFix
<1>1. Init => FixInv
  BY AllStarts, FixStarts
<1>2. AllInv /\ FixInv /\ [Next]_vars => FixInv'
  BY FixKeeps
<1>3. AllInv /\ FixInv /\ ApartInv /\ Apart /\ [Next]_vars => ApartInv'
  BY ApartKeeps
<1>4. ApartInv => EncodedLocationIsOneFix
  BY DEF ApartInv, ReadHalf, EncodedLocationIsOneFix
<1>. QED  BY AllStarts, AllKeeps, ApartStarts, <1>1, <1>2, <1>3, <1>4, PTL DEF Spec
=============================================================================
