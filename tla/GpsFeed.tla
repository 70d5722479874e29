------------------------------ MODULE GpsFeed ------------------------------
(***************************************************************************)
(* The thread that follows gpsd: gps_loop (transmit.c) and                 *)
(* process_gps_data (gpsmod.c).  It shares kill_program and the fields of  *)
(* uasData.Location with the main thread, without a lock.  gpsd and its    *)
(* library (gps_waiting, gps_read) are external.                           *)
(*                                                                         *)
(* A value of a field is the number of the fix it comes from.              *)
(***************************************************************************)
EXTENDS Naturals, Sequences

CONSTANTS
  MaxWaitRetries,  \* MAX_GPS_WAIT_RETRIES, 60
  MaxReadRetries,  \* MAX_GPS_READ_RETRIES, 5
  MaxFixes         \* bound: different fixes in a behaviour

ASSUME GpsAssumption ==
  /\ MaxWaitRetries \in Nat
  /\ MaxReadRetries \in Nat
  /\ MaxFixes \in Nat

VARIABLES
  kill_program,
  gpc,           \* "none": not created; "check", "wait", "read", "process", "exited"
  retries,
  read_retries,
  exit_status,
  fix,           \* the fixes gpsd has produced
  writing,       \* fields process_gps_data has still to assign
  location,      \* uasData.Location
  silent,        \* history: polls without data since there was some
  broken         \* history: reads that failed since one succeeded

gpsVars == <<gpc, retries, read_retries, exit_status, fix, writing, location, silent, broken>>

Fields == {"latitude", "longitude", "altitude", "height"}
Modes  == {"none", "2D", "3D"}

GpsTypeOK ==
  /\ kill_program \in BOOLEAN
  /\ gpc \in {"none", "check", "wait", "read", "process", "exited"}
  /\ retries \in 0..(MaxWaitRetries + 2)
  /\ read_retries \in 0..(MaxReadRetries + 2)
  /\ exit_status \in {0, 1}
  /\ fix \in 0..MaxFixes
  /\ writing \in Seq(Fields)
  /\ location \in [Fields -> 0..MaxFixes]
  /\ silent \in 0..(MaxWaitRetries + 2)
  /\ broken \in 0..(MaxReadRetries + 2)

GpsInit ==
  /\ kill_program = FALSE
  /\ gpc = "none"
  /\ retries = 0 /\ read_retries = 0
  /\ exit_status = 0
  /\ fix = 0
  /\ writing = <<>>
  /\ location = [f \in Fields |-> 0]
  /\ silent = 0 /\ broken = 0

\* The assignments of process_gps_data, in their order, for a fix of the
\* given mode whose altitude (altMSL or altitude) is finite or not.
Assignments(mode, finite) ==
  (IF mode \in {"2D", "3D"} THEN <<"latitude", "longitude">> ELSE <<>>)
  \o (IF mode = "3D" /\ finite THEN <<"altitude", "height">> ELSE <<>>)

----------------------------------------------------------------------------
\* pthread_create in main.
GpsCreate ==
  /\ gpc' = "check"
  /\ UNCHANGED <<kill_program, retries, read_retries, exit_status, fix, writing, location, silent, broken>>

\* The head of the loop.
GpsStops ==
  /\ gpc = "check" /\ kill_program
  /\ gpc' = "exited" /\ exit_status' = 0
  /\ UNCHANGED <<kill_program, retries, read_retries, fix, writing, location, silent, broken>>

GpsWaits ==
  /\ gpc = "check" /\ ~kill_program
  /\ gpc' = "wait"
  /\ UNCHANGED <<kill_program, retries, read_retries, exit_status, fix, writing, location, silent, broken>>

\* Variant: the thread ends alone.
RetryAlone(count, limit) ==
  IF count > limit
  THEN UNCHANGED kill_program /\ gpc' = "exited" /\ exit_status' = 1
  ELSE gpc' = "check" /\ UNCHANGED <<kill_program, exit_status>>

\* One of the retries is used, or there is none left and the program is to end.
Retry(count, limit) ==
  IF count > limit
  THEN kill_program' = TRUE /\ gpc' = "exited" /\ exit_status' = 1
  ELSE gpc' = "check" /\ UNCHANGED <<kill_program, exit_status>>

\* "Socket not ready, retrying..."
GpsNotReady ==
  /\ gpc = "wait"
  /\ retries' = retries + 1 /\ silent' = silent + 1
  /\ Retry(retries, MaxWaitRetries)
  /\ UNCHANGED <<read_retries, fix, writing, location, broken>>

\* Variant: the retries are not started afresh.
GpsReadyKeeps ==
  /\ gpc = "wait"
  /\ silent' = 0
  /\ gpc' = "read"
  /\ UNCHANGED <<kill_program, retries, read_retries, exit_status, fix, writing, location, broken>>

GpsReady ==
  /\ gpc = "wait"
  /\ retries' = 0 /\ silent' = 0
  /\ gpc' = "read"
  /\ UNCHANGED <<kill_program, read_retries, exit_status, fix, writing, location, broken>>

\* "Failed to read from socket, retrying..."
GpsReadFails ==
  /\ gpc = "read"
  /\ read_retries' = read_retries + 1 /\ broken' = broken + 1
  /\ Retry(read_retries, MaxReadRetries)
  /\ UNCHANGED <<retries, fix, writing, location, silent>>

\* What was read is a new fix, or a report that leaves gpsdata.fix as it was.
GpsReads ==
  /\ gpc = "read"
  /\ read_retries' = 0 /\ broken' = 0
  /\ fix' \in {fix, fix + 1} \cap 0..MaxFixes
  /\ \E mode \in Modes, finite \in BOOLEAN : writing' = Assignments(mode, finite)
  /\ gpc' = "process"
  /\ UNCHANGED <<kill_program, retries, exit_status, location, silent>>

\* An assignment of process_gps_data.
GpsAssigns ==
  /\ gpc = "process" /\ writing # <<>>
  /\ location' = [location EXCEPT ![Head(writing)] = fix]
  /\ writing' = Tail(writing)
  /\ UNCHANGED <<kill_program, gpc, retries, read_retries, exit_status, fix, silent, broken>>

\* Variant: the loop ends in the middle of process_gps_data.
GpsProcessedAtOnce ==
  /\ gpc = "process" /\ (writing = <<>> \/ kill_program)
  /\ gpc' = "check"
  /\ UNCHANGED <<kill_program, retries, read_retries, exit_status, fix, writing, location, silent, broken>>

GpsProcessed ==
  /\ gpc = "process" /\ writing = <<>>
  /\ gpc' = "check"
  /\ UNCHANGED <<kill_program, retries, read_retries, exit_status, fix, writing, location, silent, broken>>

GpsStep ==
  \/ GpsStops \/ GpsWaits \/ GpsNotReady \/ GpsReady
  \/ GpsReadFails \/ GpsReads \/ GpsAssigns \/ GpsProcessed
============================================================================
