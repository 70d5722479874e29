--------------------------- MODULE BeaconSession ---------------------------
(***************************************************************************)
(* What the Wi-Fi Beacon transport promises to transmit.c and              *)
(* wifi_beacon.c: one session of commands, given one after the other, each *)
(* followed by a sem_wait, and a quit.                                     *)
(*                                                                         *)
(* The client is the main thread and the thread the one that runs          *)
(* ap_interface_init.  Nothing is said here of hostapd, of the connection  *)
(* or of the event loop: a command is accepted, and then there is a post   *)
(* to wait for, or it is dropped, and then there need not be one.          *)
(* BeaconLink implements this specification.                               *)
(***************************************************************************)
EXTENDS Naturals

CONSTANTS
  SemValueMax,  \* the largest value of a semaphore; sem_post fails beyond it
  Issued        \* commands the client gives before it quits

VARIABLES
  semaphore,
  client,   \* "start": waits for the first post; "idle", "busy", "wait", "join", "done", "crashed"
  before,   \* commands the client has still to finish before it quits
  dropped,  \* the command it waits for was dropped
  thread,   \* "boot": has never been connected; "run"; "exited"
  told      \* the thread has been told to end

clientVars == <<client, before, dropped>>
threadVars == <<thread, told>>
vars       == <<semaphore, clientVars, threadVars>>

Init ==
  /\ semaphore = 0
  /\ client = "start" /\ before = Issued /\ dropped = FALSE
  /\ thread = "boot" /\ told = FALSE

Post == semaphore' = IF semaphore < SemValueMax THEN semaphore + 1 ELSE semaphore
Wait == semaphore > 0 /\ semaphore' = semaphore - 1

----------------------------------------------------------------------------
(* The client *)

Start ==
  /\ client = "start" /\ Wait
  /\ client' = "idle"
  /\ UNCHANGED <<before, dropped, threadVars>>

Call ==
  /\ client = "idle"
  /\ client' = "busy"
  /\ UNCHANGED <<semaphore, before, dropped, threadVars>>

\* Sent or not, answered or not: the command ends with a post.
Accept ==
  /\ client = "busy" /\ before > 0
  /\ Post
  /\ client' = "wait"
  /\ UNCHANGED <<before, dropped, threadVars>>

\* "Not connected to hostapd - command dropped."
Drop ==
  /\ client = "busy" /\ before > 0
  /\ client' = "wait" /\ dropped' = TRUE
  /\ UNCHANGED <<semaphore, before, threadVars>>

\* The connection was replaced under the command.
Crash ==
  /\ client = "busy" /\ before > 0
  /\ client' = "crashed"
  /\ UNCHANGED <<semaphore, before, dropped, threadVars>>

\* The quit is never dropped.
Quit ==
  /\ client = "busy" /\ before = 0
  /\ Post
  /\ client' = "wait" /\ told' = TRUE
  /\ UNCHANGED <<before, dropped, thread>>

Resume ==
  /\ client = "wait" /\ Wait
  /\ dropped' = FALSE
  /\ IF before = 0 THEN client' = "join" /\ UNCHANGED before
                   ELSE client' = "idle" /\ before' = before - 1
  /\ UNCHANGED threadVars

Join ==
  /\ client = "join" /\ thread = "exited"
  /\ client' = "done"
  /\ UNCHANGED <<semaphore, before, dropped, threadVars>>

----------------------------------------------------------------------------
(* The thread *)

Connect ==
  /\ thread = "boot" /\ Post
  /\ thread' = "run"
  /\ UNCHANGED <<clientVars, told>>

\* A failing start: no post, now or later.
Fail ==
  /\ thread = "boot"
  /\ thread' = "exited"
  /\ UNCHANGED <<semaphore, clientVars, told>>

\* A ping posts, though nobody waits for it.
Ping ==
  /\ thread = "run" /\ Post
  /\ UNCHANGED <<clientVars, threadVars>>

\* SIGINT or SIGTERM
Interrupt ==
  /\ thread = "run"
  /\ told' = TRUE
  /\ UNCHANGED <<semaphore, clientVars, thread>>

Exit ==
  /\ thread = "run" /\ told
  /\ thread' = "exited"
  /\ UNCHANGED <<semaphore, clientVars, told>>

Next ==
  \/ Start \/ Call \/ Accept \/ Drop \/ Crash \/ Quit \/ Resume \/ Join
  \/ Connect \/ Fail \/ Ping \/ Interrupt \/ Exit

Spec == Init /\ [][Next]_vars
============================================================================
