----------------------------- MODULE Lifecycle -----------------------------
(***************************************************************************)
(* What transmit.c promises of its two threads: they are created while the *)
(* program starts, end only when they have been told to, are told before   *)
(* they are waited for, and are gone when the program exits.               *)
(*                                                                         *)
(* Nothing is said here of messages, transports, positions or handlers.    *)
(* Transmit implements this specification.                                 *)
(***************************************************************************)

VARIABLES
  stage,   \* "starting", "transmitting", "stopping", "over"; "cut": ended by force
  thread,  \* of each thread: "none", "live", "gone"
  told,    \* the threads told to end
  awaited  \* the threads that pthread_join waits for, at most one

vars == <<stage, thread, told, awaited>>

Threads == {"ap", "gps"}
Running == stage \notin {"over", "cut"}

Init ==
  /\ stage = "starting"
  /\ thread = [t \in Threads |-> "none"]
  /\ told = {} /\ awaited = {}

\* pthread_create
Created(t) == thread[t] = "none" /\ thread' = [thread EXCEPT ![t] = "live"]

Create(t) ==
  /\ stage = "starting" /\ Created(t)
  /\ UNCHANGED <<stage, told, awaited>>

\* Before the loop of messages main waits for a thread that may fail to start.
Fail(t) ==
  /\ stage = "starting" /\ thread[t] = "live"
  /\ thread' = [thread EXCEPT ![t] = "gone"]
  /\ UNCHANGED <<stage, told, awaited>>

\* The gps thread is created as the loop of messages begins, or not at all.
Begin ==
  /\ stage = "starting" /\ stage' = "transmitting"
  /\ \A t \in Threads : thread[t] = "gone" => t \in told
  /\ UNCHANGED thread \/ Created("gps")
  /\ UNCHANGED <<told, awaited>>

\* kill_program, or the end of the event loop: by a signal or by cleanup.
Tell(t) ==
  /\ Running /\ told' = told \cup {t}
  /\ UNCHANGED <<stage, thread, awaited>>

\* A thread that gives up has told itself.
End(t) ==
  /\ Running /\ thread[t] = "live"
  /\ thread' = [thread EXCEPT ![t] = "gone"]
  /\ told' = told \cup {t}
  /\ UNCHANGED <<stage, awaited>>

\* The messages end with the loop, which goes on for as long as the gps thread
\* is to, or with the lack of a gpsd.
Stop ==
  /\ stage \in {"starting", "transmitting"} /\ stage' = "stopping"
  /\ thread["gps"] = "none" \/ "gps" \in told
  /\ UNCHANGED <<thread, told, awaited>>

\* pthread_join, of one thread after the other.
Await(t) ==
  /\ stage = "stopping"
  /\ \A u \in awaited : thread[u] # "live"
  /\ awaited' = {t}
  /\ told' = told \cup {t} \/ (thread[t] = "none" /\ UNCHANGED told)
  /\ UNCHANGED <<stage, thread>>

Exit ==
  /\ stage = "stopping" /\ stage' = "over"
  /\ \A t \in Threads : thread[t] # "live"
  /\ awaited' = {}
  /\ UNCHANGED <<thread, told>>

\* A signal, a failing call or a crash ends the process with its threads.
Cut ==
  /\ Running /\ stage' = "cut"
  /\ awaited' = {}
  /\ UNCHANGED <<thread, told>>

Next ==
  \/ \E t \in Threads : Create(t) \/ Fail(t) \/ Tell(t) \/ End(t) \/ Await(t)
  \/ Begin \/ Stop \/ Exit \/ Cut

Spec == Init /\ [][Next]_vars
=============================================================================
