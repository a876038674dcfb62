-------------------------------- MODULE Threading --------------------------------
(***************************************************************************)
(* start_thread_obtaining_mutex and threadfunc (examples/threading): threads  *)
(* that sleep, take a mutex of the caller, hold it, set their success flag     *)
(* and end.  The calling program starts and joins them, and may hold the mutex  *)
(* itself.  Durations are left to the scheduler.                                *)
(***************************************************************************)
EXTENDS Integers, FiniteSets

CONSTANTS
  Thread,      \* the threads a program asks for
  Program,     \* the caller, as owner of the mutex
  Nobody,      \* the owner of a free mutex
  MaxLocks     \* bound: times the program takes the mutex

ASSUME ThreadingAssumption ==
  /\ Program \notin Thread /\ Nobody \notin Thread \cup {Program}
  /\ MaxLocks \in Nat

VARIABLES
  mutex,       \* its owner
  locks,       \* times the program took it
  thread       \* thread -> its thread_data and where it is

thrVars == <<mutex, locks, thread>>

\* data: the thread_data block is "none", "live" or "freed"; told: what the
\* caller was told.
NoThread == [at |-> "none", data |-> "none", told |-> "nothing", success |-> FALSE]

Is(t, where) == thread[t].at = where

\* The call, up to the check of malloc.
Start(t) ==
  /\ Is(t, "none")
  /\ \/ thread' = [thread EXCEPT ![t] = [NoThread EXCEPT !.at = "starting", !.data = "live"]]
     \/ thread' = [thread EXCEPT ![t] = [NoThread EXCEPT !.at = "refused", !.told = "false"]]
  /\ UNCHANGED <<mutex, locks>>

\* A failed pthread_create leaves the block behind.
Create(t) ==
  /\ Is(t, "starting")
  /\ \/ thread' = [thread EXCEPT ![t].at = "sleeping", ![t].told = "true"]
     \/ thread' = [thread EXCEPT ![t].at = "refused", ![t].told = "false"]
  /\ UNCHANGED <<mutex, locks>>

\* usleep is over; of the durations, whose microseconds are computed as an int,
\* only their end is left.
Wake(t) ==
  /\ Is(t, "sleeping")
  /\ thread' = [thread EXCEPT ![t].at = "locking"]
  /\ UNCHANGED <<mutex, locks>>

Lock(t) ==
  /\ Is(t, "locking") /\ mutex = Nobody
  /\ mutex' = t
  /\ thread' = [thread EXCEPT ![t].at = "holding"]
  /\ UNCHANGED locks

\* A thread that ends with the mutex still its own.
Bug_Released(t) == mutex
Released(t) == Nobody

\* The end of the second sleep, the flag, the unlock.
Unlock(t) ==
  /\ Is(t, "holding")
  /\ thread' = [thread EXCEPT ![t].at = "ended", ![t].success = TRUE]
  /\ mutex' = Released(t)
  /\ UNCHANGED locks

\* The caller joins the thread, reads the flag and frees the block returned.
Join(t) ==
  /\ Is(t, "ended")
  /\ thread' = [thread EXCEPT ![t].at = "joined", ![t].data = "freed"]
  /\ UNCHANGED <<mutex, locks>>

ProgramLocks ==
  /\ mutex = Nobody /\ locks < MaxLocks
  /\ mutex' = Program /\ locks' = locks + 1
  /\ UNCHANGED thread

ProgramUnlocks ==
  /\ mutex = Program
  /\ mutex' = Nobody
  /\ UNCHANGED <<locks, thread>>

ThrInit == mutex = Nobody /\ locks = 0 /\ thread = [t \in Thread |-> NoThread]

Step(t) == Create(t) \/ Wake(t) \/ Lock(t) \/ Unlock(t)

ThrNext ==
  \/ \E t \in Thread : Start(t) \/ Step(t) \/ Join(t)
  \/ ProgramLocks \/ ProgramUnlocks

ThrSpec == ThrInit /\ [][ThrNext]_thrVars

\* Threads run, and a mutex that stays free is taken; the program unlocks what it
\* locked.  No order among the waiting threads is assumed.
ThrFairness ==
  /\ \A t \in Thread : WF_thrVars(Step(t))
  /\ WF_thrVars(ProgramUnlocks)
-----------------------------------------------------------------------------
(* Properties *)

\* Whoever is told true gets a thread that takes the mutex, sets its flag and
\* lets the mutex go, in whatever order threads and program get hold of it.
TrueMeansSuccess ==
  \A t \in Thread : thread[t].told = "true" ~> (thread[t].success /\ mutex # t)
=============================================================================
