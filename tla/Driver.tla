-------------------------------- MODULE Driver -------------------------------
(***************************************************************************)
(* The way kernel threads share a device that answers with an interrupt:   *)
(* take a lock, start the device, wait on a semaphore for the interrupt,   *)
(* free the lock.  It is written out in synch_disk.cc (ReadSector,         *)
(* WriteSector), synch_console.cc (WriteCharToConsol) and post.cc (Send).  *)
(* The lock and the semaphore are those of modules Mutex and               *)
(* CountingSemaphore, which lock.cc and semaphore.cc implement.            *)
(***************************************************************************)
EXTENDS Naturals, FiniteSets

CONSTANTS Threads, lock, semaphore, None

ASSUME DriverConstants == lock # None /\ semaphore # None /\ None \notin Threads

VARIABLES
  holder, acquiring,    \* the lock (module Mutex)
  value, blocked,       \* the semaphore (module CountingSemaphore)
  active,        \* the device is at work
  pc             \* pc[t]: where t is

Lk == INSTANCE Mutex WITH Locks <- {lock}, waiting <- acquiring

Sem == INSTANCE CountingSemaphore
         WITH Semaphores <- {semaphore}, InitialValue <- [s \in {semaphore} |-> 0],
              MaxValue <- Cardinality(Threads) + 1, waiting <- blocked

lockVars == <<holder, acquiring>>
semVars == <<value, blocked>>
vars == <<lockVars, semVars, active, pc>>

Init ==
  /\ Lk!Init
  /\ Sem!Init
  /\ active = FALSE
  /\ pc = [t \in Threads |-> "idle"]

At(t, from) == pc[t] = from /\ acquiring[t] = None /\ blocked[t] = None

Goto(t, to) == pc' = [pc EXCEPT ![t] = to]

(* The operation is called: lock->Acquire(). *)
Call(t) ==
  /\ At(t, "idle")
  /\ Lk!Take(t, lock) \/ Lk!Block(t, lock)
  /\ Goto(t, "acquired")
  /\ UNCHANGED <<semVars, active>>

Grant(t) ==
  /\ Lk!Grant(t, lock)
  /\ UNCHANGED <<semVars, active, pc>>

(* The device is asked to work. *)
Start(t) ==
  /\ At(t, "acquired")
  /\ active' = TRUE
  /\ Goto(t, "started")
  /\ UNCHANGED <<lockVars, semVars>>

(* semaphore->P(). *)
Await(t) ==
  /\ At(t, "started")
  /\ Sem!Take(t, semaphore) \/ Sem!Block(t, semaphore)
  /\ Goto(t, "done")
  /\ UNCHANGED <<lockVars, active>>

Resume(t) ==
  /\ Sem!Unblock(t, semaphore)
  /\ UNCHANGED <<lockVars, active, pc>>

(* lock->Release(), and the operation returns. *)
Return(t) ==
  /\ At(t, "done")
  /\ Lk!Release(t, lock)
  /\ Goto(t, "idle")
  /\ UNCHANGED <<semVars, active>>

(* The interrupt: the device stops and its handler calls semaphore->V(). *)
Interrupt ==
  /\ active
  /\ active' = FALSE
  /\ Sem!V(semaphore)
  /\ UNCHANGED <<lockVars, pc>>
=============================================================================
