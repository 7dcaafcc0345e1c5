------------------------------ MODULE Condition ------------------------------
(***************************************************************************)
(* threads/condition.cc: condition variables made of a list of semaphores. *)
(*                                                                         *)
(* Each Wait makes a semaphore of value 0, `aDormir`, queues it, releases  *)
(* the lock, and sleeps in its P; Signal pops a semaphore and V's it.  The *)
(* CPU may be lost after the Release and before the P: the V of a Signal   *)
(* that comes in between is remembered by the semaphore.  A thread is in   *)
(* one Wait at a time, so aDormir[t] stands for the semaphore of the Wait  *)
(* it is in: a unit or a place in the list that outlived its Wait would    *)
(* show as a Wait that returns without a Signal, or a Signal that is lost. *)
(***************************************************************************)
EXTENDS Lock, Integers

CONSTANTS
  Conditions,    \* the condition variables
  LockOf,        \* LockOf[c]: `lock` of c
  aDormir        \* aDormir[t]: the semaphore of the Wait that t is in

ASSUME ConditionConstants ==
  /\ LockOf \in [Conditions -> Locks]
  /\ aDormir \in [Threads -> Semaphores \ Locks]
  /\ IsInjective(aDormir)
  /\ \A t \in Threads : InitialValue[aDormir[t]] = 0
  /\ None \notin Conditions

VARIABLES
  colaProcesosDormidos,  \* [c]: the queue of semaphores of c
  cantidadDormidos,      \* [c]: the count of sleepers of c
  waitingOn,             \* [t]: the condition in whose Wait t is, or None
  waitAt,                \* [t]: how far t is in Wait
  broadcasting           \* [t]: the condition in whose Broadcast t is, or None

condVars ==
  <<colaProcesosDormidos, cantidadDormidos, waitingOn, waitAt, broadcasting>>

CondInit ==
  /\ LockInit
  /\ colaProcesosDormidos = [c \in Conditions |-> <<>>]
  /\ cantidadDormidos = [c \in Conditions |-> 0]
  /\ waitingOn = [t \in Threads |-> None]
  /\ waitAt = [t \in Threads |-> "outside"]
  /\ broadcasting = [t \in Threads |-> None]

(* The thread executes code outside the operations of this module. *)
Outside(t) == Running(t) /\ waitingOn[t] = None /\ broadcasting[t] = None

-----------------------------------------------------------------------------

(* Mutant: Wait releases the lock before it queues its semaphore: a Signal *)
(* in between finds the list without it.                                   *)
Wait_ReleaseFirst(t, c) ==
  /\ Outside(t)
  /\ Release(t, LockOf[c])
  /\ waitingOn' = [waitingOn EXCEPT ![t] = c]
  /\ waitAt' = [waitAt EXCEPT ![t] = "released"]
  /\ UNCHANGED <<colaProcesosDormidos, cantidadDormidos, broadcasting>>

(* Condition::Wait: queue a new semaphore and release the lock. *)
Wait(t, c) ==
  /\ Outside(t)
  /\ colaProcesosDormidos' = [colaProcesosDormidos EXCEPT ![c] = Append(@, aDormir[t])]
  /\ Release(t, LockOf[c])
  /\ waitingOn' = [waitingOn EXCEPT ![t] = c]
  /\ waitAt' = [waitAt EXCEPT ![t] = "released"]
  /\ UNCHANGED <<cantidadDormidos, broadcasting>>

(* The thread counts itself and calls P on its semaphore. *)
GoToSleep(t, c) ==
  /\ waitingOn[t] = c
  /\ waitAt[t] = "released"
  /\ cantidadDormidos' = [cantidadDormidos EXCEPT ![c] = @ + 1]
  /\ P(t, aDormir[t])
  /\ waitAt' = [waitAt EXCEPT ![t] = "sleeping"]
  /\ UNCHANGED <<lockVars, colaProcesosDormidos, waitingOn, broadcasting>>

(* The thread runs again inside that P. *)
ResumeWait(t) ==
  /\ ResumeP(t, aDormir[t])
  /\ UNCHANGED <<lockVars, condVars>>

(* P has returned: Wait calls Acquire. *)
Reacquire(t, c) ==
  /\ waitingOn[t] = c
  /\ waitAt[t] = "sleeping"
  /\ Acquire(t, LockOf[c])
  /\ waitAt' = [waitAt EXCEPT ![t] = "acquiring"]
  /\ UNCHANGED <<colaProcesosDormidos, cantidadDormidos, waitingOn, broadcasting>>

(* The end of Acquire, and of the Wait that called it if one did. *)
EndAcquire(t, l) ==
  /\ SetLockOwner(t, l)
  /\ waitingOn' = [waitingOn EXCEPT ![t] = None]
  /\ waitAt' = [waitAt EXCEPT ![t] = "outside"]
  /\ UNCHANGED <<colaProcesosDormidos, cantidadDormidos, broadcasting>>

(* The body of Signal's `if`. *)
SignalOne(c) ==
  /\ colaProcesosDormidos[c] # <<>>
  /\ colaProcesosDormidos' = [colaProcesosDormidos EXCEPT ![c] = Tail(@)]
  /\ cantidadDormidos' = [cantidadDormidos EXCEPT ![c] = @ - 1]
  /\ V(Head(colaProcesosDormidos[c]))
  /\ UNCHANGED lockVars

(* Condition::Signal; with an empty list it changes nothing. *)
Signal(t, c) ==
  /\ Outside(t)
  /\ IsHeldBy(t, LockOf[c])
  /\ SignalOne(c)
  /\ UNCHANGED <<waitingOn, waitAt, broadcasting>>

(* Mutant: Broadcast frees the lock before it wakes anybody. *)
Broadcast_ReleaseFirst(t, c) ==
  /\ Outside(t)
  /\ Release(t, LockOf[c])
  /\ broadcasting' = [broadcasting EXCEPT ![t] = c]
  /\ UNCHANGED <<colaProcesosDormidos, cantidadDormidos, waitingOn, waitAt>>

(* Condition::Broadcast: its own assertion is commented out, the one of    *)
(* the Signals it calls applies.                                           *)
Broadcast(t, c) ==
  /\ Outside(t)
  /\ broadcasting' = [broadcasting EXCEPT ![t] = c]
  /\ UNCHANGED <<semVars, lockVars, colaProcesosDormidos, cantidadDormidos,
                 waitingOn, waitAt>>

(* One turn of Broadcast's loop, or its end.  The CPU may be lost at the   *)
(* end of each V.                                                          *)
BroadcastLoop(t, c) ==
  /\ broadcasting[t] = c
  /\ UNCHANGED <<waitingOn, waitAt>>
  /\ \/ /\ IsHeldBy(t, LockOf[c])
        /\ SignalOne(c)
        /\ UNCHANGED broadcasting
     \/ /\ colaProcesosDormidos[c] = <<>>
        /\ broadcasting' = [broadcasting EXCEPT ![t] = None]
        /\ UNCHANGED <<semVars, lockVars, colaProcesosDormidos, cantidadDormidos>>

-----------------------------------------------------------------------------

(* t is in a Wait on c and its semaphore is still in the list of c. *)
Queued(t, c) == aDormir[t] \in Range(colaProcesosDormidos[c])

CondTypeOK ==
  /\ LockTypeOK
  /\ colaProcesosDormidos \in [Conditions -> Seq({aDormir[t] : t \in Threads})]
  /\ cantidadDormidos \in [Conditions -> Int]
  /\ waitingOn \in [Threads -> Conditions \cup {None}]
  /\ waitAt \in [Threads -> {"outside", "released", "sleeping", "acquiring"}]
  /\ broadcasting \in [Threads -> Conditions \cup {None}]

(* Broadcast reaches every thread that is asleep when it is called: its    *)
(* loop gives up the CPU after every V, and still nobody gets the lock, so *)
(* the list only shrinks and the assertion of its Signals does not fail.   *)
BroadcastAwakensAll ==
  \A t, u \in Threads, c \in Conditions :
    (broadcasting[t] = c /\ Queued(u, c)) ~> ~Queued(u, c)
=============================================================================
