------------------------------ MODULE Semaphore ------------------------------
(***************************************************************************)
(* threads/semaphore.cc: semaphores with a queue of sleeping threads.      *)
(*                                                                         *)
(* Both operations run with interrupts disabled, so a thread loses the CPU *)
(* only inside Thread::Sleep (called by P) or when the operation restores  *)
(* the interrupt level at its end.  A thread woken by V is only *ready*:   *)
(* by the time it runs again another thread may have taken the unit, and   *)
(* the `while` of P sends it back to sleep.  Which ready thread runs next  *)
(* is left open here (module Scheduler has the choice the code makes).     *)
(***************************************************************************)
EXTENDS Naturals, Sequences, FiniteSets, Functions

CONSTANTS
  Threads,       \* the kernel threads
  Semaphores,    \* the semaphores they share
  InitialValue,  \* `initialValue` of each semaphore
  MaxValue,      \* greatest value of the counter (the code's int has INT_MAX)
  None           \* the null pointer

ASSUME ThreadsFinite == IsFiniteSet(Threads)
ASSUME ConstantTypes ==
  /\ MaxValue \in Nat
  /\ InitialValue \in [Semaphores -> Nat]
  /\ None \notin Semaphores

VARIABLES
  value,         \* value[s]: `value` of semaphore s
  queue,         \* queue[s]: `queue` of semaphore s, the sleeping threads
  blockedOn,     \* blockedOn[t]: the semaphore in whose P thread t is, or None
  woken          \* threads V made ready that have not run yet

semVars == <<value, queue, blockedOn, woken>>

SemInit ==
  /\ value = InitialValue
  /\ queue = [s \in Semaphores |-> <<>>]
  /\ blockedOn = [t \in Threads |-> None]
  /\ woken = {}

-----------------------------------------------------------------------------

(* One evaluation of P's `while` condition: a unit is consumed and P       *)
(* returns, or the thread queues up and sleeps.                            *)
TryP(t, s) ==
  \/ /\ value[s] > 0
     /\ value' = [value EXCEPT ![s] = @ - 1]
     /\ blockedOn' = [blockedOn EXCEPT ![t] = None]
     /\ UNCHANGED queue
  \/ /\ value[s] = 0
     /\ queue' = [queue EXCEPT ![s] = Append(@, t)]
     /\ blockedOn' = [blockedOn EXCEPT ![t] = s]
     /\ UNCHANGED value

(* Semaphore::P called by a running thread. *)
P(t, s) ==
  /\ blockedOn[t] = None
  /\ TryP(t, s)
  /\ UNCHANGED woken

(* Mutant: P tests the value with `if` instead of `while`. *)
ResumeP_If(t, s) ==
  /\ t \in woken
  /\ blockedOn[t] = s
  /\ value' = [value EXCEPT ![s] = @ - 1]
  /\ blockedOn' = [blockedOn EXCEPT ![t] = None]
  /\ woken' = woken \ {t}
  /\ UNCHANGED queue

(* Thread::Sleep returns inside P: the thread looks at the value again. *)
ResumeP(t, s) ==
  /\ t \in woken
  /\ blockedOn[t] = s
  /\ TryP(t, s)
  /\ woken' = woken \ {t}

(* Mutant: V wakes a thread only when the value was 0. *)
V_WakeOnZero(s) ==
  /\ value[s] < MaxValue
  /\ value' = [value EXCEPT ![s] = @ + 1]
  /\ IF queue[s] = <<>> \/ value[s] > 0
     THEN UNCHANGED <<queue, woken>>
     ELSE /\ queue' = [queue EXCEPT ![s] = Tail(@)]
          /\ woken' = woken \cup {Head(queue[s])}
  /\ UNCHANGED blockedOn

(* Semaphore::V, from a running thread or from an interrupt handler. *)
V(s) ==
  /\ value[s] < MaxValue
  /\ value' = [value EXCEPT ![s] = @ + 1]
  /\ IF queue[s] = <<>>
     THEN UNCHANGED <<queue, woken>>
     ELSE /\ queue' = [queue EXCEPT ![s] = Tail(@)]
          /\ woken' = woken \cup {Head(queue[s])}
  /\ UNCHANGED blockedOn

SemNext ==
  \E s \in Semaphores :
    \/ \E t \in Threads : P(t, s) \/ ResumeP(t, s)
    \/ V(s)

(* A thread on the ready list eventually gets the CPU. *)
SemFairness ==
  \A t \in Threads : WF_semVars(\E s \in Semaphores : ResumeP(t, s))

SemSafety == SemInit /\ [][SemNext]_semVars

SemSpec == SemSafety /\ SemFairness

-----------------------------------------------------------------------------

(* The values the variables of the semaphores take: in particular          *)
(* semaphore.hh's "it is always >= 0".                                     *)
SemTypeOK ==
  /\ value \in [Semaphores -> Nat]
  /\ queue \in [Semaphores -> Seq(Threads)]
  /\ blockedOn \in [Threads -> Semaphores \cup {None}]
  /\ woken \in SUBSET Threads

(* Threads woken from the queue of s that have not looked at s again. *)
WokenOn(s) == {t \in woken : blockedOn[t] = s}

(* The queue of a semaphore holds exactly the threads asleep in its P,     *)
(* each once: V makes a thread ready once per sleep, never a thread that   *)
(* is running or that sleeps on another semaphore.                         *)
QueueHoldsSleepers ==
  /\ \A t \in woken : blockedOn[t] # None
  /\ \A s \in Semaphores :
       /\ IsInjective(queue[s])
       /\ Range(queue[s]) = {t \in Threads : blockedOn[t] = s /\ t \notin woken}

(* No wake-up is lost: while threads sleep in P, every available unit has  *)
(* a woken thread that is about to look for it.  It is what makes V's      *)
(* pop-one-then-increment and P's re-check of the value sufficient.        *)
NoLostWakeup ==
  \A s \in Semaphores :
    queue[s] # <<>> => value[s] <= Cardinality(WokenOn(s))

(* P and V implement the promise of semaphore.hh, including that a unit    *)
(* does not stay unused while somebody waits for it.                       *)
Counting == INSTANCE CountingSemaphore WITH waiting <- blockedOn

ImplementsCountingSemaphore == Counting!Spec
=============================================================================
