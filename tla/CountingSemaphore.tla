-------------------------- MODULE CountingSemaphore --------------------------
(***************************************************************************)
(* What a semaphore promises (threads/semaphore.hh): `P` waits until the   *)
(* value is positive and then decrements it, `V` increments it and awakens *)
(* a waiting thread if there is one.  There are no queues and no wake-ups  *)
(* here: a waiting thread takes a unit as soon as one is there.            *)
(***************************************************************************)
EXTENDS Naturals

CONSTANTS
  Threads,       \* the kernel threads
  Semaphores,    \* the semaphores they share
  InitialValue,  \* the value each semaphore is constructed with
  MaxValue,      \* the greatest value of the counter
  None           \* the null pointer

VARIABLES
  value,         \* value[s] units are available
  waiting        \* waiting[t] is the semaphore t waits for in P, or None

vars == <<value, waiting>>

Init ==
  /\ value = InitialValue
  /\ waiting = [t \in Threads |-> None]

(* P finds a unit. *)
Take(t, s) ==
  /\ waiting[t] = None
  /\ value[s] > 0
  /\ value' = [value EXCEPT ![s] = @ - 1]
  /\ UNCHANGED waiting

(* P finds none and waits. *)
Block(t, s) ==
  /\ waiting[t] = None
  /\ value[s] = 0
  /\ waiting' = [waiting EXCEPT ![t] = s]
  /\ UNCHANGED value

(* A waiting thread gets its unit and returns from P. *)
Unblock(t, s) ==
  /\ waiting[t] = s
  /\ value[s] > 0
  /\ value' = [value EXCEPT ![s] = @ - 1]
  /\ waiting' = [waiting EXCEPT ![t] = None]

V(s) ==
  /\ value[s] < MaxValue
  /\ value' = [value EXCEPT ![s] = @ + 1]
  /\ UNCHANGED waiting

Next ==
  \E s \in Semaphores :
    \/ \E t \in Threads : Take(t, s) \/ Block(t, s) \/ Unblock(t, s)
    \/ V(s)

(* A unit does not lie unused for ever while somebody waits for it. *)
Fairness == \A s \in Semaphores : WF_vars(\E t \in Threads : Unblock(t, s))

Safety == Init /\ [][Next]_vars

Spec == Safety /\ Fairness
=============================================================================
