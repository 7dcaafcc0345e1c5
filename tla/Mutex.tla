-------------------------------- MODULE Mutex --------------------------------
(***************************************************************************)
(* What a lock promises (threads/lock.hh): a lock is free or busy,         *)
(* `Acquire` waits until it is free and marks it as busy, `Release` marks  *)
(* it as free, and nobody but the thread that holds the lock can free it.  *)
(***************************************************************************)
CONSTANTS Threads, Locks, None

VARIABLES
  holder,   \* holder[l]: the thread that holds lock l, or None
  waiting   \* waiting[t]: the lock t waits for in Acquire, or None

vars == <<holder, waiting>>

Init ==
  /\ holder = [l \in Locks |-> None]
  /\ waiting = [t \in Threads |-> None]

(* Acquire finds the lock free. *)
Take(t, l) ==
  /\ waiting[t] = None
  /\ holder[l] = None
  /\ holder' = [holder EXCEPT ![l] = t]
  /\ UNCHANGED waiting

(* Acquire finds it busy. *)
Block(t, l) ==
  /\ waiting[t] = None
  /\ holder[l] \notin {None, t}
  /\ waiting' = [waiting EXCEPT ![t] = l]
  /\ UNCHANGED holder

(* A waiting thread gets the lock. *)
Grant(t, l) ==
  /\ waiting[t] = l
  /\ holder[l] = None
  /\ holder' = [holder EXCEPT ![l] = t]
  /\ waiting' = [waiting EXCEPT ![t] = None]

Release(t, l) ==
  /\ waiting[t] = None
  /\ holder[l] = t
  /\ holder' = [holder EXCEPT ![l] = None]
  /\ UNCHANGED waiting

Next ==
  \E t \in Threads, l \in Locks :
    Take(t, l) \/ Block(t, l) \/ Grant(t, l) \/ Release(t, l)

(* A lock does not stay free for ever while somebody waits for it. *)
Fairness == \A l \in Locks : WF_vars(\E t \in Threads : Grant(t, l))

Safety == Init /\ [][Next]_vars

Spec == Safety /\ Fairness
=============================================================================
