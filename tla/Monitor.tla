------------------------------- MODULE Monitor -------------------------------
(***************************************************************************)
(* What locks and condition variables promise together                     *)
(* (threads/condition.hh, "Mesa" style).  `Wait` frees the lock and goes   *)
(* to sleep in one step.  `Signal` awakens the thread that has slept       *)
(* longest, if there is one; it then competes for the lock like any other  *)
(* thread.  `Broadcast` is as many Signals as there are sleepers.          *)
(***************************************************************************)
EXTENDS Naturals, Sequences, Functions

CONSTANTS
  Threads,       \* the kernel threads
  Locks,         \* the locks
  Conditions,    \* the condition variables
  LockOf,        \* LockOf[c]: the lock c is bound to
  None           \* the null pointer

VARIABLES
  holder,        \* holder[l]: the thread that has lock l, or None
  waiting,       \* waiting[t]: the lock t waits for, or None
  sleeping       \* sleeping[c]: the threads asleep on c, in order

vars == <<holder, waiting, sleeping>>

Init ==
  /\ holder = [l \in Locks |-> None]
  /\ waiting = [t \in Threads |-> None]
  /\ sleeping = [c \in Conditions |-> <<>>]

(* The thread can call an operation. *)
Active(t) ==
  /\ waiting[t] = None
  /\ \A c \in Conditions : t \notin Range(sleeping[c])

(* Acquire finds the lock free. *)
Take(t, l) ==
  /\ Active(t)
  /\ holder[l] = None
  /\ holder' = [holder EXCEPT ![l] = t]
  /\ UNCHANGED <<waiting, sleeping>>

(* Acquire finds the lock taken. *)
Block(t, l) ==
  /\ Active(t)
  /\ holder[l] \notin {None, t}
  /\ waiting' = [waiting EXCEPT ![t] = l]
  /\ UNCHANGED <<holder, sleeping>>

(* A waiting thread gets the lock. *)
Grant(t, l) ==
  /\ waiting[t] = l
  /\ holder[l] = None
  /\ holder' = [holder EXCEPT ![l] = t]
  /\ waiting' = [waiting EXCEPT ![t] = None]
  /\ UNCHANGED sleeping

Release(t, l) ==
  /\ Active(t)
  /\ holder[l] = t
  /\ holder' = [holder EXCEPT ![l] = None]
  /\ UNCHANGED <<waiting, sleeping>>

Wait(t, c) ==
  /\ Active(t)
  /\ holder[LockOf[c]] = t
  /\ holder' = [holder EXCEPT ![LockOf[c]] = None]
  /\ sleeping' = [sleeping EXCEPT ![c] = Append(@, t)]
  /\ UNCHANGED waiting

(* Signal when somebody sleeps on c; otherwise it changes nothing. *)
Signal(t, c) ==
  /\ Active(t)
  /\ holder[LockOf[c]] = t
  /\ sleeping[c] # <<>>
  /\ sleeping' = [sleeping EXCEPT ![c] = Tail(@)]
  /\ waiting' = [waiting EXCEPT ![Head(sleeping[c])] = LockOf[c]]
  /\ UNCHANGED holder

Next ==
  \E t \in Threads :
    \/ \E l \in Locks :
         Take(t, l) \/ Block(t, l) \/ Grant(t, l) \/ Release(t, l)
    \/ \E c \in Conditions : Wait(t, c) \/ Signal(t, c)

(* A free lock that somebody waits for is taken, in particular by a thread *)
(* that was awakened.                                                      *)
Fairness == \A l \in Locks : WF_vars(\E t \in Threads : Grant(t, l))

Safety == Init /\ [][Next]_vars

Spec == Safety /\ Fairness
=============================================================================
