--------------------------- MODULE MonitorClients ----------------------------
(***************************************************************************)
(* Threads that call the operations of locks and their condition variables *)
(* in any order condition.hh allows: after having acquired the lock.  They *)
(* nest locks the way the kernel does: in one order (FileSystem's create   *)
(* lock, then a file's write lock, then the disk's lock), and they wait on *)
(* a condition while they have no lock but its own.                        *)
(***************************************************************************)
EXTENDS Condition

CONSTANT Rank    \* Rank[l]: the place of lock l in the locking order

ASSUME RankType == Rank \in [Locks -> Nat]

vars == <<semVars, lockVars, condVars>>

Next ==
  \E t \in Threads :
    \/ \E l \in Locks :
         \/ /\ Outside(t)
            /\ \A k \in Locks : IsHeldBy(t, k) => Rank[k] < Rank[l]
            /\ Acquire(t, l)
            /\ UNCHANGED condVars
         \/ ResumeAcquire(t, l) /\ UNCHANGED condVars
         \/ EndAcquire(t, l)
         \/ Outside(t) /\ Release(t, l) /\ UNCHANGED condVars
    \/ \E c \in Conditions :
         \/ /\ \A l \in Locks : IsHeldBy(t, l) => l = LockOf[c]
            /\ Wait(t, c)
         \/ GoToSleep(t, c)
         \/ Reacquire(t, c)
         \/ Signal(t, c)
         \/ IsHeldBy(t, LockOf[c]) /\ Broadcast(t, c)
         \/ BroadcastLoop(t, c)
    \/ ResumeWait(t)

(* Threads that are ready inside an operation run.  Calls are not obliged. *)
Fairness ==
  \A t \in Threads :
    /\ WF_vars(\/ \E l \in Locks :
                    \/ ResumeAcquire(t, l) /\ UNCHANGED condVars
                    \/ EndAcquire(t, l)
               \/ \E c \in Conditions :
                    GoToSleep(t, c) \/ Reacquire(t, c) \/ BroadcastLoop(t, c)
               \/ ResumeWait(t))

Safety == CondInit /\ [][Next]_vars

Spec == Safety /\ Fairness

-----------------------------------------------------------------------------

(* The holder the abstract lock has: the thread past P and before V. *)
HolderOf(l) ==
  IF Insiders(l) = {} THEN None ELSE CHOOSE t \in Threads : Inside(t, l)

(* The lock a thread waits for: the one of the P it is in, or the one of   *)
(* the Wait it was awakened in and has to acquire again.                   *)
WaitsForLock(t) ==
  IF waitingOn[t] = None
  THEN IF blockedOn[t] \in Locks THEN blockedOn[t] ELSE None
  ELSE IF Queued(t, waitingOn[t]) \/ Inside(t, LockOf[waitingOn[t]])
       THEN None ELSE LockOf[waitingOn[t]]

ThreadOf(s) == CHOOSE t \in Threads : aDormir[t] = s
=============================================================================
