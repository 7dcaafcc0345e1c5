---------------------------- MODULE MonitorProofs ----------------------------
(***************************************************************************)
(* The locks of a monitor are mutexes.  The drivers (SynchDisk, PostOffice)*)
(* use a lock as a Mutex; the implementation is shown to be a Monitor,     *)
(* where Wait gives the lock back and Signal makes a sleeper compete for   *)
(* it.  This module closes the gap, for any threads, locks and conditions. *)
(***************************************************************************)
EXTENDS Monitor, QueueLemmas

(* A monitor whose conditions are bound to its locks. *)
MonitorConstants ==
  /\ LockOf \in [Conditions -> Locks]
  /\ None \notin Threads /\ None \notin Locks

Mx == INSTANCE Mutex

MonitorTypes ==
  /\ holder \in [Locks -> Threads \cup {None}]
  /\ waiting \in [Threads -> Locks \cup {None}]
  /\ sleeping \in [Conditions -> Seq(Threads)]

(* A thread sleeps on one condition, once, and does not wait for a lock    *)
(* while it sleeps.                                                        *)
SleepersOnlySleep ==
  /\ \A c \in Conditions : IsInjective(sleeping[c])
  /\ \A c \in Conditions : \A t \in Range(sleeping[c]) : waiting[t] = None
  /\ \A c, d \in Conditions : c # d => Range(sleeping[c]) \cap Range(sleeping[d]) = {}

MonitorInv == MonitorTypes /\ SleepersOnlySleep

-----------------------------------------------------------------------------

LEMMA MonitorInit == Init => MonitorInv
<1> SUFFICES ASSUME Init PROVE MonitorInv
  OBVIOUS
<1>1. MonitorTypes
  BY SeqEmpty DEF Init, MonitorTypes
<1>2. \A c \in Conditions : sleeping[c] = <<>> /\ DOMAIN sleeping[c] = {}
  BY DEF Init
<1>3. \A c \in Conditions : IsInjective(sleeping[c]) /\ Range(sleeping[c]) = {}
  BY <1>2 DEF IsInjective, Range
<1>. QED BY <1>1, <1>3 DEF MonitorInv, SleepersOnlySleep

(* What Signal finds: the head of the queue is a thread other than the     *)
(* caller, which waits for nothing and is then asleep nowhere.             *)
LEMMA SignalHead ==
  ASSUME MonitorInv, NEW t \in Threads, NEW c \in Conditions, Signal(t, c)
  PROVE  LET h == Head(sleeping[c])
         IN  /\ h \in Threads /\ h # t /\ waiting[h] = None
             /\ Tail(sleeping[c]) \in Seq(Threads)
             /\ IsInjective(Tail(sleeping[c]))
             /\ Range(Tail(sleeping[c])) = Range(sleeping[c]) \ {h}
             /\ \A d \in Conditions : d # c => h \notin Range(sleeping[d])
<1> DEFINE q == sleeping[c]
<1>1. q \in Seq(Threads) /\ IsInjective(q) /\ q # <<>>
  BY DEF MonitorInv, MonitorTypes, SleepersOnlySleep, Signal
<1>2. /\ Tail(q) \in Seq(Threads) /\ IsInjective(Tail(q))
      /\ Head(q) \in Range(q) /\ Range(Tail(q)) = Range(q) \ {Head(q)}
  BY <1>1, TailDistinct
<1>3. Head(q) \in Threads
  BY <1>1, SeqTail
<1>4. Head(q) # t
  BY <1>2 DEF Signal, Active
<1>. QED BY <1>2, <1>3, <1>4 DEF MonitorInv, SleepersOnlySleep

(* Steps that leave the queues alone: who sleeps neither calls an          *)
(* operation nor is granted a lock.                                        *)
LEMMA LockSteps ==
  ASSUME MonitorConstants, MonitorInv, NEW t \in Threads, NEW l \in Locks,
         Take(t, l) \/ Block(t, l) \/ Grant(t, l) \/ Release(t, l)
  PROVE  MonitorInv'
<1>1. MonitorTypes'
  BY DEF MonitorInv, MonitorTypes, Take, Block, Grant, Release
<1>2. sleeping' = sleeping
  BY DEF Take, Block, Grant, Release
<1>3. ASSUME NEW c \in Conditions, NEW u \in Range(sleeping[c])
      PROVE  waiting'[u] = None
  <2>1. waiting[u] = None
    BY DEF MonitorInv, SleepersOnlySleep
  <2>2. u \in Threads
    BY SeqLen DEF MonitorInv, MonitorTypes, Range
  <2>. QED BY <2>1, <2>2 DEF MonitorInv, MonitorTypes, Active, Take, Block, Grant, Release
<1>. QED BY <1>1, <1>2, <1>3 DEF MonitorInv, SleepersOnlySleep

LEMMA WaitStep ==
  ASSUME MonitorConstants, MonitorInv, NEW t \in Threads, NEW c \in Conditions, Wait(t, c)
  PROVE  MonitorInv'
<1> DEFINE q == Append(sleeping[c], t)
<1>1. sleeping[c] \in Seq(Threads) /\ IsInjective(sleeping[c]) /\ t \notin Range(sleeping[c])
  BY DEF MonitorInv, MonitorTypes, SleepersOnlySleep, Wait, Active
<1>2. q \in Seq(Threads) /\ IsInjective(q) /\ Range(q) = Range(sleeping[c]) \cup {t}
  BY <1>1, AppendDistinct
<1> HIDE DEF q
<1>3. /\ sleeping' = [sleeping EXCEPT ![c] = q]
      /\ waiting' = waiting /\ waiting[t] = None
      /\ \A d \in Conditions : t \notin Range(sleeping[d])
  BY DEF Wait, Active, q
<1>4. /\ sleeping'[c] = q
      /\ \A d \in Conditions : d # c => sleeping'[d] = sleeping[d]
  BY <1>3 DEF MonitorInv, MonitorTypes
<1>5. MonitorTypes'
  BY <1>2, <1>3 DEF MonitorInv, MonitorTypes, Wait
<1>6. \A d \in Conditions : IsInjective(sleeping'[d])
  BY <1>2, <1>4 DEF MonitorInv, SleepersOnlySleep
<1>7. \A d \in Conditions : \A u \in Range(sleeping'[d]) : waiting'[u] = None
  BY <1>2, <1>3, <1>4 DEF MonitorInv, SleepersOnlySleep
<1>8. \A d, e \in Conditions : d # e => Range(sleeping'[d]) \cap Range(sleeping'[e]) = {}
  BY <1>2, <1>3, <1>4 DEF MonitorInv, SleepersOnlySleep
<1>. QED BY <1>5, <1>6, <1>7, <1>8 DEF MonitorInv, SleepersOnlySleep

LEMMA SignalStep ==
  ASSUME MonitorConstants, MonitorInv, NEW t \in Threads, NEW c \in Conditions, Signal(t, c)
  PROVE  MonitorInv'
<1> DEFINE h == Head(sleeping[c])
           q == Tail(sleeping[c])
<1>1. /\ h \in Threads /\ q \in Seq(Threads) /\ IsInjective(q)
      /\ Range(q) = Range(sleeping[c]) \ {h}
      /\ \A d \in Conditions : d # c => h \notin Range(sleeping[d])
  BY SignalHead
<1>2. /\ sleeping' = [sleeping EXCEPT ![c] = q]
      /\ waiting' = [waiting EXCEPT ![h] = LockOf[c]]
      /\ holder' = holder
  BY DEF Signal
<1> HIDE DEF h, q
<1>3. /\ sleeping'[c] = q
      /\ \A d \in Conditions : d # c => sleeping'[d] = sleeping[d]
      /\ \A u \in Threads : u # h => waiting'[u] = waiting[u]
  BY <1>2 DEF MonitorInv, MonitorTypes
<1>4. MonitorTypes'
  BY <1>1, <1>2 DEF MonitorInv, MonitorTypes, MonitorConstants
<1>5. \A d \in Conditions : IsInjective(sleeping'[d])
  BY <1>1, <1>3 DEF MonitorInv, SleepersOnlySleep
<1>6. ASSUME NEW d \in Conditions, NEW u \in Range(sleeping'[d])
      PROVE  waiting'[u] = None
  <2>1. u \in Range(sleeping[d]) /\ u # h
    BY <1>1, <1>3
  <2>2. u \in Threads
    BY <2>1, SeqLen DEF MonitorInv, MonitorTypes, Range
  <2>. QED BY <2>1, <2>2, <1>3 DEF MonitorInv, SleepersOnlySleep
<1>7. \A d, e \in Conditions : d # e => Range(sleeping'[d]) \cap Range(sleeping'[e]) = {}
  BY <1>1, <1>3 DEF MonitorInv, SleepersOnlySleep
<1>. QED BY <1>4, <1>5, <1>6, <1>7 DEF MonitorInv, SleepersOnlySleep

LEMMA MonitorNext ==
  ASSUME MonitorConstants, MonitorInv, [Next]_vars
  PROVE  MonitorInv'
<1>1. CASE UNCHANGED vars
  BY <1>1 DEF vars, MonitorInv, MonitorTypes, SleepersOnlySleep
<1>2. CASE Next
  BY <1>2, LockSteps, WaitStep, SignalStep DEF Next
<1>. QED BY <1>1, <1>2

(* A thread sleeps on one condition at a time and competes for a lock only *)
(* after it was awakened (threads/condition.cc: Wait acquires the lock     *)
(* again after its P).                                                     *)
THEOREM SleepersSleep ==
  ASSUME MonitorConstants
  PROVE  Safety => []SleepersOnlySleep
<1>1. Init => MonitorInv
  BY MonitorInit
<1>2. MonitorInv /\ [Next]_vars => MonitorInv'
  BY MonitorNext
<1>3. MonitorInv => SleepersOnlySleep
  BY DEF MonitorInv
<1>. QED BY <1>1, <1>2, <1>3, PTL DEF Safety

-----------------------------------------------------------------------------

(* Wait is a Release to the mutex, Signal the Acquire of the thread it     *)
(* awakens, which finds the lock with the caller.                          *)
LEMMA MutexStep ==
  ASSUME MonitorConstants, MonitorInv, [Next]_vars
  PROVE  [Mx!Next]_Mx!vars
<1>1. CASE UNCHANGED vars
  BY <1>1 DEF vars, Mx!vars
<1>2. ASSUME NEW t \in Threads, NEW l \in Locks,
             Take(t, l) \/ Block(t, l) \/ Grant(t, l) \/ Release(t, l)
      PROVE  Mx!Next
  <2>1. Mx!Take(t, l) \/ Mx!Block(t, l) \/ Mx!Grant(t, l) \/ Mx!Release(t, l)
    BY <1>2 DEF Active, Take, Block, Grant, Release,
                Mx!Take, Mx!Block, Mx!Grant, Mx!Release
  <2>. QED BY <2>1 DEF Mx!Next
<1>3. ASSUME NEW t \in Threads, NEW c \in Conditions, Wait(t, c)
      PROVE  Mx!Next
  <2>1. LockOf[c] \in Locks
    BY DEF MonitorConstants
  <2>2. Mx!Release(t, LockOf[c])
    BY <1>3 DEF Wait, Active, Mx!Release
  <2>. QED BY <2>1, <2>2 DEF Mx!Next
<1>4. ASSUME NEW t \in Threads, NEW c \in Conditions, Signal(t, c)
      PROVE  Mx!Next
  <2>1. LockOf[c] \in Locks
    BY DEF MonitorConstants
  <2>2. /\ Head(sleeping[c]) \in Threads /\ Head(sleeping[c]) # t
        /\ waiting[Head(sleeping[c])] = None
    BY <1>4, SignalHead
  <2>3. holder[LockOf[c]] \notin {None, Head(sleeping[c])}
    BY <1>4, <2>2 DEF Signal, MonitorConstants
  <2>4. Mx!Block(Head(sleeping[c]), LockOf[c])
    BY <1>4, <2>2, <2>3 DEF Signal, Mx!Block
  <2>. QED BY <2>1, <2>2, <2>4 DEF Mx!Next
<1>. QED BY <1>1, <1>2, <1>3, <1>4 DEF Next

(* Whatever the threads do with conditions, they see locks that one thread *)
(* has at a time and only that thread gives back (threads/lock.hh).        *)
THEOREM MonitorIsMutex ==
  ASSUME MonitorConstants
  PROVE  Safety => Mx!Safety
<1>1. Init => MonitorInv /\ Mx!Init
  BY MonitorInit DEF Init, Mx!Init
<1>2. MonitorInv /\ [Next]_vars => MonitorInv' /\ [Mx!Next]_Mx!vars
  BY MonitorNext, MutexStep
<1>. QED BY <1>1, <1>2, PTL DEF Safety, Mx!Safety
=============================================================================
