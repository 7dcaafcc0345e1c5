------------------------ MODULE MonitorClientsProofs -------------------------
(***************************************************************************)
(* Proofs about threads/lock.cc, threads/condition.cc and                  *)
(* threads/semaphore.cc, for any finite set of threads and any sets of     *)
(* locks and conditions, used in any order that MonitorClients allows: the *)
(* locks exclude and their donations end, locks and conditions implement   *)
(* the Monitor, and the semaphores below them count.                       *)
(***************************************************************************)
EXTENDS MonitorClients, QueueLemmas

(* The provers and their time limits, in every proof of this module. *)
USE SMTT(10), ZenonT(30)

-----------------------------------------------------------------------------
(***************************************************************************)
(* The invariant.  ClientTypes, CallsAreInOrder and MutualExclusion are    *)
(* inductive together, and with them DonationsEndWithOwnership: that a     *)
(* thread inside P has no Acquire to complete is what makes `granted`      *)
(* forget nobody, and that one thread at most is inside is what makes      *)
(* `lockOwner = currentThread` overwrite nobody.                           *)
(* SleepersAreQueued is what the refinement of Monitor adds.               *)
(***************************************************************************)

ClientTypes ==
  /\ lockOwner \in [Locks -> Threads \cup {None}]
  /\ granted \in [Threads -> Locks \cup {None}]
  /\ DOMAIN inherited = Threads /\ \A t \in Threads : DOMAIN inherited[t] = Locks
  /\ colaProcesosDormidos \in [Conditions -> Seq({aDormir[t] : t \in Threads})]
  /\ waitingOn \in [Threads -> Conditions \cup {None}]
  /\ waitAt \in [Threads -> {"outside", "released", "sleeping", "acquiring"}]
  /\ broadcasting \in [Threads -> Conditions \cup {None}]

(* Where the operation a thread is in lets it be. *)
InOrder(t) ==
  /\ waitingOn[t] = None <=> waitAt[t] = "outside"
  /\ granted[t] # None => blockedOn[t] = None
  /\ waitAt[t] = "outside" => blockedOn[t] \in Locks \cup {None}
  /\ waitAt[t] = "released" => Running(t)
  /\ waitAt[t] = "sleeping" => granted[t] = None /\ blockedOn[t] \in {aDormir[t], None}
  /\ waitAt[t] = "acquiring" => LockOf[waitingOn[t]] \in {blockedOn[t], granted[t]}
  /\ waitingOn[t] # None => \A l \in Locks : lockOwner[l] # t
  /\ broadcasting[t] # None =>
       /\ Running(t) /\ waitingOn[t] = None
       /\ lockOwner[LockOf[broadcasting[t]]] = t

CallsAreInOrder == \A t \in Threads : InOrder(t)

(* A thread in Wait, before its P or in it. *)
Due(t) == waitAt[t] = "released" \/ blockedOn[t] = aDormir[t]

(* A thread in Wait has its semaphore in the list of the condition, or a   *)
(* unit in the semaphore, until its P consumes it.                         *)
SignalIsKept(t) ==
  /\ \A c \in Conditions : Queued(t, c) => waitingOn[t] = c /\ Due(t)
  /\ value[aDormir[t]] =
       IF Due(t) /\ \A c \in Conditions : ~Queued(t, c) THEN 1 ELSE 0

SleepersAreQueued ==
  /\ \A c \in Conditions : IsInjective(colaProcesosDormidos[c])
  /\ \A t \in Threads : SignalIsKept(t)

(* MutualExclusion without the set of insiders. *)
OneInside ==
  \A l \in Locks :
    /\ \A t, u \in Threads : Inside(t, l) /\ Inside(u, l) => t = u
    /\ \/ value[l] = 1 /\ \A t \in Threads : ~Inside(t, l)
       \/ value[l] = 0 /\ \E t \in Threads : Inside(t, l)

LockInv ==
  /\ SemTypeOK
  /\ ClientTypes
  /\ CallsAreInOrder
  /\ OneInside
  /\ DonationsEndWithOwnership

-----------------------------------------------------------------------------

(* The semaphores of locks and conditions, and the null pointer. *)
LEMMA ConstantFacts ==
  /\ Locks \subseteq Semaphores
  /\ None \notin Threads /\ None \notin Locks /\ None \notin Conditions
  /\ \A c \in Conditions : LockOf[c] \in Locks
  /\ \A t \in Threads : aDormir[t] \in Semaphores /\ aDormir[t] \notin Locks /\ aDormir[t] # None
  /\ \A t, u \in Threads : aDormir[t] = aDormir[u] => t = u
BY ConstantTypes, LockConstants, ConditionConstants DEF IsInjective

(* A thread joins the queue of a semaphore. *)
LEMMA QueueGrows ==
  ASSUME NEW q \in Seq(Threads), IsInjective(q), NEW t \in Threads, t \notin Range(q)
  PROVE  /\ Append(q, t) \in Seq(Threads)
         /\ IsInjective(Append(q, t))
         /\ Range(Append(q, t)) = Range(q) \cup {t}
BY AppendDistinct

(* The semaphores of the Waits of a condition, in order of arrival. *)
WaitQueues == Seq({aDormir[t] : t \in Threads})

(* A semaphore joins the list of a condition. *)
LEMMA WaitQueueGrows ==
  ASSUME NEW q \in WaitQueues, NEW t \in Threads
  PROVE  /\ Append(q, aDormir[t]) \in WaitQueues
         /\ IsInjective(q) /\ aDormir[t] \notin Range(q) =>
              /\ IsInjective(Append(q, aDormir[t]))
              /\ Range(Append(q, aDormir[t])) = Range(q) \cup {aDormir[t]}
<1> DEFINE D == {aDormir[u] : u \in Threads}
<1>1. aDormir[t] \in D /\ q \in Seq(D)
  BY DEF WaitQueues
<1> HIDE DEF D
<1>2. Append(q, aDormir[t]) \in Seq(D)
  BY <1>1, SeqAppend
<1>3. IsInjective(q) /\ aDormir[t] \notin Range(q) =>
        /\ IsInjective(Append(q, aDormir[t]))
        /\ Range(Append(q, aDormir[t])) = Range(q) \cup {aDormir[t]}
  BY <1>1, AppendDistinct
<1>. QED BY <1>2, <1>3 DEF WaitQueues, D

(* The P of an Acquire takes the unit and notes it, or leaves the thread asleep. *)
LEMMA PIsNoted ==
  ASSUME NEW t, NEW l, TryP(t, l), NoteReturnOfP(t, l)
  PROVE  \/ /\ value[l] > 0
            /\ value' = [value EXCEPT ![l] = @ - 1]
            /\ blockedOn' = [blockedOn EXCEPT ![t] = None]
            /\ granted' = [granted EXCEPT ![t] = l]
         \/ /\ value[l] = 0
            /\ value' = value
            /\ blockedOn' = [blockedOn EXCEPT ![t] = l]
            /\ granted' = granted
BY DEF TryP, NoteReturnOfP

(* A semaphore of at most one unit has it or not. *)
LEMMA UnitsDiffer == 0 # 1
OBVIOUS

(* P on a semaphore of at most one unit. *)
LEMMA PTakesTheUnit ==
  ASSUME SemTypeOK, NEW t \in Threads, NEW s \in Semaphores, TryP(t, s), value[s] \in {0, 1}
  PROVE  \/ value[s] = 1 /\ value'[s] = 0 /\ blockedOn'[t] = None
         \/ value[s] = 0 /\ value'[s] = 0 /\ blockedOn'[t] = s
BY DEF TryP, SemTypeOK

(* A thread that waits on a semaphore of its own is in the P of a Wait. *)
LEMMA AsleepInWait ==
  ASSUME ClientTypes, NEW t \in Threads, InOrder(t), blockedOn[t] = aDormir[t]
  PROVE  waitAt[t] = "sleeping"
BY ConstantFacts DEF ClientTypes, InOrder, Running

(* The head of the list of a condition is the semaphore of a thread. *)
LEMMA HeadIsASemaphore ==
  ASSUME ClientTypes, NEW c \in Conditions, colaProcesosDormidos[c] # <<>>
  PROVE  \E u \in Threads : Head(colaProcesosDormidos[c]) = aDormir[u]
<1>1. colaProcesosDormidos[c] \in Seq({aDormir[t] : t \in Threads})
  BY DEF ClientTypes
<1>. QED BY <1>1, SeqTail

(* Locks and conditions touch their semaphores through P and V only. *)
LEMMA StepIsSemStep ==
  ASSUME ClientTypes, [Next]_vars
  PROVE  [SemNext]_semVars
<1>1. CASE UNCHANGED vars
  BY <1>1 DEF vars
<1>2. ASSUME NEW t \in Threads, NEW l \in Locks,
             Acquire(t, l) \/ ResumeAcquire(t, l) \/ EndAcquire(t, l) \/ Release(t, l)
      PROVE  [SemNext]_semVars
  BY <1>2, ConstantFacts DEF Acquire, ResumeAcquire, EndAcquire, SetLockOwner, Release, SemNext
<1>3. ASSUME NEW t \in Threads, NEW c \in Conditions,
             Wait(t, c) \/ GoToSleep(t, c) \/ Reacquire(t, c)
      PROVE  [SemNext]_semVars
  BY <1>3, ConstantFacts DEF Wait, Release, GoToSleep, Reacquire, Acquire, SemNext
<1>4. ASSUME NEW c \in Conditions, SignalOne(c)
      PROVE  [SemNext]_semVars
  BY <1>4, ConstantFacts, HeadIsASemaphore DEF SignalOne, SemNext
<1>5. ASSUME NEW t \in Threads, NEW c \in Conditions,
             Signal(t, c) \/ Broadcast(t, c) \/ BroadcastLoop(t, c)
      PROVE  [SemNext]_semVars
  BY <1>5, <1>4 DEF Signal, Broadcast, BroadcastLoop
<1>6. ASSUME NEW t \in Threads, ResumeWait(t)
      PROVE  [SemNext]_semVars
  BY <1>6, ConstantFacts DEF ResumeWait, SemNext
<1>. QED BY <1>1, <1>2, <1>3, <1>5, <1>6 DEF Next

(* P and V keep the types of the semaphores. *)
LEMMA SemStepTypes ==
  ASSUME SemTypeOK, [SemNext]_semVars
  PROVE  SemTypeOK'
<1>1. ASSUME NEW t \in Threads, NEW s \in Semaphores, TryP(t, s), woken' \in SUBSET Threads
      PROVE  SemTypeOK'
  <2>1. queue' \in [Semaphores -> Seq(Threads)]
    <3>1. Append(queue[s], t) \in Seq(Threads)
      BY SeqAppend DEF SemTypeOK
    <3>. QED BY <1>1, <3>1, Zenon DEF TryP, SemTypeOK
  <2>2. value' \in [Semaphores -> Nat]
    <3>1. value \in [Semaphores -> Nat] /\ value[s] \in Nat
      BY DEF SemTypeOK
    <3>2. value' = value \/ (value[s] > 0 /\ value' = [value EXCEPT ![s] = @ - 1])
      BY <1>1 DEF TryP
    <3>. QED BY <3>1, <3>2
  <2>3. blockedOn' \in [Threads -> Semaphores \cup {None}]
    <3>1. \/ blockedOn' = [blockedOn EXCEPT ![t] = None]
          \/ blockedOn' = [blockedOn EXCEPT ![t] = s]
      BY <1>1, Zenon DEF TryP
    <3>2. blockedOn \in [Threads -> Semaphores \cup {None}]
      BY Zenon DEF SemTypeOK
    <3>. QED BY <3>1, <3>2
  <2>. QED BY <1>1, <2>1, <2>2, <2>3 DEF SemTypeOK
<1>2. ASSUME NEW s \in Semaphores, V(s)
      PROVE  SemTypeOK'
  <2>1. queue' \in [Semaphores -> Seq(Threads)] /\ woken' \in SUBSET Threads
    <3>1. queue[s] # <<>> => Tail(queue[s]) \in Seq(Threads) /\ Head(queue[s]) \in Threads
      BY SeqTail DEF SemTypeOK
    <3>. QED BY <1>2, <3>1, Zenon DEF V, SemTypeOK
  <2>2. value' \in [Semaphores -> Nat] /\ blockedOn' = blockedOn
    BY <1>2 DEF V, SemTypeOK
  <2>. QED BY <2>1, <2>2 DEF SemTypeOK
<1>3. CASE UNCHANGED semVars
  BY <1>3 DEF semVars, SemTypeOK
<1>4. ASSUME NEW t \in Threads, NEW s \in Semaphores, P(t, s) \/ ResumeP(t, s)
      PROVE  TryP(t, s) /\ woken' \in SUBSET Threads
  BY <1>4 DEF P, ResumeP, SemTypeOK
<1>. QED BY <1>1, <1>2, <1>3, <1>4 DEF SemNext

LEMMA LockInitInv == CondInit => LockInv
<1> SUFFICES ASSUME CondInit PROVE LockInv
  OBVIOUS
<1> USE ConstantFacts
<1>1. SemTypeOK
  BY ConstantTypes, SeqEmpty DEF CondInit, LockInit, SemInit, SemTypeOK
<1>2. ClientTypes
  BY SeqEmpty DEF CondInit, LockInit, ClientTypes
<1>3. CallsAreInOrder
  BY DEF CondInit, LockInit, SemInit, CallsAreInOrder, InOrder, Running
<1>4. OneInside
  BY LockConstants DEF CondInit, LockInit, SemInit, OneInside, Inside
<1>5. DonationsEndWithOwnership
  BY DEF CondInit, LockInit, DonationsEndWithOwnership
<1>. QED BY <1>1, <1>2, <1>3, <1>4, <1>5 DEF LockInv

-----------------------------------------------------------------------------
(***************************************************************************)
(* One lemma per operation.                                                *)
(***************************************************************************)

(* A thread stays in order when a step leaves it alone. *)
LEMMA OthersStayInOrder ==
  ASSUME ClientTypes, NEW u \in Threads, InOrder(u),
         waitAt'[u] = waitAt[u], waitingOn'[u] = waitingOn[u],
         broadcasting'[u] = broadcasting[u],
         blockedOn'[u] = blockedOn[u], granted'[u] = granted[u],
         \A l \in Locks : lockOwner'[l] = u <=> lockOwner[l] = u
  PROVE  InOrder(u)'
<1>1. broadcasting[u] # None => LockOf[broadcasting[u]] \in Locks
  BY ConstantFacts DEF ClientTypes
<1>. QED BY <1>1 DEF InOrder, Running

(* Acquire, called by a thread outside the operations or by Wait. *)
LEMMA AcquireInv ==
  ASSUME LockInv, SemTypeOK', NEW t \in Threads, NEW l \in Locks, Acquire(t, l),
         UNCHANGED <<colaProcesosDormidos, waitingOn, broadcasting>>,
         broadcasting[t] = None,
         \/ waitingOn[t] = None /\ waitAt' = waitAt
         \/ /\ waitingOn[t] # None /\ l = LockOf[waitingOn[t]]
            /\ waitAt[t] = "sleeping"
            /\ waitAt' = [waitAt EXCEPT ![t] = "acquiring"]
  PROVE  LockInv'
<1> USE ConstantFacts DEF LockInv
<1>0. /\ blockedOn[t] = None /\ granted[t] = None /\ lockOwner[l] # t
      /\ lockOwner' = lockOwner /\ woken' = woken
  BY DEF Acquire, Running, IsHeldBy, P
<1>1. \/ /\ value[l] > 0
         /\ value' = [value EXCEPT ![l] = @ - 1]
         /\ blockedOn' = [blockedOn EXCEPT ![t] = None]
         /\ granted' = [granted EXCEPT ![t] = l]
      \/ /\ value[l] = 0
         /\ value' = value
         /\ blockedOn' = [blockedOn EXCEPT ![t] = l]
         /\ granted' = granted
  BY DEF Acquire, P, TryP, NoteReturnOfP
<1>2. \/ inherited' = inherited
      \/ /\ lockOwner[l] # None
         /\ inherited' = [inherited EXCEPT ![lockOwner[l]][l] = GetPriority(t)]
  BY DEF Acquire, SetInheritedPriority
<1>3. ClientTypes'
  <2>1. granted' \in [Threads -> Locks \cup {None}]
    BY <1>1 DEF ClientTypes
  <2>2. DOMAIN inherited' = Threads /\ \A u \in Threads : DOMAIN inherited'[u] = Locks
    BY <1>2 DEF ClientTypes
  <2>3. waitAt' \in [Threads -> {"outside", "released", "sleeping", "acquiring"}]
    BY DEF ClientTypes
  <2>. QED BY <1>0, <2>1, <2>2, <2>3, ZenonT(30) DEF ClientTypes
<1>4. ASSUME NEW u \in Threads PROVE InOrder(u)'
  <2>1. InOrder(u)
    BY DEF CallsAreInOrder
  <2>2. CASE u # t
    <3>1. /\ waitAt'[u] = waitAt[u] /\ waitingOn'[u] = waitingOn[u]
          /\ broadcasting'[u] = broadcasting[u]
          /\ blockedOn'[u] = blockedOn[u] /\ granted'[u] = granted[u]
      BY <2>2, <1>1 DEF ClientTypes, SemTypeOK
    <3>. QED BY <2>1, <3>1, <1>0, OthersStayInOrder
  <2>3. CASE u = t
    <3>1. /\ waitingOn'[t] = waitingOn[t] /\ broadcasting'[t] = None
          /\ \/ blockedOn'[t] = None /\ granted'[t] = l
             \/ blockedOn'[t] = l /\ granted'[t] = None
          /\ \/ waitingOn[t] = None /\ waitAt'[t] = "outside"
             \/ waitingOn[t] # None /\ l = LockOf[waitingOn[t]] /\ waitAt'[t] = "acquiring"
      BY <2>1, <2>3, <1>0, <1>1, ZenonT(30) DEF InOrder, ClientTypes, SemTypeOK
    <3>. QED BY <2>1, <2>3, <3>1, <1>0, Zenon DEF InOrder
  <2>. QED BY <2>2, <2>3
<1>5. OneInside'
  BY <1>0, <1>1 DEF OneInside, Inside, ClientTypes, SemTypeOK
<1>6. DonationsEndWithOwnership'
  <2>1. \A u \in Threads, k \in Locks :
          inherited'[u][k] = inherited[u][k] \/ (u = lockOwner[l] /\ k = l)
    BY <1>2 DEF ClientTypes
  <2>. QED BY <1>0, <2>1 DEF DonationsEndWithOwnership
<1>. QED BY <1>3, <1>4, <1>5, <1>6 DEF CallsAreInOrder

(* The thread that was woken in the P of its Acquire. *)
LEMMA ResumeAcquireInv ==
  ASSUME LockInv, SemTypeOK', NEW t \in Threads, NEW l \in Locks,
         ResumeAcquire(t, l), UNCHANGED condVars
  PROVE  LockInv'
<1> USE ConstantFacts DEF LockInv
<1>0. /\ blockedOn[t] = l
      /\ lockOwner' = lockOwner /\ inherited' = inherited
      /\ UNCHANGED condVars
  BY DEF ResumeAcquire, ResumeP
<1>1. \/ /\ value[l] > 0
         /\ value' = [value EXCEPT ![l] = @ - 1]
         /\ blockedOn' = [blockedOn EXCEPT ![t] = None]
         /\ granted' = [granted EXCEPT ![t] = l]
      \/ /\ value[l] = 0
         /\ value' = value
         /\ blockedOn' = [blockedOn EXCEPT ![t] = l]
         /\ granted' = granted
  BY PIsNoted, Zenon DEF ResumeAcquire, ResumeP
<1>2. InOrder(t) /\ granted[t] = None
  BY <1>0 DEF CallsAreInOrder, InOrder, ClientTypes
<1>3. ClientTypes'
  BY <1>0, <1>1 DEF ClientTypes, condVars
<1>4. ASSUME NEW u \in Threads PROVE InOrder(u)'
  <2>1. InOrder(u)
    BY DEF CallsAreInOrder
  <2>2. CASE u # t
    <3>1. blockedOn'[u] = blockedOn[u] /\ granted'[u] = granted[u]
      BY <2>2, <1>1 DEF ClientTypes, SemTypeOK
    <3>. QED BY <2>1, <3>1, <1>0, OthersStayInOrder DEF condVars
  <2>3. CASE u = t
    <3>1. \/ blockedOn'[t] = None /\ granted'[t] = l
          \/ blockedOn'[t] = l /\ granted'[t] = None
      BY <2>3, <1>0, <1>1, <1>2, Zenon DEF ClientTypes, SemTypeOK
    <3>2. \/ waitingOn[t] = None /\ waitAt[t] = "outside"
          \/ waitingOn[t] # None /\ l = LockOf[waitingOn[t]] /\ waitAt[t] = "acquiring"
      BY <1>0, <1>2 DEF InOrder, Running, ClientTypes
    <3>a. l # None
      BY Zenon
    <3>3. broadcasting[t] = None
      BY <1>0, <1>2, <3>a, Zenon DEF InOrder, Running
    <3>. QED BY <1>0, <1>2, <2>3, <3>1, <3>2, <3>3 DEF InOrder, condVars
  <2>. QED BY <2>2, <2>3
<1>5. OneInside'
  BY <1>0, <1>1, <1>2 DEF OneInside, Inside, ClientTypes, SemTypeOK
<1>6. DonationsEndWithOwnership'
  BY <1>0 DEF DonationsEndWithOwnership
<1>. QED BY <1>3, <1>4, <1>5, <1>6, Zenon DEF CallsAreInOrder

(* `lockOwner = currentThread`: the other threads are not inside. *)
LEMMA EndAcquireInv ==
  ASSUME LockInv, SemTypeOK', NEW t \in Threads, NEW l \in Locks, EndAcquire(t, l)
  PROVE  LockInv'
<1> USE ConstantFacts DEF LockInv
<1>1. /\ granted[t] = l
      /\ granted' = [granted EXCEPT ![t] = None]
      /\ lockOwner' = [lockOwner EXCEPT ![l] = t]
      /\ waitingOn' = [waitingOn EXCEPT ![t] = None]
      /\ waitAt' = [waitAt EXCEPT ![t] = "outside"]
      /\ UNCHANGED <<value, blockedOn, inherited, colaProcesosDormidos, broadcasting>>
  BY DEF EndAcquire, SetLockOwner, semVars
<1>2. ClientTypes'
  BY <1>1 DEF ClientTypes
<1>3. lockOwner[l] = None \/ lockOwner[l] = t
  BY <1>1 DEF OneInside, Inside, ClientTypes
<1>4. ASSUME NEW u \in Threads PROVE InOrder(u)'
  <2>1. InOrder(u) /\ InOrder(t)
    BY DEF CallsAreInOrder
  <2>2. CASE u # t
    <3>1. /\ waitAt'[u] = waitAt[u] /\ waitingOn'[u] = waitingOn[u]
          /\ granted'[u] = granted[u]
          /\ \A k \in Locks : lockOwner'[k] = u <=> lockOwner[k] = u
      BY <1>1, <1>3, <2>2 DEF ClientTypes
    <3>. QED BY <1>1, <2>1, <3>1, OthersStayInOrder
  <2>3. CASE u = t
    <3>1. blockedOn[t] = None /\ broadcasting[t] = None
      BY <1>1, <2>1, Zenon DEF InOrder, Running
    <3>2. /\ waitAt'[t] = "outside" /\ waitingOn'[t] = None /\ granted'[t] = None
          /\ blockedOn'[t] = None /\ broadcasting'[t] = None
      BY <1>1, <3>1 DEF ClientTypes
    <3>. QED BY <2>3, <3>2, Zenon DEF InOrder
  <2>. QED BY <2>2, <2>3
<1>5. OneInside'
  BY <1>1, <1>3 DEF OneInside, Inside, ClientTypes, SemTypeOK
<1>6. DonationsEndWithOwnership'
  BY <1>1, <1>3 DEF DonationsEndWithOwnership, ClientTypes
<1>. QED BY <1>2, <1>4, <1>5, <1>6 DEF CallsAreInOrder

(* Release, called by a thread outside the operations or by Wait, whose    *)
(* caller has no other lock.                                               *)
LEMMA ReleaseInv ==
  ASSUME LockInv, SemTypeOK', NEW t \in Threads, NEW l \in Locks,
         Outside(t), Release(t, l), broadcasting' = broadcasting,
         \/ UNCHANGED <<colaProcesosDormidos, waitingOn, waitAt>>
         \/ \E c \in Conditions :
              /\ l = LockOf[c]
              /\ \A k \in Locks : IsHeldBy(t, k) => k = l
              /\ colaProcesosDormidos' =
                   [colaProcesosDormidos EXCEPT ![c] = Append(@, aDormir[t])]
              /\ waitingOn' = [waitingOn EXCEPT ![t] = c]
              /\ waitAt' = [waitAt EXCEPT ![t] = "released"]
  PROVE  LockInv'
<1> USE ConstantFacts DEF LockInv
<1>1. /\ lockOwner[l] = t
      /\ blockedOn[t] = None /\ granted[t] = None
      /\ waitingOn[t] = None /\ broadcasting[t] = None
      /\ value' = [value EXCEPT ![l] = @ + 1]
      /\ inherited' = [inherited EXCEPT ![t][l] = NoDonation]
      /\ lockOwner' = [lockOwner EXCEPT ![l] = None]
      /\ UNCHANGED <<blockedOn, granted, broadcasting>>
  BY DEF Outside, Running, Release, IsHeldBy, RemoveInheritedPriority, V
<1>2. ClientTypes'
  <2>1. CASE UNCHANGED <<colaProcesosDormidos, waitingOn, waitAt>>
    BY <1>1, <2>1 DEF ClientTypes
  <2>2. ASSUME NEW c \in Conditions,
               colaProcesosDormidos' =
                 [colaProcesosDormidos EXCEPT ![c] = Append(@, aDormir[t])],
               waitingOn' = [waitingOn EXCEPT ![t] = c],
               waitAt' = [waitAt EXCEPT ![t] = "released"]
        PROVE  ClientTypes'
    <3>1. Append(colaProcesosDormidos[c], aDormir[t]) \in Seq({aDormir[u] : u \in Threads})
      BY WaitQueueGrows, Zenon DEF ClientTypes, WaitQueues
    <3>. QED BY <1>1, <2>2, <3>1, Zenon DEF ClientTypes
  <2>. QED BY <2>1, <2>2, Zenon
<1>3. ASSUME NEW u \in Threads PROVE InOrder(u)'
  <2>1. InOrder(u) /\ InOrder(t)
    BY DEF CallsAreInOrder
  <2>2. CASE u # t
    <3>1. /\ waitAt'[u] = waitAt[u] /\ waitingOn'[u] = waitingOn[u]
          /\ \A k \in Locks : lockOwner'[k] = u <=> lockOwner[k] = u
      BY <1>1, <2>2 DEF ClientTypes
    <3>. QED BY <1>1, <2>1, <3>1, OthersStayInOrder
  <2>3. CASE u = t
    <3>1. blockedOn'[t] = None /\ granted'[t] = None /\ broadcasting'[t] = None
      BY <1>1
    <3>2. \/ waitingOn'[t] = None /\ waitAt'[t] = "outside"
          \/ /\ waitingOn'[t] # None /\ waitAt'[t] = "released"
             /\ \A k \in Locks : lockOwner'[k] # t
      BY <1>1, <2>1 DEF InOrder, ClientTypes, IsHeldBy
    <3>. QED BY <2>3, <3>1, <3>2, Zenon DEF InOrder, Running
  <2>. QED BY <2>2, <2>3, Zenon
<1>4. OneInside'
  BY <1>1 DEF OneInside, Inside, ClientTypes, SemTypeOK
<1>5. DonationsEndWithOwnership'
  <2>1. \A u \in Threads, k \in Locks :
          IF u = t /\ k = l THEN inherited'[u][k] = NoDonation
                            ELSE inherited'[u][k] = inherited[u][k]
    BY <1>1 DEF ClientTypes
  <2>. QED BY <1>1, <2>1 DEF DonationsEndWithOwnership, ClientTypes
<1>. QED BY <1>2, <1>3, <1>4, <1>5, Zenon DEF CallsAreInOrder

(* P on the semaphore of a Wait: it is no lock's. *)
LEMMA WaitPInv ==
  ASSUME LockInv, SemTypeOK', NEW t \in Threads, TryP(t, aDormir[t]),
         UNCHANGED <<lockVars, colaProcesosDormidos, waitingOn, broadcasting>>,
         blockedOn[t] \in {None, aDormir[t]},
         waitAt[t] \in {"released", "sleeping"},
         waitAt' = [waitAt EXCEPT ![t] = "sleeping"]
  PROVE  LockInv'
<1> USE ConstantFacts DEF LockInv
<1>1. /\ \/ value' = value
         \/ value' = [value EXCEPT ![aDormir[t]] = @ - 1]
      /\ \/ blockedOn' = [blockedOn EXCEPT ![t] = None]
         \/ blockedOn' = [blockedOn EXCEPT ![t] = aDormir[t]]
      /\ UNCHANGED <<lockOwner, granted, inherited, colaProcesosDormidos, waitingOn, broadcasting>>
  BY Zenon DEF TryP, lockVars
<1>2. ClientTypes'
  BY <1>1, Zenon DEF ClientTypes
<1>3. ASSUME NEW u \in Threads PROVE InOrder(u)'
  <2>1. InOrder(u) /\ InOrder(t)
    BY DEF CallsAreInOrder
  <2>2. CASE u # t
    <3>1. waitAt'[u] = waitAt[u] /\ blockedOn'[u] = blockedOn[u]
      BY <1>1, <2>2, Zenon DEF ClientTypes, SemTypeOK
    <3>. QED BY <1>1, <2>1, <3>1, OthersStayInOrder, Zenon
  <2>3. CASE u = t
    <3>1. waitAt'[t] = "sleeping" /\ blockedOn'[t] \in {None, aDormir[t]}
      BY <1>1, Zenon DEF ClientTypes, SemTypeOK
    <3>2. waitingOn[t] # None /\ granted[t] = None /\ broadcasting[t] = None
      BY <2>1, Zenon DEF InOrder, Running
    <3>. QED BY <1>1, <2>1, <2>3, <3>1, <3>2, Zenon DEF InOrder
  <2>. QED BY <2>2, <2>3
<1>4. OneInside'
  <2>1. \A k \in Locks : value'[k] = value[k]
    BY <1>1 DEF SemTypeOK
  <2>2. \A u \in Threads, k \in Locks : Inside(u, k)' <=> Inside(u, k)
    BY <1>1, Zenon DEF Inside
  <2>. QED BY <2>1, <2>2, ZenonT(30) DEF OneInside
<1>5. DonationsEndWithOwnership'
  BY <1>1, Zenon DEF DonationsEndWithOwnership
<1>. QED BY <1>2, <1>3, <1>4, <1>5 DEF CallsAreInOrder

(* The V of a Signal is on the semaphore of a Wait as well. *)
LEMMA SignalOneInv ==
  ASSUME LockInv, SemTypeOK', NEW c \in Conditions, SignalOne(c),
         UNCHANGED <<waitingOn, waitAt, broadcasting>>
  PROVE  LockInv'
<1> USE ConstantFacts DEF LockInv
<1>1. PICK w \in Threads : Head(colaProcesosDormidos[c]) = aDormir[w]
  BY HeadIsASemaphore DEF SignalOne
<1>2. /\ value' = [value EXCEPT ![aDormir[w]] = @ + 1]
      /\ colaProcesosDormidos' = [colaProcesosDormidos EXCEPT ![c] = Tail(@)]
      /\ UNCHANGED <<blockedOn, lockOwner, granted, inherited>>
  BY <1>1, Zenon DEF SignalOne, V, lockVars
<1>3. ClientTypes'
  <2>1. Tail(colaProcesosDormidos[c]) \in Seq({aDormir[u] : u \in Threads})
    BY SeqTail DEF ClientTypes, SignalOne
  <2>. QED BY <1>2, <2>1, Zenon DEF ClientTypes
<1>4. ASSUME NEW u \in Threads PROVE InOrder(u)'
  BY <1>2, OthersStayInOrder, Zenon DEF CallsAreInOrder
<1>5. OneInside'
  BY <1>2 DEF OneInside, Inside, SemTypeOK
<1>6. DonationsEndWithOwnership'
  BY <1>2 DEF DonationsEndWithOwnership
<1>. QED BY <1>3, <1>4, <1>5, <1>6 DEF CallsAreInOrder

(* Broadcast begins, with the lock of the condition, or ends. *)
LEMMA BroadcastInv ==
  ASSUME LockInv, SemTypeOK', NEW t \in Threads, NEW c \in Conditions \cup {None},
         UNCHANGED <<semVars, lockVars, colaProcesosDormidos, waitingOn, waitAt>>,
         broadcasting' = [broadcasting EXCEPT ![t] = c],
         c # None => Outside(t) /\ IsHeldBy(t, LockOf[c])
  PROVE  LockInv'
<1> USE ConstantFacts DEF LockInv
<1>1. UNCHANGED <<value, blockedOn, lockOwner, granted, inherited>>
  BY DEF semVars, lockVars
<1>2. ClientTypes'
  BY <1>1, Zenon DEF ClientTypes
<1>3. ASSUME NEW u \in Threads PROVE InOrder(u)'
  <2>1. InOrder(u)
    BY Zenon DEF CallsAreInOrder
  <2>2. CASE u # t
    BY <1>1, <2>1, <2>2, OthersStayInOrder, Zenon DEF ClientTypes
  <2>3. CASE u = t
    BY <1>1, <2>1, <2>3, Zenon DEF InOrder, ClientTypes, Outside, Running, IsHeldBy
  <2>. QED BY <2>2, <2>3, Zenon
<1>4. OneInside' /\ DonationsEndWithOwnership'
  BY <1>1 DEF OneInside, Inside, DonationsEndWithOwnership
<1>. QED BY <1>2, <1>3, <1>4, Zenon DEF CallsAreInOrder

LEMMA LockNextInv == LockInv /\ [Next]_vars => LockInv'
<1> SUFFICES ASSUME LockInv, [Next]_vars PROVE LockInv'
  OBVIOUS
<1>0. SemTypeOK'
  BY StepIsSemStep, SemStepTypes DEF LockInv
<1>1. CASE UNCHANGED vars
  <2>1. ClientTypes' /\ DonationsEndWithOwnership'
    BY <1>1, Zenon DEF vars, lockVars, condVars, semVars, LockInv, ClientTypes, DonationsEndWithOwnership
  <2>2. CallsAreInOrder'
    BY <1>1, ZenonT(30) DEF vars, lockVars, condVars, semVars, LockInv, CallsAreInOrder, InOrder, Running
  <2>3. OneInside'
    BY <1>1 DEF vars, lockVars, semVars, LockInv, OneInside, Inside
  <2>. QED BY <1>0, <2>1, <2>2, <2>3 DEF LockInv
<1>2. ASSUME NEW t \in Threads, NEW l \in Locks, Outside(t), Acquire(t, l), UNCHANGED condVars
      PROVE  LockInv'
  BY <1>0, <1>2, AcquireInv DEF Outside, condVars
<1>3. ASSUME NEW t \in Threads, NEW l \in Locks, ResumeAcquire(t, l), UNCHANGED condVars
      PROVE  LockInv'
  BY <1>0, <1>3, ResumeAcquireInv
<1>4. ASSUME NEW t \in Threads, NEW l \in Locks, EndAcquire(t, l)
      PROVE  LockInv'
  BY <1>0, <1>4, EndAcquireInv
<1>5. ASSUME NEW t \in Threads, NEW l \in Locks, Outside(t), Release(t, l), UNCHANGED condVars
      PROVE  LockInv'
  BY <1>0, <1>5, ReleaseInv DEF condVars
<1>6. ASSUME NEW t \in Threads, NEW c \in Conditions, Wait(t, c),
             \A l \in Locks : IsHeldBy(t, l) => l = LockOf[c]
      PROVE  LockInv'
  BY <1>0, <1>6, ReleaseInv, ConstantFacts, Zenon DEF Wait
<1>7. ASSUME NEW t \in Threads, NEW c \in Conditions, GoToSleep(t, c)
      PROVE  LockInv'
  BY <1>0, <1>7, WaitPInv, Zenon DEF GoToSleep, P
<1>8. ASSUME NEW t \in Threads, ResumeWait(t)
      PROVE  LockInv'
  <2>1. blockedOn[t] = aDormir[t] /\ TryP(t, aDormir[t]) /\ UNCHANGED <<lockVars, condVars>>
    BY <1>8 DEF ResumeWait, ResumeP
  <2>2. waitAt[t] = "sleeping"
    BY <2>1, AsleepInWait, Zenon DEF LockInv, CallsAreInOrder
  <2>3. waitAt' = [waitAt EXCEPT ![t] = "sleeping"]
    BY <2>1, <2>2, Zenon DEF condVars, LockInv, ClientTypes
  <2>. QED BY <1>0, <2>1, <2>2, <2>3, WaitPInv, Zenon DEF condVars
<1>9. ASSUME NEW t \in Threads, NEW c \in Conditions, Reacquire(t, c)
      PROVE  LockInv'
  <2>1. broadcasting[t] = None
    BY <1>9, ConstantFacts, Zenon DEF Reacquire, LockInv, CallsAreInOrder, InOrder
  <2>. QED BY <1>0, <1>9, <2>1, AcquireInv, ConstantFacts, Zenon DEF Reacquire
<1>10. ASSUME NEW t \in Threads, NEW c \in Conditions, Signal(t, c)
       PROVE  LockInv'
  BY <1>0, <1>10, SignalOneInv DEF Signal
<1>11. ASSUME NEW t \in Threads, NEW c \in Conditions, Broadcast(t, c), IsHeldBy(t, LockOf[c])
       PROVE  LockInv'
  BY <1>0, <1>11, BroadcastInv, Zenon DEF Broadcast
<1>12. ASSUME NEW t \in Threads, NEW c \in Conditions, BroadcastLoop(t, c)
       PROVE  LockInv'
  BY <1>0, <1>12, SignalOneInv, BroadcastInv, Zenon DEF BroadcastLoop
<1>. QED
  BY <1>1, <1>2, <1>3, <1>4, <1>5, <1>6, <1>7, <1>8, <1>9, <1>10, <1>11, <1>12, Zenon DEF Next

(* One thread at most is between the P and the V of a lock, the window in  *)
(* which lock.cc has taken the semaphore and not yet set `lockOwner`       *)
(* included, for any number of threads, locks and conditions.              *)
THEOREM LocksExclude == Safety => []MutualExclusion
<1>1. LockInv => MutualExclusion
  BY DEF LockInv, OneInside, MutualExclusion, Insiders
<1>. QED BY LockInitInv, LockNextInv, <1>1, PTL DEF Safety

(* Priority inheritance ends with the ownership that caused it: Release of *)
(* lock.cc takes back every donation, and Acquire gives to owners only.    *)
THEOREM DonationsEnd == Safety => []DonationsEndWithOwnership
<1>1. LockInv => DonationsEndWithOwnership
  BY DEF LockInv
<1>. QED BY LockInitInv, LockNextInv, <1>1, PTL DEF Safety

-----------------------------------------------------------------------------
(***************************************************************************)
(* The refinement of Monitor.  SleepersAreQueued is inductive with LockInv *)
(* and says that a thread in Wait whose semaphore has left the list goes   *)
(* on, and that only a Signal takes it from the list.                      *)
(***************************************************************************)

(* A thread keeps its Signal when a step leaves it alone. *)
LEMMA OthersKeepSignals ==
  ASSUME NEW u \in Threads, SignalIsKept(u),
         Due(u)' <=> Due(u), waitingOn'[u] = waitingOn[u],
         \A c \in Conditions : Queued(u, c)' <=> Queued(u, c),
         value'[aDormir[u]] = value[aDormir[u]]
  PROVE  SignalIsKept(u)'
<1>1. \A c \in Conditions : Queued(u, c)' => waitingOn'[u] = c /\ Due(u)'
  BY Zenon DEF SignalIsKept
<1>2. (Due(u)' /\ \A c \in Conditions : ~Queued(u, c)')
        <=> (Due(u) /\ \A c \in Conditions : ~Queued(u, c))
  BY Zenon
<1>. QED BY <1>1, <1>2, Zenon DEF SignalIsKept

LEMMA SleepInit == CondInit => SleepersAreQueued
<1> SUFFICES ASSUME CondInit PROVE SleepersAreQueued
  OBVIOUS
<1>1. \A c \in Conditions : colaProcesosDormidos[c] = <<>> /\ DOMAIN colaProcesosDormidos[c] = {}
  BY DEF CondInit
<1>2. \A c \in Conditions : IsInjective(colaProcesosDormidos[c]) /\ Range(colaProcesosDormidos[c]) = {}
  BY <1>1 DEF IsInjective, Range
<1>3. ASSUME NEW t \in Threads PROVE SignalIsKept(t)
  <2>1. ~Due(t)
    BY ConstantFacts DEF CondInit, LockInit, SemInit, Due
  <2>2. value[aDormir[t]] = 0
    BY ConditionConstants DEF CondInit, LockInit, SemInit
  <2>3. \A c \in Conditions : ~Queued(t, c)
    BY <1>2 DEF Queued
  <2>. QED BY <2>1, <2>2, <2>3 DEF SignalIsKept
<1>. QED BY <1>2, <1>3 DEF SleepersAreQueued

(* Steps that touch no list and no semaphore of a Wait. *)
LEMMA LockStepsKeepSignals ==
  ASSUME LockInv, SleepersAreQueued, NEW t \in Threads, NEW l \in Locks,
         colaProcesosDormidos' = colaProcesosDormidos,
         \/ Acquire(t, l) /\ waitingOn' = waitingOn
         \/ ResumeAcquire(t, l) /\ waitingOn' = waitingOn
         \/ EndAcquire(t, l)
         \/ Release(t, l) /\ waitingOn' = waitingOn,
         \/ waitAt' = waitAt
         \/ /\ waitAt[t] # "released"
            /\ \E a \in {"outside", "acquiring"} : waitAt' = [waitAt EXCEPT ![t] = a]
  PROVE  SleepersAreQueued'
<1> USE ConstantFacts DEF LockInv
<1>0. \/ /\ value' = value \/ value' = [value EXCEPT ![l] = @ + 1]
         /\ blockedOn' = blockedOn
      \/ TryP(t, l) /\ blockedOn[t] \in {None, l}
  <2>1. ASSUME Acquire(t, l) PROVE TryP(t, l) /\ blockedOn[t] \in {None, l}
    BY <2>1, Zenon DEF Acquire, P
  <2>2. ASSUME ResumeAcquire(t, l) PROVE TryP(t, l) /\ blockedOn[t] \in {None, l}
    BY <2>2, Zenon DEF ResumeAcquire, ResumeP
  <2>3. ASSUME EndAcquire(t, l) PROVE value' = value /\ blockedOn' = blockedOn
    BY <2>3, Zenon DEF EndAcquire, SetLockOwner, semVars
  <2>4. ASSUME Release(t, l) PROVE value' = [value EXCEPT ![l] = @ + 1] /\ blockedOn' = blockedOn
    BY <2>4, Zenon DEF Release, V
  <2>. QED BY <2>1, <2>2, <2>3, <2>4, Zenon
<1>a. \/ value' = value
      \/ value' = [value EXCEPT ![l] = @ + 1]
      \/ value' = [value EXCEPT ![l] = @ - 1]
  BY <1>0, Zenon DEF TryP
<1>1. ASSUME NEW u \in Threads PROVE value'[aDormir[u]] = value[aDormir[u]]
  <2>1. value \in [Semaphores -> Nat]
    BY Zenon DEF SemTypeOK
  <2>2. l # aDormir[u] /\ aDormir[u] \in Semaphores
    BY Zenon
  <2>. QED BY <1>a, <2>1, <2>2, ZenonT(30)
<1>2. \/ blockedOn' = blockedOn
      \/ /\ blockedOn[t] # aDormir[t]
         /\ \E b \in Locks \cup {None} : blockedOn' = [blockedOn EXCEPT ![t] = b]
  <2>1. l # aDormir[t] /\ None # aDormir[t]
    BY Zenon
  <2>. QED BY <1>0, <2>1, ZenonT(30) DEF TryP
<1>3. ASSUME NEW u \in Threads PROVE Due(u)' <=> Due(u)
  <2>1. waitAt[u]' = "released" <=> waitAt[u] = "released"
    BY Zenon DEF ClientTypes
  <2>2. blockedOn[u]' = aDormir[u] <=> blockedOn[u] = aDormir[u]
    BY <1>2 DEF SemTypeOK
  <2>. QED BY <2>1, <2>2, Zenon DEF Due
<1>4. ASSUME NEW u \in Threads, NEW c \in Conditions PROVE Queued(u, c)' <=> Queued(u, c)
  BY Zenon DEF Queued
<1>5. ASSUME NEW u \in Threads, waitingOn'[u] # waitingOn[u] PROVE ~Due(u)
  <2>1. u = t /\ granted[t] = l
    BY <1>5, Zenon DEF EndAcquire, SetLockOwner, ClientTypes
  <2>. QED BY <2>1, Zenon DEF CallsAreInOrder, InOrder, Running, Due
<1>6. ASSUME NEW u \in Threads PROVE SignalIsKept(u)'
  BY <1>1, <1>3, <1>4, <1>5, Zenon DEF SignalIsKept, SleepersAreQueued
<1>. QED BY <1>6, Zenon DEF SleepersAreQueued

(* Wait puts the semaphore of the thread, which is in no list, in one. *)
LEMMA WaitKeepsSignals ==
  ASSUME LockInv, SleepersAreQueued, NEW t \in Threads, NEW c \in Conditions, Wait(t, c)
  PROVE  SleepersAreQueued'
<1> USE ConstantFacts DEF LockInv
<1> DEFINE q == colaProcesosDormidos[c]
<1>1. /\ waitingOn[t] = None /\ blockedOn[t] = None
      /\ colaProcesosDormidos' = [colaProcesosDormidos EXCEPT ![c] = Append(q, aDormir[t])]
      /\ waitingOn' = [waitingOn EXCEPT ![t] = c]
      /\ waitAt' = [waitAt EXCEPT ![t] = "released"]
      /\ blockedOn' = blockedOn
      /\ value' = [value EXCEPT ![LockOf[c]] = @ + 1]
  BY Zenon DEF Wait, Outside, Running, Release, V
<1>2. /\ ~Due(t) /\ \A d \in Conditions : ~Queued(t, d)
      /\ value[aDormir[t]] = 0
  <2>1. ~Due(t)
    BY <1>1, Zenon DEF CallsAreInOrder, InOrder, Due
  <2>. QED BY <2>1, Zenon DEF SleepersAreQueued, SignalIsKept
<1>3. q \in WaitQueues /\ IsInjective(q) /\ aDormir[t] \notin Range(q)
  BY <1>2, Zenon DEF ClientTypes, WaitQueues, SleepersAreQueued, Queued
<1> HIDE DEF q
<1>4. IsInjective(Append(q, aDormir[t])) /\ Range(Append(q, aDormir[t])) = Range(q) \cup {aDormir[t]}
  BY <1>3, WaitQueueGrows, Zenon
<1>5. /\ colaProcesosDormidos'[c] = Append(q, aDormir[t])
      /\ \A d \in Conditions : d # c => colaProcesosDormidos'[d] = colaProcesosDormidos[d]
  BY <1>1, Zenon DEF ClientTypes
<1>6. \A d \in Conditions : IsInjective(colaProcesosDormidos'[d])
  BY <1>4, <1>5, Zenon DEF SleepersAreQueued
<1>7. \A u \in Threads, d \in Conditions : Queued(u, d)' <=> Queued(u, d) \/ (u = t /\ d = c)
  BY <1>4, <1>5, ZenonT(30) DEF Queued, q
<1>8. ASSUME NEW u \in Threads PROVE SignalIsKept(u)'
  <2>1. SignalIsKept(u) /\ value'[aDormir[u]] = value[aDormir[u]]
    BY <1>1, Zenon DEF SleepersAreQueued, SemTypeOK
  <2>2. CASE u # t
    <3>1. waitingOn'[u] = waitingOn[u] /\ (Due(u)' <=> Due(u))
      BY <1>1, <2>2, Zenon DEF Due, ClientTypes
    <3>. QED BY <1>7, <2>1, <2>2, <3>1, OthersKeepSignals, Zenon
  <2>3. CASE u = t
    <3>1. waitingOn'[t] = c /\ Due(t)'
      BY <1>1, Zenon DEF Due, ClientTypes
    <3>. QED BY <1>2, <1>7, <2>1, <2>3, <3>1, Zenon DEF SignalIsKept
  <2>. QED BY <2>2, <2>3, Zenon
<1>. QED BY <1>6, <1>8, Zenon DEF SleepersAreQueued

(* P consumes the unit of a Signal, or sleeps with the semaphore queued. *)
LEMMA WaitPKeepsSignals ==
  ASSUME LockInv, SleepersAreQueued, NEW t \in Threads, TryP(t, aDormir[t]),
         UNCHANGED <<colaProcesosDormidos, waitingOn>>, Due(t),
         waitAt' = [waitAt EXCEPT ![t] = "sleeping"]
  PROVE  SleepersAreQueued'
<1> USE ConstantFacts DEF LockInv
<1>1. ASSUME NEW u \in Threads, NEW d \in Conditions PROVE Queued(u, d)' <=> Queued(u, d)
  BY Zenon DEF Queued
<1>2. ASSUME NEW u \in Threads PROVE SignalIsKept(u)'
  <2>1. SignalIsKept(u) /\ SignalIsKept(t)
    BY Zenon DEF SleepersAreQueued
  <2>2. CASE u # t
    <3>1. value'[aDormir[u]] = value[aDormir[u]] /\ (Due(u)' <=> Due(u))
      BY <2>2, Zenon DEF TryP, Due, ClientTypes, SemTypeOK
    <3>. QED BY <1>1, <2>1, <3>1, OthersKeepSignals, Zenon
  <2>3. CASE u = t
    <3>1. waitAt'[t] = "sleeping"
      BY Zenon DEF ClientTypes
    <3>2. \/ value[aDormir[t]] = 1 /\ value'[aDormir[t]] = 0 /\ blockedOn'[t] = None
          \/ value[aDormir[t]] = 0 /\ value'[aDormir[t]] = 0 /\ blockedOn'[t] = aDormir[t]
      BY <2>1, PTakesTheUnit, Zenon DEF SignalIsKept
    <3>3. Due(t)' <=> value[aDormir[t]] = 0
      BY <2>1, <3>1, <3>2, UnitsDiffer, Zenon DEF Due
    <3>. QED BY <1>1, <2>1, <2>3, <3>2, <3>3, UnitsDiffer, Zenon DEF SignalIsKept
  <2>. QED BY <2>2, <2>3, Zenon
<1>. QED BY <1>2, Zenon DEF SleepersAreQueued

(* What Signal finds in the list: the semaphore of a thread in Wait that   *)
(* has no unit and is in no other list.                                    *)
LEMMA SignalledThread ==
  ASSUME LockInv, SleepersAreQueued, NEW c \in Conditions, colaProcesosDormidos[c] # <<>>
  PROVE  \E w \in Threads :
           /\ Head(colaProcesosDormidos[c]) = aDormir[w]
           /\ Tail(colaProcesosDormidos[c]) \in WaitQueues
           /\ IsInjective(Tail(colaProcesosDormidos[c]))
           /\ Range(Tail(colaProcesosDormidos[c])) = Range(colaProcesosDormidos[c]) \ {aDormir[w]}
           /\ waitingOn[w] = c /\ Due(w) /\ value[aDormir[w]] = 0
           /\ Queued(w, c) /\ \A d \in Conditions : Queued(w, d) => d = c
<1>1. PICK w \in Threads : Head(colaProcesosDormidos[c]) = aDormir[w]
  BY HeadIsASemaphore DEF LockInv
<1>2. /\ Tail(colaProcesosDormidos[c]) \in WaitQueues
      /\ IsInjective(Tail(colaProcesosDormidos[c]))
      /\ aDormir[w] \in Range(colaProcesosDormidos[c])
      /\ Range(Tail(colaProcesosDormidos[c])) = Range(colaProcesosDormidos[c]) \ {aDormir[w]}
  <2> DEFINE q == colaProcesosDormidos[c]
  <2>1. q \in WaitQueues /\ IsInjective(q)
    BY Zenon DEF LockInv, ClientTypes, SleepersAreQueued, WaitQueues
  <2>2. q # <<>>
    OBVIOUS
  <2> HIDE DEF q
  <2>3. /\ Tail(q) \in WaitQueues /\ IsInjective(Tail(q)) /\ Head(q) \in Range(q)
        /\ Range(Tail(q)) = Range(q) \ {Head(q)}
    BY <2>1, <2>2, TailDistinct DEF WaitQueues
  <2>. QED BY <1>1, <2>3, Zenon DEF q
<1>3. Queued(w, c) /\ SignalIsKept(w)
  BY <1>2, Zenon DEF Queued, SleepersAreQueued
<1>. QED BY <1>1, <1>2, <1>3, Zenon DEF SignalIsKept

LEMMA SignalOneKeepsSignals ==
  ASSUME LockInv, SleepersAreQueued, NEW c \in Conditions, SignalOne(c),
         UNCHANGED <<waitingOn, waitAt>>
  PROVE  SleepersAreQueued'
<1> USE ConstantFacts DEF LockInv
<1> DEFINE q == Tail(colaProcesosDormidos[c])
<1>1. PICK w \in Threads :
           /\ Head(colaProcesosDormidos[c]) = aDormir[w]
           /\ IsInjective(q)
           /\ Range(q) = Range(colaProcesosDormidos[c]) \ {aDormir[w]}
           /\ Due(w) /\ value[aDormir[w]] = 0
           /\ Queued(w, c) /\ \A d \in Conditions : Queued(w, d) => d = c
  BY SignalledThread, Zenon DEF SignalOne
<1>2. /\ value' = [value EXCEPT ![aDormir[w]] = @ + 1]
      /\ colaProcesosDormidos' = [colaProcesosDormidos EXCEPT ![c] = q]
      /\ blockedOn' = blockedOn
  BY <1>1, Zenon DEF SignalOne, V
<1> HIDE DEF q
<1>3. /\ colaProcesosDormidos'[c] = q
      /\ \A d \in Conditions : d # c => colaProcesosDormidos'[d] = colaProcesosDormidos[d]
  BY <1>2 DEF ClientTypes
<1>4. \A d \in Conditions : IsInjective(colaProcesosDormidos'[d])
  BY <1>1, <1>3, Zenon DEF SleepersAreQueued
<1>5. \A u \in Threads, d \in Conditions : Queued(u, d)' <=> Queued(u, d) /\ u # w
  BY <1>1, <1>3, Zenon DEF Queued
<1>6. ASSUME NEW u \in Threads PROVE SignalIsKept(u)'
  <2>1. SignalIsKept(u) /\ (Due(u)' <=> Due(u))
    BY <1>2, Zenon DEF SleepersAreQueued, Due
  <2>2. value'[aDormir[u]] = IF u = w THEN 1 ELSE value[aDormir[u]]
    <3>1. value \in [Semaphores -> Nat] /\ value[aDormir[w]] = 0
      BY <1>1, Zenon DEF SemTypeOK
    <3>2. value' = [value EXCEPT ![aDormir[w]] = @ + 1]
      BY <1>2, Zenon
    <3>. QED BY <3>1, <3>2
  <2>. QED BY <1>1, <1>5, <2>1, <2>2, Zenon DEF SignalIsKept
<1>. QED BY <1>4, <1>6, Zenon DEF SleepersAreQueued

LEMMA SleepNext ==
  ASSUME LockInv, SleepersAreQueued, [Next]_vars
  PROVE  SleepersAreQueued'
<1>1. ASSUME UNCHANGED <<value, blockedOn, colaProcesosDormidos, waitingOn, waitAt>>
      PROVE  SleepersAreQueued'
  BY <1>1, Zenon DEF SleepersAreQueued, SignalIsKept, Due, Queued
<1>2. ASSUME NEW t \in Threads, NEW l \in Locks, UNCHANGED condVars,
             Acquire(t, l) \/ ResumeAcquire(t, l) \/ Release(t, l)
      PROVE  SleepersAreQueued'
  BY <1>2, LockStepsKeepSignals DEF condVars
<1>3. ASSUME NEW t \in Threads, NEW l \in Locks, EndAcquire(t, l)
      PROVE  SleepersAreQueued'
  <2>1. granted[t] = l
    BY <1>3 DEF EndAcquire, SetLockOwner
  <2>2. waitAt[t] # "released"
    BY <2>1, ConstantFacts, Zenon DEF LockInv, CallsAreInOrder, InOrder, Running
  <2>. QED BY <1>3, <2>2, LockStepsKeepSignals, Zenon DEF EndAcquire
<1>4. ASSUME NEW t \in Threads, NEW c \in Conditions, Wait(t, c)
      PROVE  SleepersAreQueued'
  BY <1>4, WaitKeepsSignals
<1>5. ASSUME NEW t \in Threads, NEW c \in Conditions, GoToSleep(t, c)
      PROVE  SleepersAreQueued'
  BY <1>5, WaitPKeepsSignals, Zenon DEF GoToSleep, P, Due
<1>6. ASSUME NEW t \in Threads, NEW c \in Conditions, Reacquire(t, c)
      PROVE  SleepersAreQueued'
  BY <1>6, LockStepsKeepSignals, ConstantFacts, Zenon DEF Reacquire
<1>7. ASSUME NEW c \in Conditions, SignalOne(c), UNCHANGED <<waitingOn, waitAt>>
      PROVE  SleepersAreQueued'
  BY <1>7, SignalOneKeepsSignals
<1>8. ASSUME NEW t \in Threads, NEW c \in Conditions, Broadcast(t, c) \/ BroadcastLoop(t, c) \/ Signal(t, c)
      PROVE  SleepersAreQueued'
  BY <1>8, <1>1, <1>7, Zenon DEF Broadcast, BroadcastLoop, Signal, semVars
<1>9. ASSUME NEW t \in Threads, ResumeWait(t)
      PROVE  SleepersAreQueued'
  <2>1. blockedOn[t] = aDormir[t] /\ TryP(t, aDormir[t]) /\ UNCHANGED <<lockVars, condVars>>
    BY <1>9, Zenon DEF ResumeWait, ResumeP
  <2>2. waitAt[t] = "sleeping"
    BY <2>1, AsleepInWait, Zenon DEF LockInv, CallsAreInOrder
  <2>3. waitAt' = [waitAt EXCEPT ![t] = "sleeping"] /\ Due(t)
    BY <2>1, <2>2, Zenon DEF condVars, LockInv, ClientTypes, Due
  <2>. QED BY <2>1, <2>3, WaitPKeepsSignals, Zenon DEF condVars
<1>10. CASE UNCHANGED vars
  BY <1>1, <1>10 DEF vars, semVars, condVars
<1>. QED BY <1>2, <1>3, <1>4, <1>5, <1>6, <1>8, <1>9, <1>10, Zenon DEF Next

-----------------------------------------------------------------------------

(* The holder of the abstract lock is the thread inside. *)
HoldersAreInside ==
  \A l \in Locks :
    /\ HolderOf(l) \in Threads \cup {None}
    /\ \A t \in Threads : HolderOf(l) = t <=> Inside(t, l)

LEMMA HolderFacts == OneInside => HoldersAreInside
<1> SUFFICES ASSUME OneInside, NEW l \in Locks
             PROVE  /\ HolderOf(l) \in Threads \cup {None}
                    /\ \A t \in Threads : HolderOf(l) = t <=> Inside(t, l)
  BY DEF HoldersAreInside
<1>1. CASE Insiders(l) = {}
  BY <1>1, ConstantFacts, Zenon DEF HolderOf, Insiders
<1>2. CASE Insiders(l) # {}
  <2>1. HolderOf(l) = CHOOSE t \in Threads : Inside(t, l)
    BY <1>2 DEF HolderOf
  <2>2. \E t \in Threads : Inside(t, l)
    BY <1>2 DEF Insiders
  <2>3. HolderOf(l) \in Threads /\ Inside(HolderOf(l), l)
    BY <2>1, <2>2
  <2>. QED BY <2>3 DEF OneInside
<1>. QED BY <1>1, <1>2

(* The list of a condition, as a queue of threads. *)
ThreadsOf(q) == [i \in DOMAIN q |-> ThreadOf(q[i])]

LEMMA NoThreads == ThreadsOf(<<>>) = <<>>
BY DEF ThreadsOf

LEMMA ThreadOfSemaphore ==
  ASSUME NEW t \in Threads
  PROVE  ThreadOf(aDormir[t]) = t
BY ConstantFacts DEF ThreadOf

LEMMA QueueOfThreads ==
  ASSUME NEW q \in WaitQueues
  PROVE  /\ ThreadsOf(q) \in Seq(Threads)
         /\ Len(ThreadsOf(q)) = Len(q)
         /\ \A t \in Threads : t \in Range(ThreadsOf(q)) <=> aDormir[t] \in Range(q)
<1>1. DOMAIN q = 1 .. Len(q) /\ Len(q) \in Nat
  BY SeqLen DEF WaitQueues
<1>2. \A i \in 1 .. Len(q) : q[i] \in {aDormir[t] : t \in Threads}
  BY SeqLen DEF WaitQueues
<1>3. \A i \in 1 .. Len(q) : ThreadOf(q[i]) \in Threads /\ q[i] = aDormir[ThreadOf(q[i])]
  BY <1>2, ThreadOfSemaphore
<1>4. ThreadsOf(q) \in [1 .. Len(q) -> Threads]
  BY <1>1, <1>3 DEF ThreadsOf
<1>5. ThreadsOf(q) \in Seq(Threads) /\ Len(ThreadsOf(q)) = Len(q)
  <2>1. ThreadsOf(q) \in Seq(Threads)
    BY <1>1, <1>4, SeqOf
  <2>. QED BY <1>1, <1>4, <2>1, SeqLen
<1>6. ASSUME NEW t \in Threads PROVE t \in Range(ThreadsOf(q)) <=> aDormir[t] \in Range(q)
  BY <1>1, <1>3, ThreadOfSemaphore DEF ThreadsOf, Range
<1>. QED BY <1>5, <1>6

LEMMA AppendThread ==
  ASSUME NEW q \in WaitQueues, NEW t \in Threads
  PROVE  ThreadsOf(Append(q, aDormir[t])) = Append(ThreadsOf(q), t)
<1> DEFINE r == Append(q, aDormir[t])
           p == ThreadsOf(r)
           p2 == Append(ThreadsOf(q), t)
<1>1. /\ r \in WaitQueues /\ Len(r) = Len(q) + 1 /\ Len(q) \in Nat
      /\ \A i \in 1 .. Len(q) : r[i] = q[i]
      /\ r[Len(q) + 1] = aDormir[t]
  BY SeqAppend, SeqLen DEF WaitQueues
<1>2. p \in Seq(Threads) /\ Len(p) = Len(q) + 1
  BY <1>1, QueueOfThreads, Zenon
<1>3. /\ ThreadsOf(q) \in Seq(Threads) /\ Len(ThreadsOf(q)) = Len(q)
  BY QueueOfThreads
<1>4. /\ p2 \in Seq(Threads) /\ Len(p2) = Len(q) + 1
      /\ \A i \in 1 .. Len(q) : p2[i] = ThreadsOf(q)[i]
      /\ p2[Len(q) + 1] = t
  BY <1>3, SeqAppend
<1>5. DOMAIN r = 1 .. Len(q) + 1 /\ DOMAIN q = 1 .. Len(q)
  BY <1>1, SeqLen DEF WaitQueues
<1>6. \A i \in 1 .. Len(q) : p[i] = ThreadOf(q[i]) /\ ThreadsOf(q)[i] = ThreadOf(q[i])
  BY <1>1, <1>5 DEF ThreadsOf
<1>7. p[Len(q) + 1] = t
  BY <1>1, <1>5, ThreadOfSemaphore DEF ThreadsOf
<1> HIDE DEF p, p2, r
<1>8. \A i \in 1 .. Len(p) : p[i] = p2[i]
  BY <1>1, <1>2, <1>4, <1>6, <1>7
<1>9. p = p2
  BY <1>2, <1>4, <1>8, SeqEqual
<1>. QED BY <1>9 DEF p, p2, r

LEMMA TailThread ==
  ASSUME NEW q \in WaitQueues, q # <<>>, NEW w \in Threads, Head(q) = aDormir[w]
  PROVE  /\ ThreadsOf(q) # <<>>
         /\ Head(ThreadsOf(q)) = w
         /\ ThreadsOf(Tail(q)) = Tail(ThreadsOf(q))
<1> DEFINE r == Tail(q)
           p == ThreadsOf(r)
           p2 == Tail(ThreadsOf(q))
<1>1. /\ r \in WaitQueues /\ Len(r) = Len(q) - 1 /\ Len(q) \in Nat \ {0}
      /\ \A i \in 1 .. Len(r) : r[i] = q[i + 1]
      /\ DOMAIN q = 1 .. Len(q) /\ DOMAIN r = 1 .. Len(r) /\ Head(q) = q[1]
  BY SeqTail, SeqLen, SeqEmpty DEF WaitQueues
<1>2. ThreadsOf(q) \in Seq(Threads) /\ Len(ThreadsOf(q)) = Len(q) /\ ThreadsOf(q) # <<>>
  BY <1>1, QueueOfThreads, SeqEmpty
<1>3. /\ p2 \in Seq(Threads) /\ Len(p2) = Len(q) - 1
      /\ \A i \in 1 .. Len(p2) : p2[i] = ThreadsOf(q)[i + 1]
      /\ Head(ThreadsOf(q)) = ThreadsOf(q)[1]
  BY <1>2, SeqTail
<1>4. p \in Seq(Threads) /\ Len(p) = Len(q) - 1
  BY <1>1, QueueOfThreads, Zenon
<1>5. \A i \in 1 .. Len(q) : ThreadsOf(q)[i] = ThreadOf(q[i])
  BY <1>1 DEF ThreadsOf
<1>6. \A i \in 1 .. Len(r) : p[i] = ThreadOf(r[i])
  BY <1>1 DEF ThreadsOf
<1>7. Head(ThreadsOf(q)) = w
  BY <1>1, <1>3, <1>5, ThreadOfSemaphore
<1> HIDE DEF p, p2, r
<1>8. \A i \in 1 .. Len(p) : p[i] = p2[i]
  <2>1. ASSUME NEW i \in 1 .. Len(r)
        PROVE  p[i] = p2[i]
    <3>1. i + 1 \in 1 .. Len(q) /\ i \in 1 .. Len(p2)
      BY <1>1, <1>3
    <3>. QED BY <1>1, <1>3, <1>5, <1>6, <3>1, Zenon
  <2>. QED BY <1>1, <1>4, <2>1
<1>9. p = p2
  BY <1>3, <1>4, <1>8, SeqEqual
<1>. QED BY <1>2, <1>7, <1>9 DEF p, p2, r

-----------------------------------------------------------------------------

MesaInv == LockInv /\ SleepersAreQueued

Mesa == INSTANCE Monitor
          WITH holder <- [l \in Locks |-> HolderOf(l)],
               waiting <- [t \in Threads |-> WaitsForLock(t)],
               sleeping <- [c \in Conditions |->
                              [i \in DOMAIN colaProcesosDormidos[c] |->
                                 ThreadOf(colaProcesosDormidos[c][i])]]

(* A thread in no operation waits for no lock and is in no list. *)
LEMMA ActiveThread ==
  ASSUME MesaInv, NEW t \in Threads, blockedOn[t] = None, waitingOn[t] = None
  PROVE  Mesa!Active(t)
<1> USE ConstantFacts DEF MesaInv, LockInv
<1>1. WaitsForLock(t) = None
  BY Zenon DEF WaitsForLock
<1>2. ASSUME NEW c \in Conditions PROVE t \notin Range(ThreadsOf(colaProcesosDormidos[c]))
  <2>1. ~Queued(t, c)
    BY DEF SleepersAreQueued, SignalIsKept
  <2>2. colaProcesosDormidos[c] \in WaitQueues
    BY Zenon DEF ClientTypes, WaitQueues
  <2>. QED BY <2>1, <2>2, QueueOfThreads, Zenon DEF Queued
<1>. QED BY <1>1, <1>2, Zenon DEF Mesa!Active, ThreadsOf, Range, Mesa!Range

(* The lock a thread waits for stays when the step leaves it alone. *)
LEMMA OthersKeepWaiting ==
  ASSUME NEW u \in Threads, waitingOn'[u] = waitingOn[u],
         waitingOn[u] = None => (blockedOn'[u] = blockedOn[u]),
         \A c \in Conditions : Queued(u, c)' <=> Queued(u, c),
         \A l \in Locks : Inside(u, l)' <=> Inside(u, l),
         waitingOn[u] \in Conditions \cup {None}
  PROVE  WaitsForLock(u)' = WaitsForLock(u)
BY ConstantFacts, Zenon DEF WaitsForLock

(* The holder of a lock stays when the step leaves its insiders alone. *)
LEMMA OthersKeepHolding ==
  ASSUME OneInside, OneInside', NEW l \in Locks,
         \A u \in Threads : Inside(u, l)' <=> Inside(u, l)
  PROVE  HolderOf(l)' = HolderOf(l)
<1>1. HoldersAreInside
  BY HolderFacts
<1>2. OneInside' => HoldersAreInside'
  BY HolderFacts, PTL
<1>. QED BY <1>1, <1>2, ConstantFacts, Zenon DEF HoldersAreInside

(* The value of a lock's semaphore tells whether it has a holder. *)
LEMMA ValueIsHolder ==
  ASSUME OneInside, NEW l \in Locks
  PROVE  /\ value[l] > 0 => HolderOf(l) = None
         /\ value[l] = 0 => HolderOf(l) # None
<1>1. HoldersAreInside
  BY HolderFacts
<1>. QED BY <1>1, ConstantFacts DEF OneInside, HoldersAreInside

(* Acquire by a thread outside the operations: Take or Block. *)
LEMMA AcquireMaps ==
  ASSUME MesaInv, MesaInv', NEW t \in Threads, NEW l \in Locks,
         Outside(t), Acquire(t, l), UNCHANGED condVars
  PROVE  Mesa!Take(t, l) \/ Mesa!Block(t, l)
<1> USE ConstantFacts DEF MesaInv, LockInv
<1>0. /\ blockedOn[t] = None /\ granted[t] = None /\ waitingOn[t] = None
      /\ lockOwner[l] # t /\ lockOwner' = lockOwner
      /\ UNCHANGED <<colaProcesosDormidos, waitingOn>>
  BY Zenon DEF Acquire, Outside, Running, IsHeldBy, P, condVars
<1>1. Mesa!Active(t)
  BY <1>0, ActiveThread, Zenon
<1>2. HoldersAreInside /\ HoldersAreInside'
  <2>1. OneInside' => HoldersAreInside'
    BY HolderFacts, PTL
  <2>. QED BY <2>1, HolderFacts, Zenon
<1>3. \A u \in Threads, c \in Conditions : Queued(u, c)' <=> Queued(u, c)
  BY <1>0, Zenon DEF Queued
<1>4. CASE /\ value[l] > 0
           /\ blockedOn' = [blockedOn EXCEPT ![t] = None]
           /\ granted' = [granted EXCEPT ![t] = l]
  <2>1. \A u \in Threads, k \in Locks : Inside(u, k)' <=> Inside(u, k) \/ (u = t /\ k = l)
    BY <1>0, <1>4, Zenon DEF Inside, ClientTypes
  <2>2. HolderOf(l) = None
    BY <1>4, ValueIsHolder, Zenon
  <2>3. HolderOf(l)' = t /\ \A k \in Locks : k # l => HolderOf(k)' = HolderOf(k)
    BY <1>2, <2>1, OthersKeepHolding, Zenon DEF HoldersAreInside
  <2>4. ASSUME NEW u \in Threads PROVE WaitsForLock(u)' = WaitsForLock(u)
    <3>1. CASE u = t
      BY <1>0, <1>4, <3>1, Zenon DEF WaitsForLock, SemTypeOK
    <3>2. CASE u # t
      <4>1. blockedOn'[u] = blockedOn[u] /\ waitingOn[u] \in Conditions \cup {None}
        BY <1>4, <3>2, Zenon DEF SemTypeOK, ClientTypes
      <4>. QED BY <1>0, <1>3, <2>1, <3>2, <4>1, OthersKeepWaiting, ZenonT(30)
    <3>. QED BY <3>1, <3>2, Zenon
  <2>5. Mesa!Take(t, l)
    BY <1>0, <1>1, <2>2, <2>3, <2>4, Zenon DEF Mesa!Take
  <2>. QED BY <2>5, Zenon
<1>5. CASE /\ value[l] = 0
           /\ blockedOn' = [blockedOn EXCEPT ![t] = l]
           /\ granted' = granted
  <2>1. \A u \in Threads, k \in Locks : Inside(u, k)' <=> Inside(u, k)
    BY <1>0, <1>5, Zenon DEF Inside
  <2>2. HolderOf(l) \notin {None, t}
    <3>1. ~Inside(t, l)
      BY <1>0, Zenon DEF Inside
    <3>. QED BY <1>2, <1>5, <3>1, ValueIsHolder, Zenon DEF HoldersAreInside
  <2>3. \A k \in Locks : HolderOf(k)' = HolderOf(k)
    BY <2>1, OthersKeepHolding, Zenon
  <2>4. ASSUME NEW u \in Threads
        PROVE  WaitsForLock(u)' = IF u = t THEN l ELSE WaitsForLock(u)
    <3>1. CASE u = t
      BY <1>0, <1>5, <3>1, Zenon DEF WaitsForLock, SemTypeOK
    <3>2. CASE u # t
      <4>1. blockedOn'[u] = blockedOn[u] /\ waitingOn[u] \in Conditions \cup {None}
        BY <1>5, <3>2, Zenon DEF SemTypeOK, ClientTypes
      <4>. QED BY <1>0, <1>3, <2>1, <3>2, <4>1, OthersKeepWaiting, Zenon
    <3>. QED BY <3>1, <3>2, Zenon
  <2>5. Mesa!Block(t, l)
    BY <1>0, <1>1, <2>2, <2>3, <2>4, Zenon DEF Mesa!Block
  <2>. QED BY <2>5, Zenon
<1>6. TryP(t, l) /\ granted' = IF value[l] > 0 THEN [granted EXCEPT ![t] = l] ELSE granted
  BY Zenon DEF Acquire, P, NoteReturnOfP
<1>7. ~(0 > 0)
  OBVIOUS
<1>. QED BY <1>4, <1>5, <1>6, <1>7, Zenon DEF TryP

(* What the abstract monitor does not see. *)
LEMMA StutterMaps ==
  ASSUME OneInside, OneInside', colaProcesosDormidos' = colaProcesosDormidos,
         \A u \in Threads, k \in Locks : Inside(u, k)' <=> Inside(u, k),
         \A u \in Threads : WaitsForLock(u)' = WaitsForLock(u)
  PROVE  UNCHANGED Mesa!vars
<1>1. \A k \in Locks : HolderOf(k)' = HolderOf(k)
  BY OthersKeepHolding
<1>. QED BY <1>1 DEF Mesa!vars

(* The Grant of the monitor: what the lock and the thread become. *)
LEMMA GrantStep ==
  ASSUME NEW t \in Threads, NEW l \in Locks, WaitsForLock(t) = l, HolderOf(l) = None,
         [k \in Locks |-> HolderOf(k)]' = [[k \in Locks |-> HolderOf(k)] EXCEPT ![l] = t],
         [u \in Threads |-> WaitsForLock(u)]' =
           [[u \in Threads |-> WaitsForLock(u)] EXCEPT ![t] = None],
         colaProcesosDormidos' = colaProcesosDormidos
  PROVE  Mesa!Grant(t, l)
BY DEF Mesa!Grant

(* A P on the semaphore of a lock that the thread already waits for: Grant *)
(* or nothing.                                                             *)
LEMMA GrantMaps ==
  ASSUME MesaInv, MesaInv', NEW t \in Threads, NEW l \in Locks,
         WaitsForLock(t) = l, granted[t] = None,
         waitingOn[t] = None \/ l = LockOf[waitingOn[t]],
         UNCHANGED <<lockOwner, colaProcesosDormidos, waitingOn>>,
         \/ /\ value[l] > 0
            /\ blockedOn' = [blockedOn EXCEPT ![t] = None]
            /\ granted' = [granted EXCEPT ![t] = l]
         \/ /\ blockedOn' = [blockedOn EXCEPT ![t] = l]
            /\ granted' = granted
  PROVE  Mesa!Grant(t, l) \/ UNCHANGED Mesa!vars
<1> USE ConstantFacts DEF MesaInv, LockInv
<1>1. HoldersAreInside /\ HoldersAreInside'
  <2>1. OneInside' => HoldersAreInside'
    BY HolderFacts, PTL
  <2>. QED BY <2>1, HolderFacts, Zenon
<1>2. \A u \in Threads, c \in Conditions : Queued(u, c)' <=> Queued(u, c)
  BY Zenon DEF Queued
<1>3. \A u \in Threads : waitingOn[u] \in Conditions \cup {None}
  BY Zenon DEF ClientTypes
<1>4. CASE /\ value[l] > 0
           /\ blockedOn' = [blockedOn EXCEPT ![t] = None]
           /\ granted' = [granted EXCEPT ![t] = l]
  <2>1. \A u \in Threads, k \in Locks : Inside(u, k)' <=> Inside(u, k) \/ (u = t /\ k = l)
    BY <1>4, ZenonT(30) DEF Inside, ClientTypes
  <2>2. HolderOf(l) = None
    BY <1>4, ValueIsHolder, Zenon
  <2>3. HolderOf(l)' = t /\ \A k \in Locks : k # l => HolderOf(k)' = HolderOf(k)
    BY <1>1, <2>1, OthersKeepHolding, Zenon DEF HoldersAreInside
  <2>4. ASSUME NEW u \in Threads
        PROVE  WaitsForLock(u)' = IF u = t THEN None ELSE WaitsForLock(u)
    <3>1. CASE u = t
      BY <1>4, <2>1, <3>1, Zenon DEF WaitsForLock, SemTypeOK
    <3>2. CASE u # t
      <4>1. blockedOn'[u] = blockedOn[u]
        BY <1>4, <3>2, Zenon DEF SemTypeOK
      <4>. QED BY <1>2, <1>3, <2>1, <3>2, <4>1, OthersKeepWaiting, Zenon
    <3>. QED BY <3>1, <3>2, Zenon
  <2>5. Mesa!Grant(t, l)
    <3>1. [k \in Locks |-> HolderOf(k)]' = [[k \in Locks |-> HolderOf(k)] EXCEPT ![l] = t]
      BY <2>3, Zenon
    <3>2. [u \in Threads |-> WaitsForLock(u)]' =
            [[u \in Threads |-> WaitsForLock(u)] EXCEPT ![t] = None]
      BY <2>4, Zenon
    <3>. QED BY <2>2, <3>1, <3>2, GrantStep, Zenon
  <2>. QED BY <2>5, Zenon
<1>5. CASE /\ blockedOn' = [blockedOn EXCEPT ![t] = l]
           /\ granted' = granted
  <2>1. \A u \in Threads, k \in Locks : Inside(u, k)' <=> Inside(u, k)
    BY <1>5, Zenon DEF Inside
  <2>2. ASSUME NEW u \in Threads PROVE WaitsForLock(u)' = WaitsForLock(u)
    <3>1. CASE u = t /\ waitingOn[t] = None
      BY <1>5, <3>1, Zenon DEF WaitsForLock, SemTypeOK
    <3>2. CASE u # t \/ waitingOn[u] # None
      <4>1. waitingOn[u] = None => blockedOn'[u] = blockedOn[u]
        BY <1>5, <3>2, Zenon DEF SemTypeOK
      <4>. QED BY <1>2, <1>3, <2>1, <4>1, OthersKeepWaiting, Zenon
    <3>. QED BY <3>1, <3>2, Zenon
  <2>. QED BY <2>1, <2>2, StutterMaps, Zenon
<1>. QED BY <1>4, <1>5, Zenon

LEMMA ResumeAcquireMaps ==
  ASSUME MesaInv, MesaInv', NEW t \in Threads, NEW l \in Locks,
         ResumeAcquire(t, l), UNCHANGED condVars
  PROVE  Mesa!Grant(t, l) \/ UNCHANGED Mesa!vars
<1> USE ConstantFacts DEF MesaInv, LockInv
<1>1. blockedOn[t] = l /\ InOrder(t) /\ SignalIsKept(t)
  BY Zenon DEF ResumeAcquire, ResumeP, CallsAreInOrder, SleepersAreQueued
<1>2. granted[t] = None
  BY <1>1, Zenon DEF InOrder
<1>3. \/ waitingOn[t] = None
      \/ waitingOn[t] \in Conditions /\ waitAt[t] = "acquiring" /\ l = LockOf[waitingOn[t]]
  BY <1>1, <1>2, Zenon DEF InOrder, Running, ClientTypes
<1>4. waitingOn[t] # None => ~Queued(t, waitingOn[t]) /\ ~Inside(t, l)
  BY <1>1, <1>2, <1>3, Zenon DEF InOrder, SignalIsKept, Due, Inside
<1>5. WaitsForLock(t) = l
  BY <1>1, <1>3, <1>4, Zenon DEF WaitsForLock
<1>6. UNCHANGED <<lockOwner, colaProcesosDormidos, waitingOn>>
  BY Zenon DEF ResumeAcquire, condVars
<1>7. \/ /\ value[l] > 0
         /\ blockedOn' = [blockedOn EXCEPT ![t] = None]
         /\ granted' = [granted EXCEPT ![t] = l]
      \/ /\ blockedOn' = [blockedOn EXCEPT ![t] = l]
         /\ granted' = granted
  <2>1. TryP(t, l) /\ NoteReturnOfP(t, l)
    BY Zenon DEF ResumeAcquire, ResumeP
  <2>. QED BY <2>1, PIsNoted, Zenon
<1>. QED BY <1>2, <1>3, <1>5, <1>6, <1>7, GrantMaps, Zenon

LEMMA ReacquireMaps ==
  ASSUME MesaInv, MesaInv', NEW t \in Threads, NEW c \in Conditions, Reacquire(t, c)
  PROVE  Mesa!Grant(t, LockOf[c]) \/ UNCHANGED Mesa!vars
<1> USE ConstantFacts DEF MesaInv, LockInv
<1>1. /\ waitingOn[t] = c /\ waitAt[t] = "sleeping"
      /\ blockedOn[t] = None /\ granted[t] = None
      /\ InOrder(t) /\ SignalIsKept(t)
  BY Zenon DEF Reacquire, Acquire, Running, CallsAreInOrder, SleepersAreQueued
<1>2. ~Queued(t, c) /\ ~Inside(t, LockOf[c])
  BY <1>1, Zenon DEF InOrder, SignalIsKept, Due, Inside
<1>3. WaitsForLock(t) = LockOf[c]
  BY <1>1, <1>2, Zenon DEF WaitsForLock
<1>4. UNCHANGED <<lockOwner, colaProcesosDormidos, waitingOn>>
  BY Zenon DEF Reacquire, Acquire
<1>5. \/ /\ value[LockOf[c]] > 0
         /\ blockedOn' = [blockedOn EXCEPT ![t] = None]
         /\ granted' = [granted EXCEPT ![t] = LockOf[c]]
      \/ /\ blockedOn' = [blockedOn EXCEPT ![t] = LockOf[c]]
         /\ granted' = granted
  <2>1. P(t, LockOf[c]) /\ NoteReturnOfP(t, LockOf[c])
    BY Zenon DEF Reacquire, Acquire
  <2>. QED BY <2>1, PIsNoted, Zenon DEF P
<1>. QED BY <1>1, <1>3, <1>4, <1>5, GrantMaps, Zenon

LEMMA OwnerIsInside ==
  ASSUME OneInside, NEW t \in Threads, NEW l \in Locks, Inside(t, l),
         lockOwner[l] \in Threads \cup {None}
  PROVE  lockOwner[l] \in {None, t}
BY Zenon DEF OneInside, Inside

(* The Wait whose Acquire has got the lock. *)
LEMMA GrantedInWait ==
  ASSUME ClientTypes, NEW t \in Threads, InOrder(t), NEW l \in Locks, granted[t] = l
  PROVE  /\ blockedOn[t] = None
         /\ waitingOn[t] # None => waitAt[t] = "acquiring" /\ l = LockOf[waitingOn[t]]
<1>1. blockedOn[t] = None /\ l # None
  BY ConstantFacts, Zenon DEF InOrder
<1>2. waitAt[t] \in {"outside", "released", "sleeping", "acquiring"}
  BY Zenon DEF ClientTypes
<1>3. ASSUME waitingOn[t] # None PROVE waitAt[t] = "acquiring"
  BY <1>1, <1>2, <1>3, Zenon DEF InOrder, Running
<1>4. ASSUME waitingOn[t] # None PROVE l = LockOf[waitingOn[t]]
  <2>1. LockOf[waitingOn[t]] # None
    BY <1>4, ConstantFacts DEF ClientTypes
  <2>. QED BY <1>1, <1>3, <1>4, <2>1, Zenon DEF InOrder
<1>. QED BY <1>1, <1>3, <1>4, Zenon

LEMMA EndAcquireMaps ==
  ASSUME MesaInv, MesaInv', NEW t \in Threads, NEW l \in Locks, EndAcquire(t, l)
  PROVE  UNCHANGED Mesa!vars
<1> USE ConstantFacts DEF MesaInv, LockInv
<1>1. /\ granted[t] = l
      /\ granted' = [granted EXCEPT ![t] = None]
      /\ lockOwner' = [lockOwner EXCEPT ![l] = t]
      /\ waitingOn' = [waitingOn EXCEPT ![t] = None]
      /\ UNCHANGED <<blockedOn, colaProcesosDormidos>>
  BY Zenon DEF EndAcquire, SetLockOwner, semVars
<1>2. lockOwner[l] = None \/ lockOwner[l] = t
  <2>1. Inside(t, l) /\ lockOwner[l] \in Threads \cup {None}
    BY <1>1, Zenon DEF Inside, ClientTypes
  <2>. QED BY <2>1, OwnerIsInside, Zenon
<1>3. \A u \in Threads, k \in Locks : Inside(u, k)' <=> Inside(u, k)
  <2> SUFFICES ASSUME NEW u \in Threads, NEW k \in Locks PROVE Inside(u, k)' <=> Inside(u, k)
    BY Zenon
  <2>0. t # None /\ l # None /\ k # None
    BY ConstantFacts, Zenon
  <2>1. /\ granted'[u] = IF u = t THEN None ELSE granted[u]
        /\ lockOwner'[k] = IF k = l THEN t ELSE lockOwner[k]
    BY <1>1, Zenon DEF ClientTypes
  <2>2. CASE u = t
    <3>1. CASE k = l
      BY <1>1, <2>1, <2>2, <3>1, Zenon DEF Inside
    <3>2. CASE k # l
      <4>1. granted[u] = l /\ granted'[u] = None /\ lockOwner'[k] = lockOwner[k]
        BY <1>1, <2>1, <2>2, <3>2, Zenon
      <4>. QED BY <2>0, <3>2, <4>1, Zenon DEF Inside
    <3>. QED BY <3>1, <3>2, Zenon
  <2>3. CASE u # t
    BY <1>2, <2>0, <2>1, <2>3, Zenon DEF Inside
  <2>. QED BY <2>2, <2>3, Zenon
<1>4. ASSUME NEW u \in Threads PROVE WaitsForLock(u)' = WaitsForLock(u)
  <2>1. CASE u # t
    <3>1. waitingOn'[u] = waitingOn[u] /\ waitingOn[u] \in Conditions \cup {None}
      BY <1>1, <2>1, ZenonT(30) DEF ClientTypes
    <3>2. \A c \in Conditions : Queued(u, c)' <=> Queued(u, c)
      BY <1>1, Zenon DEF Queued
    <3>. QED BY <1>1, <1>3, <3>1, <3>2, OthersKeepWaiting, Zenon
  <2>2. CASE u = t
    <3>1. InOrder(t)
      BY Zenon DEF CallsAreInOrder
    <3>3. /\ blockedOn[t] = None
          /\ waitingOn[t] # None => waitAt[t] = "acquiring" /\ l = LockOf[waitingOn[t]]
      BY <1>1, <3>1, GrantedInWait, Zenon
    <3>4. WaitsForLock(t) = None
      BY <1>1, <3>3, Zenon DEF WaitsForLock, Inside
    <3>5. waitingOn'[t] = None /\ blockedOn'[t] = None
      BY <1>1, <3>3, ZenonT(30) DEF ClientTypes
    <3>6. WaitsForLock(t)' = None
      BY <3>5, Zenon DEF WaitsForLock
    <3>. QED BY <2>2, <3>4, <3>6, Zenon
  <2>. QED BY <2>1, <2>2, Zenon
<1>. QED BY <1>1, <1>3, <1>4, StutterMaps, Zenon

(* Release frees the abstract lock, whether Wait calls it or not. *)
LEMMA ReleaseFrees ==
  ASSUME MesaInv, MesaInv', NEW t \in Threads, NEW l \in Locks, Outside(t), Release(t, l)
  PROVE  /\ HolderOf(l) = t /\ HolderOf(l)' = None
         /\ \A k \in Locks : k # l => HolderOf(k)' = HolderOf(k)
         /\ \A u \in Threads, k \in Locks : Inside(u, k)' <=> Inside(u, k) /\ k # l
         /\ Mesa!Active(t)
         /\ blockedOn[t] = None /\ waitingOn[t] = None /\ blockedOn' = blockedOn
<1> USE ConstantFacts DEF MesaInv, LockInv
<1>1. /\ lockOwner[l] = t
      /\ blockedOn[t] = None /\ granted[t] = None /\ waitingOn[t] = None
      /\ lockOwner' = [lockOwner EXCEPT ![l] = None]
      /\ UNCHANGED <<blockedOn, granted>>
  BY Zenon DEF Outside, Running, Release, IsHeldBy, V
<1>2. HoldersAreInside /\ HoldersAreInside'
  <2>1. OneInside' => HoldersAreInside'
    BY HolderFacts, PTL
  <2>. QED BY <2>1, HolderFacts, Zenon
<1>3. \A u \in Threads : Inside(u, l) => u = t
  BY <1>1, Zenon DEF OneInside, Inside
<1>4. \A u \in Threads, k \in Locks : Inside(u, k)' <=> Inside(u, k) /\ k # l
  <2>1. \A k \in Locks : lockOwner'[k] = IF k = l THEN None ELSE lockOwner[k]
    BY <1>1, ZenonT(30) DEF ClientTypes
  <2>2. \A u \in Threads : u # None /\ (granted[u] = l => u = t)
    BY <1>3, Zenon DEF Inside
  <2>3. granted' = granted /\ granted[t] # l
    BY <1>1, Zenon
  <2>. QED BY <2>1, <2>2, <2>3, ZenonT(30) DEF Inside
<1>5. HolderOf(l) = t /\ HolderOf(l)' = None
  BY <1>1, <1>2, <1>4, ZenonT(30) DEF HoldersAreInside, Inside
<1>6. \A k \in Locks : k # l => HolderOf(k)' = HolderOf(k)
  BY <1>4, OthersKeepHolding, Zenon
<1>. QED BY <1>1, <1>4, <1>5, <1>6, ActiveThread, Zenon

(* A thread other than the caller does not notice a Release: who waits in  *)
(* Wait and is awake is not inside.                                        *)
LEMMA ReleaseIsUnnoticed ==
  ASSUME MesaInv, MesaInv', NEW t \in Threads, NEW l \in Locks, Outside(t), Release(t, l),
         NEW u \in Threads, waitingOn'[u] = waitingOn[u],
         \A c \in Conditions : Queued(u, c)' <=> Queued(u, c)
  PROVE  WaitsForLock(u)' = WaitsForLock(u)
<1> USE ConstantFacts DEF MesaInv, LockInv
<1>1. /\ \A k \in Locks : Inside(u, k)' <=> Inside(u, k) /\ k # l
      /\ waitingOn[t] = None /\ blockedOn' = blockedOn
      /\ HolderOf(l) = t
  BY ReleaseFrees, Zenon
<1>2. CASE waitingOn[u] = None
  BY <1>1, <1>2, Zenon DEF WaitsForLock
<1>3. CASE waitingOn[u] # None
  <2>1. u # t /\ waitingOn[u] \in Conditions
    BY <1>1, <1>3, Zenon DEF ClientTypes
  <2>2. ~Inside(u, l)
    BY <1>1, <2>1, HolderFacts, Zenon DEF HoldersAreInside
  <2>. QED BY <1>1, <1>3, <2>1, <2>2, Zenon DEF WaitsForLock
<1>. QED BY <1>2, <1>3, ZenonT(30)

LEMMA ReleaseMaps ==
  ASSUME MesaInv, MesaInv', NEW t \in Threads, NEW l \in Locks,
         Outside(t), Release(t, l), UNCHANGED condVars
  PROVE  Mesa!Release(t, l)
<1>1. colaProcesosDormidos' = colaProcesosDormidos /\ waitingOn' = waitingOn
  BY DEF condVars
<1>2. \A u \in Threads : WaitsForLock(u)' = WaitsForLock(u)
  BY <1>1, ReleaseIsUnnoticed, Zenon DEF Queued
<1>. QED BY <1>1, <1>2, ReleaseFrees, Zenon DEF Mesa!Release

(* Wait's Release, with the semaphore queued before it, is the abstract    *)
(* Wait: from here on a Signal finds the thread.                           *)
LEMMA WaitMaps ==
  ASSUME MesaInv, MesaInv', NEW t \in Threads, NEW c \in Conditions, Wait(t, c)
  PROVE  Mesa!Wait(t, c)
<1> USE ConstantFacts
<1> DEFINE q == colaProcesosDormidos[c]
           l == LockOf[c]
<1>1. /\ Outside(t) /\ Release(t, l) /\ l \in Locks
      /\ colaProcesosDormidos' = [colaProcesosDormidos EXCEPT ![c] = Append(q, aDormir[t])]
      /\ waitingOn' = [waitingOn EXCEPT ![t] = c]
  BY Zenon DEF Wait
<1> HIDE DEF l
<1>2. /\ HolderOf(l) = t /\ HolderOf(l)' = None
      /\ \A k \in Locks : k # l => HolderOf(k)' = HolderOf(k)
      /\ Mesa!Active(t) /\ blockedOn[t] = None /\ waitingOn[t] = None
  BY <1>1, ReleaseFrees, Zenon
<1>3. q \in WaitQueues /\ colaProcesosDormidos \in [Conditions -> WaitQueues]
  BY Zenon DEF MesaInv, LockInv, ClientTypes, WaitQueues
<1>4. /\ colaProcesosDormidos'[c] = Append(q, aDormir[t])
      /\ \A d \in Conditions : d # c => colaProcesosDormidos'[d] = colaProcesosDormidos[d]
  BY <1>1, <1>3, Zenon
<1>5. ThreadsOf(Append(q, aDormir[t])) = Append(ThreadsOf(q), t)
  BY <1>3, AppendThread, Zenon
<1>6. IsInjective(q) /\ aDormir[t] \notin Range(q)
  <2>1. SignalIsKept(t) /\ IsInjective(q)
    BY Zenon DEF MesaInv, SleepersAreQueued
  <2>2. waitingOn[t] # c
    BY <1>2, Zenon
  <2>. QED BY <2>1, <2>2, Zenon DEF SignalIsKept, Queued
<1>7. Range(Append(q, aDormir[t])) = Range(q) \cup {aDormir[t]}
  BY <1>3, <1>6, WaitQueueGrows, Zenon
<1> HIDE DEF q
<1>8. \A u \in Threads, d \in Conditions : Queued(u, d)' <=> Queued(u, d) \/ (u = t /\ d = c)
  BY <1>4, <1>7, ZenonT(30) DEF Queued, q
<1>9. ASSUME NEW u \in Threads PROVE WaitsForLock(u)' = WaitsForLock(u)
  <2>1. CASE u # t
    <3>1. waitingOn'[u] = waitingOn[u]
      BY <1>1, <2>1, Zenon DEF MesaInv, LockInv, ClientTypes
    <3>. QED BY <1>1, <1>8, <2>1, <3>1, ReleaseIsUnnoticed, Zenon
  <2>2. CASE u = t
    <3>1. waitingOn'[t] = c
      BY <1>1, Zenon DEF MesaInv, LockInv, ClientTypes
    <3>2. WaitsForLock(t)' = None
      BY <1>8, <3>1, Zenon DEF WaitsForLock
    <3>3. WaitsForLock(t) = None
      BY <1>2, Zenon DEF WaitsForLock
    <3>. QED BY <2>2, <3>2, <3>3, Zenon
  <2>. QED BY <2>1, <2>2, Zenon
<1>10. [d \in Conditions |-> ThreadsOf(colaProcesosDormidos[d])]' =
         [[d \in Conditions |-> ThreadsOf(colaProcesosDormidos[d])] EXCEPT ![c] = Append(@, t)]
  BY <1>4, <1>5, ZenonT(30) DEF q
<1>11. [k \in Locks |-> HolderOf(k)]' = [[k \in Locks |-> HolderOf(k)] EXCEPT ![l] = None]
  BY <1>2, Zenon
<1>12. [u \in Threads |-> WaitsForLock(u)]' = [u \in Threads |-> WaitsForLock(u)]
  BY <1>9, Zenon
<1>. QED BY <1>1, <1>2, <1>10, <1>11, <1>12, Zenon DEF Mesa!Wait, ThreadsOf, l

(* A P on the semaphore of the Wait, and the beginning or the end of a     *)
(* Broadcast, are not seen.                                                *)
LEMMA UnseenMaps ==
  ASSUME MesaInv, MesaInv', UNCHANGED <<lockVars, colaProcesosDormidos, waitingOn>>,
         \A u \in Threads : waitingOn[u] = None => blockedOn'[u] = blockedOn[u]
  PROVE  UNCHANGED Mesa!vars
<1>1. \A u \in Threads, k \in Locks : Inside(u, k)' <=> Inside(u, k)
  BY Zenon DEF Inside, lockVars
<1>2. \A u \in Threads, c \in Conditions : Queued(u, c)' <=> Queued(u, c)
  BY DEF Queued
<1>3. ASSUME NEW u \in Threads PROVE WaitsForLock(u)' = WaitsForLock(u)
  <2>1. waitingOn[u] \in Conditions \cup {None}
    BY Zenon DEF MesaInv, LockInv, ClientTypes
  <2>. QED BY <1>1, <1>2, <2>1, OthersKeepWaiting, Zenon
<1>4. OneInside /\ OneInside'
  BY DEF MesaInv, LockInv
<1>. QED BY <1>1, <1>3, <1>4, StutterMaps, Zenon

(* Signal takes the thread that has slept longest from the list; from then *)
(* on it waits for the lock.                                               *)
LEMMA SignalMaps ==
  ASSUME MesaInv, MesaInv', NEW t \in Threads, NEW c \in Conditions, SignalOne(c),
         UNCHANGED <<waitingOn, waitAt>>, IsHeldBy(t, LockOf[c]),
         Running(t), waitingOn[t] = None
  PROVE  Mesa!Signal(t, c)
<1> USE ConstantFacts
<1> DEFINE q == colaProcesosDormidos[c]
<1>1. q # <<>> /\ q \in WaitQueues /\ colaProcesosDormidos \in [Conditions -> WaitQueues]
  BY Zenon DEF SignalOne, MesaInv, LockInv, ClientTypes, WaitQueues
<1>2. PICK w \in Threads :
           /\ Head(q) = aDormir[w]
           /\ Range(Tail(q)) = Range(q) \ {aDormir[w]}
           /\ waitingOn[w] = c /\ Due(w)
           /\ Queued(w, c) /\ \A d \in Conditions : Queued(w, d) => d = c
  BY <1>1, SignalledThread, Zenon DEF MesaInv
<1>3. /\ colaProcesosDormidos' = [colaProcesosDormidos EXCEPT ![c] = Tail(q)]
      /\ UNCHANGED <<blockedOn, lockOwner, granted>>
  BY Zenon DEF SignalOne, V, lockVars
<1>4. /\ ThreadsOf(q) # <<>> /\ Head(ThreadsOf(q)) = w
      /\ ThreadsOf(Tail(q)) = Tail(ThreadsOf(q))
  BY <1>1, <1>2, TailThread, Zenon
<1>5. /\ colaProcesosDormidos'[c] = Tail(q)
      /\ \A d \in Conditions : d # c => colaProcesosDormidos'[d] = colaProcesosDormidos[d]
  BY <1>1, <1>3, Zenon
<1>6. \A u \in Threads, d \in Conditions : Queued(u, d)' <=> Queued(u, d) /\ u # w
  BY <1>2, <1>5, Zenon DEF Queued
<1>7. \A u \in Threads, k \in Locks : Inside(u, k)' <=> Inside(u, k)
  BY <1>3, Zenon DEF Inside
<1>8. \A k \in Locks : HolderOf(k)' = HolderOf(k)
  BY <1>7, OthersKeepHolding, Zenon DEF MesaInv, LockInv
<1>9. HolderOf(LockOf[c]) = t
  <2>1. HoldersAreInside /\ Inside(t, LockOf[c])
    BY HolderFacts, Zenon DEF MesaInv, LockInv, IsHeldBy, Inside
  <2>. QED BY <2>1, Zenon DEF HoldersAreInside
<1>10. Mesa!Active(t)
  BY ActiveThread, Zenon DEF Running
<1>11. ASSUME NEW u \in Threads
       PROVE  WaitsForLock(u)' = IF u = w THEN LockOf[c] ELSE WaitsForLock(u)
  <2>1. CASE u # w
    <3>1. waitingOn[u] \in Conditions \cup {None}
      BY Zenon DEF MesaInv, LockInv, ClientTypes
    <3>2. \A d \in Conditions : Queued(u, d)' <=> Queued(u, d)
      BY <1>6, <2>1, Zenon
    <3>3. WaitsForLock(u)' = WaitsForLock(u)
      BY <1>3, <1>7, <3>1, <3>2, OthersKeepWaiting, Zenon
    <3>. QED BY <2>1, <3>3, Zenon
  <2>2. CASE u = w
    <3>1. InOrder(w)
      BY Zenon DEF MesaInv, LockInv, CallsAreInOrder
    <3>2. granted[w] = None /\ lockOwner[LockOf[c]] # w
      BY <1>2, <3>1, Zenon DEF InOrder, Due, Running
    <3>3. ~Inside(w, LockOf[c])' /\ ~Queued(w, c)' /\ waitingOn'[w] = c
      BY <1>2, <1>3, <1>6, <3>2, Zenon DEF Inside
    <3>4. WaitsForLock(w)' = LockOf[c]
      BY <3>3, Zenon DEF WaitsForLock
    <3>. QED BY <2>2, <3>4, Zenon
  <2>. QED BY <2>1, <2>2, Zenon
<1>12. [d \in Conditions |-> ThreadsOf(colaProcesosDormidos[d])]' =
         [[d \in Conditions |-> ThreadsOf(colaProcesosDormidos[d])] EXCEPT ![c] = Tail(@)]
  BY <1>4, <1>5, ZenonT(30)
<1>13. [u \in Threads |-> WaitsForLock(u)]' =
         [[u \in Threads |-> WaitsForLock(u)] EXCEPT ![w] = LockOf[c]]
  BY <1>11, Zenon
<1> DEFINE Lists == [d \in Conditions |->
                      [i \in DOMAIN colaProcesosDormidos[d] |-> ThreadOf(colaProcesosDormidos[d][i])]]
<1>14. Lists[c] # <<>> /\ Head(Lists[c]) = w
  BY <1>4, Zenon DEF ThreadsOf
<1>15. Lists' = [Lists EXCEPT ![c] = Tail(Lists[c])]
  BY <1>12, Zenon DEF ThreadsOf
<1>16. [k \in Locks |-> HolderOf(k)]' = [k \in Locks |-> HolderOf(k)]
  BY <1>8, Zenon
<1>. QED BY <1>9, <1>10, <1>13, <1>14, <1>15, <1>16, Zenon DEF Mesa!Signal

LEMMA MonitorStep ==
  ASSUME MesaInv, MesaInv', [Next]_vars
  PROVE  [Mesa!Next]_Mesa!vars
<1> USE ConstantFacts
<1>1. CASE UNCHANGED vars
  BY <1>1, UnseenMaps, Zenon DEF vars, semVars, condVars
<1>2. ASSUME NEW t \in Threads, NEW l \in Locks, UNCHANGED condVars,
             \/ Outside(t) /\ Acquire(t, l)
             \/ ResumeAcquire(t, l)
             \/ Outside(t) /\ Release(t, l)
      PROVE  [Mesa!Next]_Mesa!vars
  BY <1>2, AcquireMaps, ResumeAcquireMaps, ReleaseMaps, Zenon DEF Mesa!Next
<1>3. ASSUME NEW t \in Threads, NEW l \in Locks, EndAcquire(t, l)
      PROVE  [Mesa!Next]_Mesa!vars
  BY <1>3, EndAcquireMaps, Zenon
<1>4. ASSUME NEW t \in Threads, NEW c \in Conditions, Wait(t, c) \/ Reacquire(t, c)
      PROVE  [Mesa!Next]_Mesa!vars
  BY <1>4, WaitMaps, ReacquireMaps, Zenon DEF Mesa!Next
<1>5. ASSUME NEW t \in Threads, TryP(t, aDormir[t]), waitingOn[t] # None,
             UNCHANGED <<lockVars, colaProcesosDormidos, waitingOn>>
      PROVE  [Mesa!Next]_Mesa!vars
  <2>1. \A u \in Threads : waitingOn[u] = None => blockedOn'[u] = blockedOn[u]
    <3>1. DOMAIN blockedOn = Threads
      BY Zenon DEF MesaInv, LockInv, SemTypeOK
    <3>2. \E s : blockedOn' = [blockedOn EXCEPT ![t] = s]
      BY <1>5, Zenon DEF TryP
    <3>. QED BY <1>5, <3>1, <3>2
  <2>. QED BY <1>5, <2>1, UnseenMaps, Zenon
<1>6. ASSUME NEW t \in Threads, NEW c \in Conditions, GoToSleep(t, c)
      PROVE  [Mesa!Next]_Mesa!vars
  BY <1>5, <1>6, Zenon DEF GoToSleep, P
<1>7. ASSUME NEW t \in Threads, ResumeWait(t)
      PROVE  [Mesa!Next]_Mesa!vars
  <2>1. blockedOn[t] = aDormir[t] /\ TryP(t, aDormir[t]) /\ UNCHANGED <<lockVars, condVars>>
    BY <1>7, Zenon DEF ResumeWait, ResumeP
  <2>2. waitingOn[t] # None
    BY <2>1, Zenon DEF MesaInv, LockInv, CallsAreInOrder, InOrder
  <2>. QED BY <1>5, <2>1, <2>2, Zenon DEF condVars
<1>8. ASSUME NEW t \in Threads, NEW c \in Conditions, Signal(t, c)
      PROVE  [Mesa!Next]_Mesa!vars
  BY <1>8, SignalMaps, Zenon DEF Signal, Outside, Mesa!Next
<1>9. ASSUME NEW t \in Threads, NEW c \in Conditions, Broadcast(t, c) \/ BroadcastLoop(t, c)
      PROVE  [Mesa!Next]_Mesa!vars
  <2>1. CASE UNCHANGED <<semVars, lockVars, colaProcesosDormidos, waitingOn>>
    BY <2>1, UnseenMaps, Zenon DEF semVars
  <2>2. CASE BroadcastLoop(t, c) /\ SignalOne(c) /\ IsHeldBy(t, LockOf[c])
    <3>1. Running(t) /\ waitingOn[t] = None
      BY <2>2, Zenon DEF BroadcastLoop, MesaInv, LockInv, CallsAreInOrder, InOrder
    <3>. QED BY <2>2, <3>1, SignalMaps, Zenon DEF BroadcastLoop, Mesa!Next
  <2>. QED BY <1>9, <2>1, <2>2, Zenon DEF Broadcast, BroadcastLoop
<1>. QED BY <1>1, <1>2, <1>3, <1>4, <1>6, <1>7, <1>8, <1>9, Zenon DEF Next

(* The locks of lock.cc and the conditions of condition.cc, made of        *)
(* semaphores, implement Mesa monitors: every step of theirs is a step of  *)
(* module Monitor or changes nothing it shows, so that no Signal is lost   *)
(* in the window between Wait's Release and its P, and none wakes two.     *)
THEOREM LocksImplementMonitor == Safety => Mesa!Safety
<1>1. CondInit => MesaInv
  BY LockInitInv, SleepInit DEF MesaInv
<1>2. CondInit => Mesa!Init
  <2> SUFFICES ASSUME CondInit PROVE Mesa!Init
    OBVIOUS
  <2> USE ConstantFacts DEF CondInit, LockInit, SemInit
  <2>1. \A l \in Locks : HolderOf(l) = None
    BY ZenonT(30) DEF HolderOf, Insiders, Inside
  <2>2. \A t \in Threads : WaitsForLock(t) = None
    BY ZenonT(30) DEF WaitsForLock
  <2>3. \A c \in Conditions : ThreadsOf(colaProcesosDormidos[c]) = <<>>
    BY NoThreads, Zenon
  <2>. QED BY <2>1, <2>2, <2>3, ZenonT(30) DEF Mesa!Init, ThreadsOf
<1>3. MesaInv /\ [Next]_vars => MesaInv'
  BY LockNextInv, SleepNext DEF MesaInv
<1>4. MesaInv /\ MesaInv' /\ [Next]_vars => [Mesa!Next]_Mesa!vars
  BY MonitorStep
<1>. QED BY <1>1, <1>2, <1>3, <1>4, PTL DEF Safety, Mesa!Safety

-----------------------------------------------------------------------------
(***************************************************************************)
(* The semaphores, for any initial values and any order of P and V.        *)
(***************************************************************************)

INSTANCE FiniteSetTheorems

(***************************************************************************)
(* The invariant.  The three conjuncts are inductive together: the type    *)
(* and QueueHoldsSleepers say that the head V pops is asleep, hence a new  *)
(* member of WokenOn, which is what NoLostWakeup counts.                   *)
(***************************************************************************)

SemInv == SemTypeOK /\ QueueHoldsSleepers /\ NoLostWakeup

(* WokenOn is a finite set: there are finitely many threads. *)
LEMMA WokenOnFinite ==
  ASSUME SemTypeOK, NEW s \in Semaphores
  PROVE  IsFiniteSet(WokenOn(s)) /\ Cardinality(WokenOn(s)) \in Nat
BY ThreadsFinite, FS_Subset, FS_CardinalityType, Zenon DEF SemTypeOK, WokenOn

(* A thread inside no P, or woken in the P of s, is in no queue. *)
LEMMA NotQueued ==
  ASSUME SemInv, NEW t \in Threads, NEW s \in Semaphores,
         blockedOn[t] = None \/ t \in woken
  PROVE  t \notin Range(queue[s])
BY ConstantTypes, Zenon DEF SemInv, QueueHoldsSleepers

LEMMA InitInv == SemInit => SemInv
<1> SUFFICES ASSUME SemInit PROVE SemInv
  OBVIOUS
<1>1. SemTypeOK
  BY ConstantTypes, SeqEmpty, Zenon DEF SemInit, SemTypeOK
<1>2. QueueHoldsSleepers
  <2>1. ASSUME NEW s \in Semaphores
        PROVE  /\ IsInjective(queue[s])
               /\ Range(queue[s]) = {t \in Threads : blockedOn[t] = s /\ t \notin woken}
    <3>1. queue[s] = <<>> /\ DOMAIN queue[s] = {}
      BY DEF SemInit
    <3>2. {t \in Threads : blockedOn[t] = s /\ t \notin woken} = {}
      BY ConstantTypes, Zenon DEF SemInit
    <3>. QED BY <3>1, <3>2, Zenon DEF Range, IsInjective
  <2>. QED BY <2>1, Zenon DEF SemInit, QueueHoldsSleepers
<1>3. NoLostWakeup
  BY Zenon DEF SemInit, NoLostWakeup
<1>. QED BY <1>1, <1>2, <1>3 DEF SemInv

(* Both branches of P's loop, whoever runs them: t is a thread that called *)
(* P(s), or one woken in it, and is not woken any more afterwards.         *)
LEMMA TryPInv ==
  ASSUME SemInv, NEW t \in Threads, NEW s \in Semaphores, TryP(t, s),
         \/ blockedOn[t] = None /\ woken' = woken
         \/ t \in woken /\ blockedOn[t] = s /\ woken' = woken \ {t}
  PROVE  SemInv'
<1> USE DEF SemInv
<1>0. /\ t \notin woken' /\ woken' = woken \ {t} /\ woken' \in SUBSET Threads
      /\ \A r \in Semaphores : t \notin Range(queue[r])
  BY NotQueued, Zenon DEF SemTypeOK, QueueHoldsSleepers
<1>1. CASE /\ value[s] > 0
           /\ value' = [value EXCEPT ![s] = @ - 1]
           /\ blockedOn' = [blockedOn EXCEPT ![t] = None]
           /\ UNCHANGED queue
  <2>1. SemTypeOK'
    BY <1>0, <1>1 DEF SemTypeOK
  <2>2. QueueHoldsSleepers'
    BY <1>0, <1>1, ConstantTypes DEF QueueHoldsSleepers, SemTypeOK
  <2>3. ASSUME NEW r \in Semaphores, queue'[r] # <<>>
        PROVE  value'[r] <= Cardinality(WokenOn(r)')
    <3>1. WokenOn(r)' = WokenOn(r) \ {t}
      BY <1>0, <1>1, ConstantTypes, Zenon DEF WokenOn, SemTypeOK
    <3>2. t \in WokenOn(r) => r = s
      BY ConstantTypes, <1>0, Zenon DEF WokenOn, QueueHoldsSleepers
    <3>3. Cardinality(WokenOn(r)') =
            IF t \in WokenOn(r) THEN Cardinality(WokenOn(r)) - 1
                                ELSE Cardinality(WokenOn(r))
      BY <3>1, WokenOnFinite, FS_RemoveElement, Zenon
    <3>4. value[r] <= Cardinality(WokenOn(r))
      BY <1>1, <2>3, Zenon DEF NoLostWakeup
    <3>. QED BY <1>1, <3>2, <3>3, <3>4, WokenOnFinite DEF SemTypeOK
  <2>. QED BY <2>1, <2>2, <2>3, ZenonT(30) DEF NoLostWakeup
<1>2. CASE /\ value[s] = 0
           /\ queue' = [queue EXCEPT ![s] = Append(@, t)]
           /\ blockedOn' = [blockedOn EXCEPT ![t] = s]
           /\ UNCHANGED value
  <2>0. /\ queue[s] \in Seq(Threads) /\ IsInjective(queue[s])
        /\ queue'[s] = Append(queue[s], t)
        /\ \A r \in Semaphores \ {s} : queue'[r] = queue[r]
    BY <1>2, Zenon DEF SemTypeOK, QueueHoldsSleepers
  <2>1. /\ queue'[s] \in Seq(Threads)
        /\ IsInjective(queue'[s])
        /\ Range(queue'[s]) = Range(queue[s]) \cup {t}
    <3>1. t \notin Range(queue[s])
      BY <1>0, Zenon
    <3>2. /\ Append(queue[s], t) \in Seq(Threads)
          /\ IsInjective(Append(queue[s], t))
          /\ Range(Append(queue[s], t)) = Range(queue[s]) \cup {t}
      BY <2>0, <3>1, QueueGrows, Zenon
    <3>. QED BY <2>0, <3>2, Zenon
  <2>2. SemTypeOK'
    BY <1>0, <1>2, <2>0, <2>1, Zenon DEF SemTypeOK
  <2>3. QueueHoldsSleepers'
    BY <1>0, <1>2, <2>0, <2>1, ConstantTypes DEF QueueHoldsSleepers, SemTypeOK
  <2>4. ASSUME NEW r \in Semaphores, queue'[r] # <<>>
        PROVE  value'[r] <= Cardinality(WokenOn(r)')
    <3>1. CASE r = s
      BY <1>2, <2>2, <3>1, WokenOnFinite, FS_CardinalityType, ThreadsFinite, FS_Subset
         DEF SemTypeOK, WokenOn
    <3>2. CASE r # s
      <4>1. WokenOn(r)' = WokenOn(r)
        BY <1>0, <1>2, <3>2, ConstantTypes, Zenon DEF WokenOn, SemTypeOK, QueueHoldsSleepers
      <4>. QED BY <1>2, <2>0, <2>4, <3>2, <4>1, ZenonT(30) DEF NoLostWakeup
    <3>. QED BY <3>1, <3>2, Zenon
  <2>. QED BY <2>2, <2>3, <2>4, Zenon DEF NoLostWakeup
<1>. QED BY <1>1, <1>2, Zenon DEF TryP

(* V pops a sleeper, which joins WokenOn, and adds a unit. *)
LEMMA VInv ==
  ASSUME SemInv, NEW s \in Semaphores, V(s)
  PROVE  SemInv'
<1> USE DEF SemInv
<1>0. /\ value' = [value EXCEPT ![s] = @ + 1]
      /\ blockedOn' = blockedOn
  BY Zenon DEF V
<1>1. CASE queue[s] = <<>>
  <2>1. queue' = queue /\ woken' = woken
    BY <1>1, Zenon DEF V
  <2>2. SemTypeOK' /\ QueueHoldsSleepers'
    BY <1>0, <2>1 DEF SemTypeOK, QueueHoldsSleepers
  <2>3. ASSUME NEW r \in Semaphores, queue'[r] # <<>>
        PROVE  value'[r] <= Cardinality(WokenOn(r)')
    BY <1>0, <1>1, <2>1, <2>3, Zenon DEF NoLostWakeup, WokenOn, SemTypeOK
  <2>. QED BY <2>2, <2>3, ZenonT(30) DEF NoLostWakeup
<1>2. CASE queue[s] # <<>>
  <2> DEFINE h == Head(queue[s])
  <2>1. /\ queue' = [queue EXCEPT ![s] = Tail(@)]
        /\ woken' = woken \cup {h}
    BY <1>2, Zenon DEF V
  <2>2. /\ Tail(queue[s]) \in Seq(Threads)
        /\ IsInjective(Tail(queue[s]))
        /\ h \in Range(queue[s])
        /\ Range(Tail(queue[s])) = Range(queue[s]) \ {h}
    BY <1>2, TailDistinct, Zenon DEF SemTypeOK, QueueHoldsSleepers
  <2>3. h \in Threads /\ h \notin woken /\ blockedOn[h] = s
    BY <2>2, Zenon DEF QueueHoldsSleepers
  <2> HIDE DEF h
  <2>4. /\ queue'[s] = Tail(queue[s])
        /\ \A r \in Semaphores \ {s} : queue'[r] = queue[r]
    BY <2>1, Zenon DEF SemTypeOK
  <2>5. SemTypeOK'
    BY <1>0, <2>1, <2>2, <2>3 DEF SemTypeOK
  <2>6. QueueHoldsSleepers'
    BY <1>0, <2>1, <2>2, <2>3, <2>4, ConstantTypes DEF QueueHoldsSleepers
  <2>7. ASSUME NEW r \in Semaphores, queue'[r] # <<>>
        PROVE  value'[r] <= Cardinality(WokenOn(r)')
    <3>1. CASE r = s
      <4>1. WokenOn(r)' = WokenOn(r) \cup {h} /\ h \notin WokenOn(r)
        BY <1>0, <2>1, <2>3, <3>1, Zenon DEF WokenOn
      <4>2. Cardinality(WokenOn(r)') = Cardinality(WokenOn(r)) + 1
        BY <4>1, WokenOnFinite, FS_AddElement, Zenon
      <4>3. value[r] <= Cardinality(WokenOn(r))
        BY <1>2, <3>1, Zenon DEF NoLostWakeup
      <4>. QED BY <1>0, <3>1, <4>2, <4>3, WokenOnFinite DEF SemTypeOK
    <3>2. CASE r # s
      <4>1. WokenOn(r)' = WokenOn(r)
        BY <1>0, <2>1, <2>3, <3>2, Zenon DEF WokenOn
      <4>. QED BY <1>0, <2>4, <2>7, <3>2, <4>1, Zenon DEF NoLostWakeup, SemTypeOK
    <3>. QED BY <3>1, <3>2, Zenon
  <2>. QED BY <2>5, <2>6, <2>7, Zenon DEF NoLostWakeup
<1>. QED BY <1>1, <1>2, Zenon

LEMMA NextInv == SemInv /\ [SemNext]_semVars => SemInv'
<1> SUFFICES ASSUME SemInv, [SemNext]_semVars PROVE SemInv'
  OBVIOUS
<1>1. ASSUME NEW s \in Semaphores, NEW t \in Threads, P(t, s)
      PROVE  SemInv'
  BY <1>1, TryPInv, Zenon DEF P
<1>2. ASSUME NEW s \in Semaphores, NEW t \in Threads, ResumeP(t, s)
      PROVE  SemInv'
  BY <1>2, TryPInv, Zenon DEF ResumeP
<1>3. ASSUME NEW s \in Semaphores, V(s)
      PROVE  SemInv'
  BY <1>3, VInv, Zenon
<1>4. CASE UNCHANGED semVars
  BY <1>4, Zenon DEF semVars, SemInv, SemTypeOK, QueueHoldsSleepers, NoLostWakeup, WokenOn
<1>. QED BY <1>1, <1>2, <1>3, <1>4, Zenon DEF SemNext

(* Type correctness of the semaphores; in particular the counter of        *)
(* threads/semaphore.cc is never negative, for any number of threads.      *)
THEOREM SemaphoreTypes == SemSafety => []SemTypeOK
<1>1. SemInv => SemTypeOK
  BY DEF SemInv
<1>. QED BY InitInv, NextInv, <1>1, PTL DEF SemSafety

(* The queue of a semaphore holds exactly the threads asleep in its P,     *)
(* each once, whatever P and V calls are made.                             *)
THEOREM SemaphoreQueues == SemSafety => []QueueHoldsSleepers
<1>1. SemInv => QueueHoldsSleepers
  BY DEF SemInv
<1>. QED BY InitInv, NextInv, <1>1, PTL DEF SemSafety

(* No V is lost: while threads sleep in P there are as many woken threads  *)
(* on their way to the counter as there are units in it.                   *)
THEOREM SemaphoreWakeups == SemSafety => []NoLostWakeup
<1>1. SemInv => NoLostWakeup
  BY DEF SemInv
<1>. QED BY InitInv, NextInv, <1>1, PTL DEF SemSafety

(* The queueing P and V implement the abstract counting semaphore: their   *)
(* steps are its steps, or change nothing it shows.                        *)
THEOREM SemaphoreRefinement == SemSafety => Counting!Safety
<1>1. SemInit => Counting!Init
  BY Zenon DEF SemInit, Counting!Init
<1>2. SemInv /\ [SemNext]_semVars => [Counting!Next]_Counting!vars
  <2> SUFFICES ASSUME SemInv, [SemNext]_semVars
               PROVE  [Counting!Next]_Counting!vars
    OBVIOUS
  <2>1. ASSUME NEW s \in Semaphores, NEW t \in Threads, P(t, s)
        PROVE  Counting!Take(t, s) \/ Counting!Block(t, s)
    BY <2>1, Zenon DEF P, TryP, Counting!Take, Counting!Block, SemInv, SemTypeOK
  <2>2. ASSUME NEW s \in Semaphores, NEW t \in Threads, ResumeP(t, s)
        PROVE  Counting!Unblock(t, s) \/ UNCHANGED Counting!vars
    BY <2>2, Zenon DEF ResumeP, TryP, Counting!Unblock, Counting!vars, SemInv, SemTypeOK
  <2>3. ASSUME NEW s \in Semaphores, V(s)
        PROVE  Counting!V(s)
    BY <2>3, Zenon DEF V, Counting!V
  <2>4. CASE UNCHANGED semVars
    BY <2>4, Zenon DEF semVars, Counting!vars
  <2>. QED BY <2>1, <2>2, <2>3, <2>4, Zenon DEF SemNext, Counting!Next
<1>. QED BY InitInv, NextInv, <1>1, <1>2, PTL DEF SemSafety, Counting!Safety
=============================================================================
