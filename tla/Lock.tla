-------------------------------- MODULE Lock ---------------------------------
(***************************************************************************)
(* threads/lock.cc and the priority inheritance of threads/thread.cc.      *)
(*                                                                         *)
(* A lock is a semaphore of value 1 and a `lockOwner`.  Interrupts are on  *)
(* inside Acquire and Release, so a thread may lose the CPU at the end of  *)
(* the P or the V they call: in particular between the return of P and     *)
(* the assignment of `lockOwner`, when the lock is taken and has no owner. *)
(* The semaphore of lock l is the member l of Semaphores.                  *)
(***************************************************************************)
EXTENDS Semaphore

CONSTANTS
  Locks,         \* the locks; each one names its own semaphore
  Priority,      \* Priority[t]: `priority`, fixed when the thread is created
  NoDonation     \* no element of `inheritedPriorities` is for the lock

ASSUME LockConstants ==
  /\ Locks \subseteq Semaphores
  /\ \A l \in Locks : InitialValue[l] = 1
  /\ MaxValue > 0
  /\ Priority \in [Threads -> Nat]
  /\ NoDonation \notin Nat
  /\ None \notin Threads

VARIABLES
  lockOwner,     \* lockOwner[l]: the thread that set it last, or None
  granted,       \* granted[t]: the lock whose P has returned in t's Acquire
                 \* before `lockOwner = currentThread`, or None
  inherited      \* inherited[t][l]: the priority of the element for l in
                 \* `inheritedPriorities` of t, or NoDonation

lockVars == <<lockOwner, granted, inherited>>

LockInit ==
  /\ SemInit
  /\ lockOwner = [l \in Locks |-> None]
  /\ granted = [t \in Threads |-> None]
  /\ inherited = [t \in Threads |-> [l \in Locks |-> NoDonation]]

-----------------------------------------------------------------------------

(* Thread::GetPriority: the own priority or a greater inherited one.       *)
GetPriority(t) ==
  LET ps == {Priority[t]} \cup ({inherited[t][l] : l \in Locks} \ {NoDonation})
  IN  CHOOSE p \in ps : \A q \in ps : q <= p

(* Thread::SetInheritedPriority: the element for the lock is overwritten,  *)
(* or added when the list has none.                                        *)
SetInheritedPriority(t, l, p) ==
  inherited' = [inherited EXCEPT ![t][l] = p]

(* Mutant: the search of the list finds no element to remove. *)
RemoveInheritedPriority_Misses(t, l) == UNCHANGED inherited

(* Thread::RemoveInheritedPriority. *)
RemoveInheritedPriority(t, l) ==
  inherited' = [inherited EXCEPT ![t][l] = NoDonation]

(* The thread executes its own code: it is not inside P and has no         *)
(* Acquire to complete.                                                    *)
Running(t) == blockedOn[t] = None /\ granted[t] = None

(* P consumed the unit of l in this step, so it returns to Acquire. *)
NoteReturnOfP(t, l) ==
  granted' = IF value[l] > 0 THEN [granted EXCEPT ![t] = l] ELSE granted

(* Lock::IsHeldByCurrentThread. *)
IsHeldBy(t, l) == lockOwner[l] = t

(* Mutant: Acquire does not wait when the lock has no owner. *)
Acquire_TrustsOwner(t, l) ==
  /\ Running(t)
  /\ lockOwner[l] = None
  /\ granted' = [granted EXCEPT ![t] = l]
  /\ value' = [value EXCEPT ![l] = 0]
  /\ UNCHANGED <<queue, blockedOn, woken, lockOwner, inherited>>

(* Lock::Acquire up to the end of P, or to the sleep inside it. *)
Acquire(t, l) ==
  /\ Running(t)
  /\ ~IsHeldBy(t, l)
  /\ IF lockOwner[l] # None
     THEN SetInheritedPriority(lockOwner[l], l, GetPriority(t))
     ELSE UNCHANGED inherited
  /\ P(t, l)
  /\ NoteReturnOfP(t, l)
  /\ UNCHANGED lockOwner

(* The thread runs again inside the P of its Acquire. *)
ResumeAcquire(t, l) ==
  /\ ResumeP(t, l)
  /\ NoteReturnOfP(t, l)
  /\ UNCHANGED <<lockOwner, inherited>>

(* The last statement of Acquire. *)
SetLockOwner(t, l) ==
  /\ granted[t] = l
  /\ granted' = [granted EXCEPT ![t] = None]
  /\ lockOwner' = [lockOwner EXCEPT ![l] = t]
  /\ UNCHANGED <<semVars, inherited>>

(* Lock::Release: no thread gets the CPU before the end of its V. *)
Release(t, l) ==
  /\ Running(t)
  /\ IsHeldBy(t, l)
  /\ RemoveInheritedPriority(t, l)
  /\ lockOwner' = [lockOwner EXCEPT ![l] = None]
  /\ V(l)
  /\ UNCHANGED granted

-----------------------------------------------------------------------------

(* t is past the P and before the V of a critical section of l. *)
Inside(t, l) == granted[t] = l \/ lockOwner[l] = t

Insiders(l) == {t \in Threads : Inside(t, l)}

LockTypeOK ==
  /\ SemTypeOK
  /\ lockOwner \in [Locks -> Threads \cup {None}]
  /\ granted \in [Threads -> Locks \cup {None}]
  /\ inherited \in [Threads -> [Locks -> Nat \cup {NoDonation}]]

(* Mutual exclusion, with the two places the code keeps it in kept in      *)
(* step: one thread at most is between P and V of a lock, the window in    *)
(* which `lockOwner` is not yet set included, and the semaphore has its    *)
(* unit exactly when there is none.                                        *)
MutualExclusion ==
  \A l \in Locks :
    /\ \A t, u \in Insiders(l) : t = u
    /\ value[l] = IF Insiders(l) = {} THEN 1 ELSE 0

(* A priority a thread inherited through a lock does not outlive its       *)
(* ownership of that lock: Release takes back whatever the waiters gave,   *)
(* and nobody gives to a thread that has released.                         *)
DonationsEndWithOwnership ==
  \A t \in Threads, l \in Locks :
    inherited[t][l] # NoDonation => lockOwner[l] = t
=============================================================================
