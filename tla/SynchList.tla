------------------------------ MODULE SynchList ------------------------------
(***************************************************************************)
(* threads/synch_list.hh: lists, each under a lock, with a condition on    *)
(* which `Pop` waits while the list is empty.  The locks and the           *)
(* conditions are those of module Monitor, as in module Channel; a list    *)
(* gives its name to both.                                                 *)
(***************************************************************************)
EXTENDS Naturals, Sequences, FiniteSets, Functions

CONSTANTS
  Threads,       \* the kernel threads
  Items,         \* the items
  Lists,         \* the lists
  MaxLength,     \* bound: Append is called while the list is shorter
  None

VARIABLES
  holder, waiting, sleeping,  \* locks and conditions (module Monitor)
  list,          \* list[l]: the items of l
  pc,            \* pc[t]: the operation t is in and how far it is
  on,            \* on[t]: the list it is called on
  item           \* item[t]: the argument of Append or the local of Pop

Mon == INSTANCE Monitor
         WITH Locks <- Lists, Conditions <- Lists, LockOf <- [l \in Lists |-> l]

monVars == <<holder, waiting, sleeping>>
vars == <<monVars, list, pc, on, item>>

Init ==
  /\ Mon!Init
  /\ list = [l \in Lists |-> <<>>]
  /\ pc = [t \in Threads |-> "idle"]
  /\ on = [t \in Threads |-> None]
  /\ item = [t \in Threads |-> None]

-----------------------------------------------------------------------------

(* The thread calls an operation, which begins with lock->Acquire(). *)
Call(t, l, op) ==
  /\ pc[t] = "idle"
  /\ Mon!Take(t, l) \/ Mon!Block(t, l)
  /\ pc' = [pc EXCEPT ![t] = op]
  /\ on' = [on EXCEPT ![t] = l]
  /\ UNCHANGED list

(* The thread is at `at` and has the lock. *)
InSection(t, l, at) == pc[t] = at /\ holder[l] = t

Release(t, l) ==
  /\ Mon!Release(t, l)
  /\ pc' = [pc EXCEPT ![t] = "idle"]
  /\ item' = [item EXCEPT ![t] = None]
  /\ on' = [on EXCEPT ![t] = None]
  /\ UNCHANGED list

(* Acquire, or Wait after a signal, gets the lock. *)
Grant(t, l) == Mon!Grant(t, l) /\ UNCHANGED <<list, pc, on, item>>

CallAppend(t, l, x) ==
  /\ Len(list[l]) < MaxLength
  /\ Call(t, l, "append")
  /\ item' = [item EXCEPT ![t] = x]

(* SynchList::Append in the critical section: the item is added and one    *)
(* waiter awakened.                                                        *)
DoAppend(t, l) ==
  /\ InSection(t, l, "append")
  /\ list' = [list EXCEPT ![l] = Append(@, item[t])]
  /\ IF sleeping[l] = <<>>
     THEN UNCHANGED monVars ELSE Mon!Signal(t, l)
  /\ pc' = [pc EXCEPT ![t] = "release"]
  /\ UNCHANGED <<on, item>>

AppendReturn(t, l) == InSection(t, l, "release") /\ Release(t, l)

CallPop(t, l) == Call(t, l, "pop") /\ UNCHANGED item

(* SynchList::Pop: the loop waits while the list is empty. *)
PopWait(t, l) ==
  /\ InSection(t, l, "pop")
  /\ list[l] = <<>>
  /\ Mon!Wait(t, l)
  /\ UNCHANGED <<list, pc, on, item>>

DoPop(t, l) ==
  /\ InSection(t, l, "pop")
  /\ list[l] # <<>>
  /\ item' = [item EXCEPT ![t] = Head(list[l])]
  /\ list' = [list EXCEPT ![l] = Tail(@)]
  /\ pc' = [pc EXCEPT ![t] = "popped"]
  /\ UNCHANGED <<monVars, on>>

PopReturn(t, l) == InSection(t, l, "popped") /\ Release(t, l)
=============================================================================
