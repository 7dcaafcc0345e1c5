------------------------------ MODULE Scheduler ------------------------------
(***************************************************************************)
(* threads/scheduler.cc and the thread operations of threads/thread.cc     *)
(* that use it: fork, yield, sleep, finish and join.                       *)
(*                                                                         *)
(* One thread has the CPU.  A step is what it does up to the next point    *)
(* where it may lose it: the end of the call that re-enables interrupts,   *)
(* or a SWITCH.  An interrupt handler may make a sleeping thread ready     *)
(* between steps; while the ready lists are empty the CPU idles inside the *)
(* Sleep of the thread that slept last.                                    *)
(*                                                                         *)
(* The channel of a joinable thread is the one of module Channel with one  *)
(* sender, the thread that finishes; a call of Send or Receive is one step *)
(* unless it has to wait, i.e. nobody else holds the channel's lock.       *)
(***************************************************************************)
EXTENDS ListOps

CONSTANTS
  TCBs,          \* the thread control blocks
  Main,          \* the thread Initialize makes the current one
  Joinable,      \* the threads constructed with `joinable`
  Priority,      \* Priority[t]: GetPriority of t, not inherited
  tId,           \* tId[t]: the key of t in `threadUPS`
  IntMax,        \* INT_MAX
  NULL           \* the null pointer

ASSUME SchedulerConstants ==
  /\ Main \in TCBs
  /\ Joinable \subseteq TCBs \ {Main}
  /\ IntMax \in Nat
  /\ Priority \in [TCBs -> 0 .. IntMax]
  /\ tId \in [TCBs -> Int]
  /\ NULL \notin TCBs

AMOUNT_OF_LISTS == 2
Queues == 0 .. AMOUNT_OF_LISTS - 1

VARIABLES
  currentThread,       \* the thread that has the CPU
  idle,                \* it is in Interrupt::Idle, called by Sleep
  halted,              \* Interrupt::Halt was called
  status,              \* status[t]
  preassignedQueue,    \* preassignedQueue[t]
  readyList,           \* readyList[i]
  started,             \* the threads that have run: SWITCH resumes them
                       \* inside Run, the others start in ThreadRoot
  threadToBeDestroyed,
  destroyed,           \* the threads that were deleted
  doing,               \* doing[t]: what t is doing, or will do when it runs
  joining,             \* joining[t]: the thread t is joining, or NULL
  buzon                \* buzon[t]: t's return value is in its channel

cpuVars == <<currentThread, idle, halted, status, preassignedQueue, readyList,
             started, threadToBeDestroyed, destroyed>>
schedulerVars == <<cpuVars, doing, joining, buzon>>

SchedulerInit ==
  /\ currentThread = Main
  /\ idle = FALSE
  /\ halted = FALSE
  /\ status = [t \in TCBs |-> IF t = Main THEN "RUNNING" ELSE "JUST_CREATED"]
  /\ preassignedQueue = [t \in TCBs |-> 0]
  /\ readyList = [i \in Queues |-> <<>>]
  /\ started = {Main}
  /\ threadToBeDestroyed = NULL
  /\ destroyed = {}
  /\ doing = [t \in TCBs |-> "code"]
  /\ joining = [t \in TCBs |-> NULL]
  /\ buzon = [t \in TCBs |-> FALSE]

-----------------------------------------------------------------------------

(* The ready lists after Scheduler::ReadyToRun(t) with t's queue being i. *)
Insert(lists, t, i) ==
  [lists EXCEPT ![i] = SortedInsert(@, t, IntMax - Priority[t])]

(* Mutant: a thread that was popped and not chosen is forgotten. *)
PutBack_Forgets(lists, i, t, key) == lists

(* A thread that was popped from list i and not chosen goes back, behind   *)
(* the threads of that list that have the same key.                        *)
PutBack(lists, i, t, key) == [lists EXCEPT ![i] = SortedInsert(@, t, key)]

(* A turn of the loop of FindNextToRun: list i gives up its head, and the  *)
(* head with the greatest key of those seen so far is kept.                *)
Turn(s, i) ==
  IF s.lists[i] = <<>> THEN s
  ELSE LET head == Head(s.lists[i])
           popped == [s.lists EXCEPT ![i] = SortedPop(@)]
       IN  IF head.key > s.best
           THEN [lists  |-> IF s.best = -1 THEN popped
                            ELSE PutBack(popped, s.queue, s.thread, s.best),
                 thread |-> head.item,
                 best   |-> head.key,
                 queue  |-> i]
           ELSE [s EXCEPT !.lists = PutBack(popped, i, head.item, head.key)]

(* Scheduler::FindNextToRun. *)
FindNextToRun(lists) ==
  Turn(Turn([lists |-> lists, thread |-> NULL, best |-> -1, queue |-> 0], 0), 1)

(* Mutant: Run does not reset threadToBeDestroyed. *)
Run_NoReset(next, carcass) ==
  /\ currentThread' = next
  /\ started' = started \cup {next}
  /\ destroyed' = destroyed \cup ({carcass} \ {NULL})
  /\ threadToBeDestroyed' = carcass

(* Scheduler::Run with threadToBeDestroyed = carcass, up to where `next`   *)
(* goes on: inside Run, where it deletes the carcass, or in ThreadRoot.    *)
Run(next, carcass) ==
  /\ currentThread' = next
  /\ started' = started \cup {next}
  /\ IF next \in started
     THEN /\ destroyed' = destroyed \cup ({carcass} \ {NULL})
          /\ threadToBeDestroyed' = NULL
     ELSE /\ threadToBeDestroyed' = carcass
          /\ UNCHANGED destroyed

(* Thread::Sleep of t once the ready lists are `lists` and the statuses    *)
(* are st: run the next thread or idle; with consoleON Idle halts at once. *)
Sleep(t, lists, st, carcass, consoleON) ==
  LET f == FindNextToRun(lists)
      blocked == [st EXCEPT ![t] = "BLOCKED"]
  IN  /\ preassignedQueue' = [preassignedQueue EXCEPT ![t] = 0]
      /\ readyList' = f.lists
      /\ IF f.thread = NULL
         THEN /\ idle' = ~consoleON
              /\ halted' = consoleON
              /\ status' = blocked
              /\ threadToBeDestroyed' = carcass
              /\ UNCHANGED <<currentThread, started, destroyed>>
         ELSE /\ status' = [blocked EXCEPT ![f.thread] = "RUNNING"]
              /\ Run(f.thread, carcass)
              /\ UNCHANGED <<idle, halted>>

(* t has the CPU, and goes on at `at`. *)
Executes(t, at) ==
  /\ ~halted
  /\ ~idle
  /\ currentThread = t
  /\ doing[t] = at

-----------------------------------------------------------------------------

(* Thread::Fork. *)
Fork(t, u) ==
  /\ Executes(t, "code")
  /\ status[u] = "JUST_CREATED"
  /\ status' = [status EXCEPT ![u] = "READY"]
  /\ readyList' = Insert(readyList, u, preassignedQueue[u])
  /\ UNCHANGED <<currentThread, idle, halted, preassignedQueue, started,
                 threadToBeDestroyed, destroyed, doing, joining, buzon>>

(* Thread::Yield from the lists given: the thread goes to queue 1. *)
YieldFrom(t, lists) ==
  LET f == FindNextToRun(lists)
  IN  /\ preassignedQueue' = [preassignedQueue EXCEPT ![t] = 1]
      /\ IF f.thread = NULL
         THEN /\ readyList' = f.lists
              /\ UNCHANGED <<currentThread, status, started,
                             threadToBeDestroyed, destroyed>>
         ELSE /\ readyList' = Insert(f.lists, t, 1)
              /\ status' = [status EXCEPT ![t] = "READY", ![f.thread] = "RUNNING"]
              /\ Run(f.thread, threadToBeDestroyed)
      /\ UNCHANGED <<idle, halted>>

(* Thread::Yield, called by the thread or at the end of a time slice. *)
Yield(t) ==
  /\ Executes(t, "code") \/ Executes(t, "received")
  /\ YieldFrom(t, readyList)
  /\ UNCHANGED <<doing, joining, buzon>>

(* The thread sleeps on a semaphore. *)
Block(t) ==
  /\ Executes(t, "code")
  /\ Sleep(t, readyList, status, threadToBeDestroyed, FALSE)
  /\ doing' = [doing EXCEPT ![t] = "asleep"]
  /\ UNCHANGED <<joining, buzon>>

(* The V of the running thread or of an interrupt handler makes a sleeping *)
(* thread ready.                                                           *)
Wakeup(u) ==
  /\ ~halted
  /\ doing[u] = "asleep"
  /\ doing' = [doing EXCEPT ![u] = "code"]
  /\ status' = [status EXCEPT ![u] = "READY"]
  /\ readyList' = Insert(readyList, u, preassignedQueue[u])
  /\ UNCHANGED <<currentThread, idle, halted, preassignedQueue, started,
                 threadToBeDestroyed, destroyed, joining, buzon>>

(* The loop of Sleep after Interrupt::Idle returned. *)
LeaveIdle ==
  LET f == FindNextToRun(readyList)
  IN  /\ idle
      /\ f.thread # NULL
      /\ idle' = FALSE
      /\ readyList' = f.lists
      /\ status' = [status EXCEPT ![f.thread] = "RUNNING"]
      /\ Run(f.thread, threadToBeDestroyed)
      /\ UNCHANGED <<halted, preassignedQueue, doing, joining, buzon>>

(* Thread::Finish of a thread nobody can join. *)
FinishDetached(t) ==
  /\ Executes(t, "code")
  /\ t \notin Joinable
  /\ doing' = [doing EXCEPT ![t] = "finished"]
  /\ Sleep(t, readyList, status, t, tId[t] = 0)
  /\ UNCHANGED <<joining, buzon>>

(* The threads asleep in the Receive of u's channel. *)
Receivers(u) == {j \in TCBs : joining[j] = u /\ status[j] = "BLOCKED"}

(* Thread::Finish of a joinable thread: Send puts the value, awakens one   *)
(* receiver and waits.  The receiver it awakens is the first of the        *)
(* condition's queue; which one that is does not matter here.              *)
FinishJoinable(t) ==
  /\ Executes(t, "code")
  /\ t \in Joinable
  /\ doing' = [doing EXCEPT ![t] = "sending"]
  /\ buzon' = [buzon EXCEPT ![t] = TRUE]
  /\ UNCHANGED joining
  /\ IF Receivers(t) = {}
     THEN Sleep(t, readyList, status, threadToBeDestroyed, FALSE)
     ELSE \E j \in Receivers(t) :
            Sleep(t, Insert(readyList, j, preassignedQueue[j]),
                  [status EXCEPT ![j] = "READY"], threadToBeDestroyed, FALSE)

(* Send returns to Finish: the thread goes to sleep for the last time. *)
FinishSent(t) ==
  /\ Executes(t, "sending")
  /\ doing' = [doing EXCEPT ![t] = "finished"]
  /\ Sleep(t, readyList, status, t, tId[t] = 0)
  /\ UNCHANGED <<joining, buzon>>

(* Channel::Receive of u's channel by t: take the value and make u ready,  *)
(* or sleep until there is one.                                            *)
Receive(t, u) ==
  IF buzon[u]
  THEN /\ buzon' = [buzon EXCEPT ![u] = FALSE]
       /\ doing' = [doing EXCEPT ![t] = "received"]
       /\ status' = [status EXCEPT ![u] = "READY"]
       /\ readyList' = Insert(readyList, u, preassignedQueue[u])
       /\ UNCHANGED <<currentThread, idle, halted, preassignedQueue, started,
                      threadToBeDestroyed, destroyed>>
  ELSE /\ Sleep(t, readyList, status, threadToBeDestroyed, FALSE)
       /\ doing' = [doing EXCEPT ![t] = "receiving"]
       /\ UNCHANGED buzon

(* Thread::Join up to the return of Receive. *)
Join(t, u) ==
  /\ Executes(t, "code")
  /\ t # u
  /\ u \in Joinable \ destroyed
  /\ joining' = [joining EXCEPT ![t] = u]
  /\ Receive(t, u)

(* The thread runs again inside Receive. *)
JoinResume(t) ==
  /\ Executes(t, "receiving")
  /\ Receive(t, joining[t])
  /\ UNCHANGED joining

(* The end of Join takes a thread off the ready lists to see whether there *)
(* is one, and does not put it back.  The main thread then yields if that  *)
(* thread was not itself.                                                  *)
JoinReturn(t) ==
  LET isEmp == FindNextToRun(readyList)
  IN  /\ Executes(t, "received")
      /\ doing' = [doing EXCEPT ![t] = "code"]
      /\ joining' = [joining EXCEPT ![t] = NULL]
      /\ UNCHANGED buzon
      /\ IF tId[t] = 0 /\ isEmp.thread # NULL /\ tId[isEmp.thread] # 0
         THEN YieldFrom(t, isEmp.lists)
         ELSE /\ readyList' = isEmp.lists
              /\ UNCHANGED <<currentThread, idle, halted, status, preassignedQueue,
                             started, threadToBeDestroyed, destroyed>>

SchedulerNext ==
  \/ \E t \in TCBs :
       \/ \E u \in TCBs : Fork(t, u) \/ Join(t, u)
       \/ Yield(t) \/ Block(t) \/ Wakeup(t)
       \/ FinishDetached(t) \/ FinishJoinable(t) \/ FinishSent(t)
       \/ JoinResume(t) \/ JoinReturn(t)
  \/ LeaveIdle

SchedulerSpec == SchedulerInit /\ [][SchedulerNext]_schedulerVars

-----------------------------------------------------------------------------

(* The thread is on one of the lists. *)
On(lists, t) == \E i \in Queues : Has(lists[i], t)

(* A thread is deleted once, after its Finish, while another thread has    *)
(* the CPU, and never dispatched again.                                    *)
DestroyedThreadsAreGone ==
  \A t \in destroyed :
    /\ doing[t] = "finished"
    /\ t # threadToBeDestroyed
    /\ t # currentThread
    /\ ~On(readyList, t)

(* FindNextToRun pops the heads of all lists and puts back those it does   *)
(* not choose; ReadyToRun, Yield and V insert what they make READY.  A     *)
(* READY thread is on the lists, unless the end of Thread::Join has taken  *)
(* it off to see whether there is one: no other step loses a thread.       *)
OnlyJoinDropsThreads ==
  [][\A t \in TCBs :
       /\ status'[t] = "READY" /\ ~On(readyList', t)
       /\ status[t] = "READY" => On(readyList, t)
       => \E j \in TCBs : doing[j] = "received" /\ doing'[j] = "code"]_schedulerVars
=============================================================================
