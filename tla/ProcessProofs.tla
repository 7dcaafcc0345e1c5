---------------------------- MODULE ProcessProofs ----------------------------
(***************************************************************************)
(* The ids of processes and what Join answers (module Processes), for any  *)
(* threads, any length of the table of threads and any system calls; and   *)
(* then what module Driver guarantees the operations that follow it, for   *)
(* any threads, and what that means for the disk (SynchDisk) and for the   *)
(* processes that use the console (SynchConsole, Processes).               *)
(*                                                                         *)
(* The invariant of ids is that nothing leaves the table of threads, so a  *)
(* new index is greater than every one in use.  With it, that of Join says *)
(* whose status a process has received; it has to say also who waits to    *)
(* remove a file, since closing a file changes the state of such a process *)
(* and of no other.                                                        *)
(*                                                                         *)
(* The invariant of drivers follows the request the device has been given: *)
(* it is at work, or its interrupt has come and left one unit in the       *)
(* semaphore, or the thread that made the request has taken the unit.      *)
(***************************************************************************)
EXTENDS SynchDisk, Processes, QueueLemmas

(* Tables of threads from which nothing was removed. *)
FullTables ==
  [data : [0 .. SIZE - 1 -> Threads \cup {NoItem}], current : 0 .. SIZE, freed : {<<>>}]

(* No id is given back, so the table of threads has no gaps. *)
ThreadTableTypes ==
  /\ threadUPS \in FullTables
  /\ tId \in [Threads -> Ids]

(* The id of a process is the place of the process in the table. *)
IdsInTable ==
  \A p \in Threads :
    tId[p] >= 0 => tId[p] < threadUPS.current /\ threadUPS.data[tId[p]] = p

IdInv == scenario \in Scenarios /\ ThreadTableTypes /\ IdsInTable

(* What Table::Add does to such a table. *)
LEMMA AddToTable ==
  ASSUME NEW t \in FullTables, NEW q
  PROVE  \/ /\ t.current < SIZE
            /\ AddIndex(t) = t.current
            /\ TableAdd(t, q) = [data |-> [t.data EXCEPT ![t.current] = q],
                                 current |-> t.current + 1, freed |-> <<>>]
         \/ t.current = SIZE /\ AddIndex(t) = -1 /\ TableAdd(t, q) = t
<1> USE TableConstants
<1>1. t.freed = <<>> /\ t.current \in 0 .. SIZE
  BY DEF FullTables
<1>2. CASE t.current < SIZE
  <2>1. AddIndex(t) = t.current /\ t.current # -1
    BY <1>1, <1>2 DEF AddIndex
  <2>2. TableAdd(t, q)
          = [t EXCEPT !.data[t.current] = q, !.current = t.current + 1, !.freed = <<>>]
    BY <1>1, <2>1 DEF TableAdd
  <2>. QED BY <1>2, <2>1, <2>2, Zenon DEF FullTables
<1>3. CASE ~(t.current < SIZE)
  BY <1>1, <1>3 DEF AddIndex, TableAdd
<1>. QED BY <1>2, <1>3, Zenon

LEMMA IdInitInv == ProcessInit => IdInv
<1> SUFFICES ASSUME ProcessInit PROVE IdInv
  OBVIOUS
<1>1. /\ scenario \in Scenarios /\ scenario.used \in 0 .. SIZE - 1
      /\ SIZE \in Nat \ {0} /\ Main \in Threads
  BY ProcessConstants, TableConstants DEF ProcessInit
<1>2. /\ EmptyTable \in FullTables
      /\ EmptyTable.current = 0
  BY <1>1 DEF EmptyTable, FullTables
<1>3. TableAdd(EmptyTable, Main)
        = [data |-> [EmptyTable.data EXCEPT ![0] = Main], current |-> 0 + 1,
           freed |-> <<>>]
  BY <1>1, <1>2, AddToTable
<1>4. /\ threadUPS = [TableAdd(EmptyTable, Main) EXCEPT !.current = scenario.used + 1]
      /\ tId = [p \in Threads |-> IF p = Main THEN 0 ELSE -1]
  BY Zenon DEF ProcessInit
<1>5. threadUPS = [data |-> [EmptyTable.data EXCEPT ![0] = Main],
                   current |-> scenario.used + 1, freed |-> <<>>]
  BY <1>3, <1>4
<1>6. ThreadTableTypes
  <2>1. tId \in [Threads -> Ids]
    BY <1>1, <1>4 DEF Ids
  <2>2. scenario.used + 1 \in 0 .. SIZE
    BY <1>1
  <2>. QED BY <1>1, <1>2, <1>5, <2>1, <2>2 DEF ThreadTableTypes, FullTables
<1>7. IdsInTable
  BY <1>1, <1>2, <1>4, <1>5 DEF IdsInTable, FullTables
<1>. QED BY <1>1, <1>6, <1>7 DEF IdInv

LEMMA NewThreadInv ==
  ASSUME IdInv, NEW q \in Threads, NEW canJoin, NewThread(q, canJoin),
         scenario' = scenario
  PROVE  IdInv'
<1> USE TableConstants DEF IdInv
<1>1. CASE AddIndex(threadUPS) = -1
  <2>1. threadUPS' = threadUPS /\ tId' = [tId EXCEPT ![q] = -1]
    BY <1>1 DEF NewThread, TableAdd
  <2>. QED BY <2>1 DEF ThreadTableTypes, FullTables, IdsInTable, Ids
<1>2. CASE AddIndex(threadUPS) # -1
  <2> DEFINE n == threadUPS.current
  <2>1. /\ n \in 0 .. SIZE - 1
        /\ tId' = [tId EXCEPT ![q] = n]
        /\ threadUPS' = [data |-> [threadUPS.data EXCEPT ![n] = q],
                         current |-> n + 1, freed |-> <<>>]
    <3>1. /\ n < SIZE /\ AddIndex(threadUPS) = n
          /\ TableAdd(threadUPS, q) = [data |-> [threadUPS.data EXCEPT ![n] = q],
                                        current |-> n + 1, freed |-> <<>>]
      BY <1>2, AddToTable DEF ThreadTableTypes
    <3>2. n \in 0 .. SIZE
      BY DEF ThreadTableTypes, FullTables
    <3>. QED BY <3>1, <3>2 DEF NewThread
  <2> HIDE DEF n
  <2>2. ThreadTableTypes'
    BY <2>1 DEF ThreadTableTypes, FullTables, Ids
  <2>3. \A p \in Threads :
          p # q /\ tId[p] >= 0 => tId[p] < n /\ threadUPS.data[tId[p]] = p
    BY DEF n, IdsInTable
  <2>4. IdsInTable'
    BY <2>1, <2>3 DEF ThreadTableTypes, FullTables, IdsInTable, Ids
  <2>. QED BY <2>2, <2>4
<1>. QED BY <1>1, <1>2

LEMMA NextUnbornIsThread ==
  ASSUME scenario \in Scenarios, NEW q \in NextUnborn
  PROVE  q \in Threads /\ state[q].at = "unborn"
BY ProcessConstants DEF NextUnborn

(* Only Exec gives ids. *)
LEMMA ProcessesKeepIds ==
  ASSUME IdInv, [Next]_allVars
  PROVE  /\ scenario' = scenario
         /\ \/ UNCHANGED <<threadUPS, tId>>
            \/ \E q \in Threads, canJoin \in BOOLEAN : NewThread(q, canJoin)
<1>1. CASE UNCHANGED allVars
  BY <1>1, Zenon DEF allVars, processVars, threadVars
<1>2. ASSUME NEW p \in Threads, FileCalls(p)
      PROVE  UNCHANGED <<scenario, threadUPS, tId>>
  BY <1>2, Zenon DEF FileCalls, NameErrors, Open, Create, RemoveFile, Close, CloseErrors,
              RemoveDirectory, CallsOverlap, Answers, Stops, threadVars
<1>3. ASSUME NEW p \in Threads, ProcessCalls(p)
      PROVE  /\ scenario' = scenario
             /\ \/ UNCHANGED <<threadUPS, tId>>
                \/ \E q \in Threads, canJoin \in BOOLEAN : NewThread(q, canJoin)
  <2>1. ASSUME NEW name \in Names, NEW canJoin \in BOOLEAN, Exec(p, name, canJoin)
        PROVE  scenario' = scenario /\ \E q \in Threads : NewThread(q, canJoin)
    BY <2>1, NextUnbornIsThread, Zenon DEF Exec, IdInv
  <2>2. ASSUME NEW name \in Names, ExecText(p, name)
        PROVE  UNCHANGED <<scenario, threadUPS, tId>>
    BY <2>2, Zenon DEF ExecText, Stops, threadVars
  <2>3. ASSUME NEW id \in Ids, Join(p, id)
        PROVE  UNCHANGED <<scenario, threadUPS, tId>>
    BY <2>3, Zenon DEF Join, Stops, Answers, threadVars
  <2>4. ASSUME NEW status \in scenario.statuses, Exit(p, status)
        PROVE  UNCHANGED <<scenario, threadUPS, tId>>
    BY <2>4, Zenon DEF Exit, threadVars
  <2>5. ASSUME Halt(p)
        PROVE  UNCHANGED <<scenario, threadUPS, tId>>
    BY <2>5, Zenon DEF Halt, Stops, threadVars
  <2>. QED BY <1>3, <2>1, <2>2, <2>3, <2>4, <2>5, ZenonT(30) DEF ProcessCalls
<1>4. ASSUME NEW p \in Threads, ConsoleCalls(p)
      PROVE  UNCHANGED <<scenario, threadUPS, tId>>
  BY <1>4, ZenonT(30) DEF ConsoleCalls, Write, Read, Answers, Stops, threadVars
<1>5. ASSUME NEW p \in Threads, KernelSteps(p)
      PROVE  UNCHANGED <<scenario, threadUPS, tId>>
  BY <1>5, Zenon DEF KernelSteps, Removed, JoinReturn, Destroy, NextChar, CharSteps,
              ConsoleReturn, Exchange, Stops, processVars, threadVars
<1>6. CASE ConsoleInterrupts
  BY <1>6, Zenon DEF ConsoleInterrupts, processVars, threadVars
<1>. QED BY <1>1, <1>2, <1>3, <1>4, <1>5, <1>6, Zenon DEF Next

LEMMA IdNextInv ==
  ASSUME IdInv, [Next]_allVars
  PROVE  IdInv'
<1>1. CASE UNCHANGED <<scenario, threadUPS, tId>>
  BY <1>1 DEF IdInv, ThreadTableTypes, IdsInTable
<1>. QED BY <1>1, ProcessesKeepIds, NewThreadInv

(* The id that Exec answers is the process's for good, however many        *)
(* processes are started and end: Table::Add gives each thread an index of *)
(* its own, and nothing gives one back (the constructor and the destructor *)
(* of Thread, threads/thread.cc).                                          *)
THEOREM IdsAreUnique == Spec => []IdsNameProcesses
<1>1. ProcessInit => IdInv
  BY IdInitInv
<1>2. IdInv /\ [Next]_allVars => IdInv'
  BY IdNextInv
<1>3. IdInv => IdsNameProcesses
  <2> SUFFICES ASSUME IdInv, NEW p \in Threads, tId[p] >= 0
               PROVE  TableGet(threadUPS, tId[p]) = p
    BY DEF IdsNameProcesses
  <2>1. threadUPS.freed = <<>>
    BY DEF IdInv, ThreadTableTypes, FullTables
  <2>2. ~Has(threadUPS.freed, tId[p])
    BY <2>1 DEF Has
  <2>. QED BY <2>2 DEF IdInv, IdsInTable, TableGet, HasKey
<1>. QED BY <1>1, <1>2, <1>3, PTL DEF Spec

StateTypes ==
  /\ state = [p \in Threads |-> State(state[p].at, state[p].on, state[p].value)]
  /\ r2 = [p \in Threads |-> r2[p]] /\ r4 = [p \in Threads |-> r4[p]]
  /\ remover \in [Files -> Threads \cup {None}]

(* A process that removes a file waits for it, and does nothing else. *)
RemoversWait ==
  \A f \in Files, p \in Threads :
    remover[f] = p => state[p].at \in {"remove", "woken"} /\ state[p].on = f

(* What is sent is the argument of Exit.  Who has received it has the      *)
(* argument of the process of that id, which will not run again.           *)
JoinersHaveStatus ==
  /\ message = r4
  /\ \A p \in Threads :
       /\ state[p].at \in {"join", "received"}
            => state[p].on \in 0 .. threadUPS.current - 1
       /\ \A q \in Threads :
            state[p].at = "received" /\ tId[q] = state[p].on
              => state[q].at \in {"sent", "gone"} /\ state[p].value = r4[q]

JoinInv == IdInv /\ StateTypes /\ RemoversWait /\ JoinersHaveStatus

(* Steps that change nothing of this but the answers of calls. *)
Quiet ==
  /\ UNCHANGED <<scenario, threadUPS, tId, state, message, r4, remover>>
  /\ r2' = [p \in Threads |-> r2'[p]]

(* Who has received a status keeps it. *)
ReceiversStay ==
  \A p \in Threads : state[p].at = "received" => state'[p] = state[p]

LEMMA StateFields ==
  ASSUME NEW at, NEW on, NEW val
  PROVE  /\ State(at, on, val).at = at
         /\ State(at, on, val).on = on
         /\ State(at, on, val).value = val
BY DEF State

LEMMA JoinInitInv == ProcessInit => JoinInv
<1> SUFFICES ASSUME ProcessInit PROVE JoinInv
  OBVIOUS
<1>1. \A p \in Threads : state[p].at \in {"user", "unborn"}
  BY DEF ProcessInit, User, State
<1>2. StateTypes
  BY DEF ProcessInit, StateTypes, User, State
<1>3. \A f \in Files : remover[f] = None
  BY DEF ProcessInit
<1>4. RemoversWait
  BY <1>3, DriverConstants DEF RemoversWait
<1>5. message = r4
  BY DEF ProcessInit
<1>6. JoinersHaveStatus
  BY <1>1, <1>5 DEF JoinersHaveStatus
<1>. QED BY IdInitInv, <1>2, <1>4, <1>6 DEF JoinInv

LEMMA QuietInv ==
  ASSUME JoinInv, Quiet
  PROVE  JoinInv' /\ ReceiversStay
<1>1. IdInv'
  BY DEF Quiet, JoinInv, IdInv, ThreadTableTypes, IdsInTable
<1>2. StateTypes'
  BY DEF Quiet, JoinInv, StateTypes
<1>3. RemoversWait' /\ JoinersHaveStatus'
  BY DEF Quiet, JoinInv, RemoversWait, JoinersHaveStatus
<1>. QED BY <1>1, <1>2, <1>3 DEF Quiet, JoinInv, ReceiversStay

(* Process p, which neither removes a file nor has ended, goes on.  It may *)
(* set its status.                                                         *)
LEMMA MoveInv ==
  ASSUME JoinInv, NEW p \in Threads, NEW at, NEW on, NEW val,
         state[p].at \notin {"remove", "woken", "sent", "gone"},
         at # "received", at = "join" => on \in 0 .. threadUPS.current - 1,
         state' = [state EXCEPT ![p] = State(at, on, val)],
         UNCHANGED <<scenario, threadUPS, tId, remover>>,
         r2' = [q \in Threads |-> r2'[q]], r4' = [q \in Threads |-> r4'[q]],
         message' = r4', \A q \in Threads \ {p} : r4'[q] = r4[q]
  PROVE  JoinInv' /\ (state[p].at # "received" => ReceiversStay)
<1>1. IdInv'
  BY DEF JoinInv, IdInv, ThreadTableTypes, IdsInTable
<1>2. /\ state'[p] = State(at, on, val)
      /\ \A q \in Threads : q # p => state'[q] = state[q]
  BY Zenon DEF JoinInv, StateTypes
<1>3. StateTypes'
  BY <1>2, ZenonT(30) DEF JoinInv, StateTypes, State
<1>4. RemoversWait'
  BY <1>2 DEF JoinInv, RemoversWait
<1>5. JoinersHaveStatus'
  BY <1>2 DEF JoinInv, JoinersHaveStatus, State
<1>. QED BY <1>1, <1>2, <1>3, <1>4, <1>5 DEF JoinInv, ReceiversStay

(* Remove of an open file, and its end. *)
LEMMA RemoverInv ==
  ASSUME JoinInv, NEW p \in Threads, NEW f,
         \/ /\ state[p].at = "user"
            /\ state' = [state EXCEPT ![p] = State("remove", f, 0)]
            /\ remover' = [remover EXCEPT ![f] = p]
         \/ /\ state[p].at = "woken" /\ state[p].on = f
            /\ state' = [state EXCEPT ![p] = State("user", None, 0)]
            /\ remover' = [remover EXCEPT ![f] = None],
         UNCHANGED <<scenario, threadUPS, tId, message, r4>>,
         r2' = [q \in Threads |-> r2'[q]]
  PROVE  JoinInv' /\ ReceiversStay
<1>1. IdInv'
  BY DEF JoinInv, IdInv, ThreadTableTypes, IdsInTable
<1>2. /\ \A q \in Threads : q # p => state'[q] = state[q]
      /\ \/ /\ state'[p] = State("remove", f, 0) /\ state[p].at = "user"
            /\ \A g \in Files : remover'[g] = IF g = f THEN p ELSE remover[g]
         \/ /\ state'[p] = State("user", None, 0)
            /\ state[p].at = "woken" /\ state[p].on = f
            /\ \A g \in Files : remover'[g] = IF g = f THEN None ELSE remover[g]
  BY Zenon DEF JoinInv, StateTypes
<1>3. StateTypes'
  <2>1. DOMAIN state' = Threads
    BY DEF JoinInv, StateTypes
  <2>2. remover' \in [Files -> Threads \cup {None}]
    BY DEF JoinInv, StateTypes
  <2>. QED BY <1>2, <2>1, <2>2 DEF JoinInv, StateTypes, State
<1>4. RemoversWait'
  BY <1>2, DriverConstants DEF JoinInv, RemoversWait, State
<1>5. JoinersHaveStatus'
  BY <1>2 DEF JoinInv, JoinersHaveStatus, State
<1>. QED BY <1>1, <1>2, <1>3, <1>4, <1>5 DEF JoinInv, ReceiversStay

(* The destructor of OpenFile tells processes that remove, no others. *)
LEMMA EndFilesInv ==
  ASSUME JoinInv, NEW p \in Threads, NEW closed, NEW next,
         EndFiles(closed, next),
         \/ next = state
         \/ /\ state[p].at = "sent"
            /\ next = [state EXCEPT ![p] = State("gone", None, 0)],
         UNCHANGED <<scenario, threadUPS, tId, message, r4, remover>>,
         r2' = [q \in Threads |-> r2'[q]]
  PROVE  JoinInv' /\ ReceiversStay
<1>1. IdInv'
  BY DEF JoinInv, IdInv, ThreadTableTypes, IdsInTable
<1>2. \A q \in Woken(closed) : state[q].at \in {"remove", "woken"}
  BY DEF Woken, JoinInv, RemoversWait
<1>3. ASSUME NEW q \in Threads
      PROVE  \/ state'[q] = state[q]
             \/ /\ state[q].at \in {"remove", "woken"}
                /\ state'[q] = State("woken", state[q].on, state[q].value)
             \/ state[q].at = "sent" /\ state'[q] = State("gone", None, 0)
  <2>1. CASE q \in Woken(closed)
    <3>1. state'[q] = [state[q] EXCEPT !.at = "woken"]
      BY <2>1 DEF EndFiles
    <3>2. state[q] = State(state[q].at, state[q].on, state[q].value)
      BY Zenon DEF JoinInv, StateTypes
    <3>3. state'[q] = State("woken", state[q].on, state[q].value)
      BY <3>1, <3>2 DEF State
    <3>. QED BY <1>2, <2>1, <3>3
  <2>2. CASE q \notin Woken(closed)
    <3>1. state'[q] = next[q]
      BY <2>2 DEF EndFiles
    <3>. QED BY <3>1, Zenon DEF JoinInv, StateTypes
  <2>. QED BY <2>1, <2>2
<1>4. StateTypes'
  <2>1. DOMAIN state' = Threads /\ state' = [q \in Threads |-> state'[q]]
    BY DEF EndFiles
  <2>2. ASSUME NEW q \in Threads
        PROVE  state'[q] = State(state'[q].at, state'[q].on, state'[q].value)
    <3>1. state[q] = State(state[q].at, state[q].on, state[q].value)
      BY DEF JoinInv, StateTypes
    <3>. QED BY <1>3, <3>1, StateFields
  <2>. QED BY <2>1, <2>2 DEF JoinInv, StateTypes
<1>5. ASSUME NEW q \in Threads
      PROVE  \/ state'[q] = state[q]
             \/ /\ state[q].at \in {"remove", "woken"}
                /\ state'[q].at = "woken" /\ state'[q].on = state[q].on
             \/ state[q].at = "sent" /\ state'[q].at = "gone"
  BY <1>3, StateFields
<1>6. RemoversWait'
  <2> SUFFICES ASSUME NEW f \in Files, NEW q \in Threads, remover[f] = q
               PROVE  state'[q].at \in {"remove", "woken"} /\ state'[q].on = f
    BY DEF RemoversWait
  <2>1. state[q].at \in {"remove", "woken"} /\ state[q].on = f
    BY DEF JoinInv, RemoversWait
  <2>. QED BY <1>5, <2>1
<1>7. JoinersHaveStatus'
  <2>1. \A q \in Threads : state'[q].at \in {"join", "received"} => state'[q] = state[q]
    BY <1>5
  <2>2. \A q \in Threads :
          state[q].at \in {"sent", "gone"} => state'[q].at \in {"sent", "gone"}
    BY <1>5
  <2>. QED BY <2>1, <2>2 DEF JoinInv, JoinersHaveStatus
<1>. QED BY <1>1, <1>4, <1>5, <1>6, <1>7 DEF JoinInv, ReceiversStay

LEMMA ExecInv ==
  ASSUME JoinInv, NEW p \in Threads, NEW name, NEW canJoin, Exec(p, name, canJoin)
  PROVE  JoinInv' /\ ReceiversStay
<1>1. PICK q \in NextUnborn : NewThread(q, canJoin) /\ state' = [state EXCEPT ![q] = User]
  BY Zenon DEF Exec, Becomes
<1>2. q \in Threads /\ state[q].at = "unborn"
  BY <1>1, NextUnbornIsThread DEF JoinInv, IdInv
<1>3. /\ UNCHANGED <<scenario, message, r4, remover>>
      /\ r2' = [u \in Threads |-> r2'[u]]
  BY Zenon DEF Exec, exitVars, Answer, JoinInv, StateTypes
<1>4. IdInv'
  BY <1>1, <1>2, <1>3, NewThreadInv DEF JoinInv
<1>5. /\ state'[q] = State("user", None, 0) /\ state'[q].at = "user"
      /\ \A u \in Threads : u # q => state'[u] = state[u]
  BY <1>1, <1>2, StateFields DEF JoinInv, StateTypes, User
<1>6. StateTypes'
  BY <1>1, <1>3, <1>5, ZenonT(30) DEF JoinInv, StateTypes, State
<1>7. RemoversWait'
  BY <1>2, <1>3, <1>5 DEF JoinInv, RemoversWait
<1>8. /\ threadUPS.current \in Int /\ threadUPS'.current \in Int
      /\ threadUPS.current <= threadUPS'.current
      /\ tId'[q] \in {-1, threadUPS.current}
      /\ \A u \in Threads : u # q => tId'[u] = tId[u]
  <2>1. threadUPS \in FullTables /\ tId \in [Threads -> Ids]
    BY DEF JoinInv, IdInv, ThreadTableTypes
  <2>2. /\ threadUPS' = TableAdd(threadUPS, q)
        /\ tId' = [tId EXCEPT ![q] = AddIndex(threadUPS)]
    BY <1>1 DEF NewThread
  <2>3. threadUPS.current \in Int
    BY <2>1, TableConstants DEF FullTables
  <2>. QED BY <1>2, <2>1, <2>2, <2>3, AddToTable
<1>9. JoinersHaveStatus'
  BY <1>2, <1>3, <1>5, <1>8 DEF JoinInv, JoinersHaveStatus
<1>. QED BY <1>2, <1>4, <1>5, <1>6, <1>7, <1>9 DEF JoinInv, ReceiversStay

(* The process that is joined is the one of that id. *)
LEMMA ExchangeInv ==
  ASSUME JoinInv, NEW p \in Threads, NEW q \in Threads, Exchange(p, q)
  PROVE  JoinInv' /\ ReceiversStay
<1>1. /\ state[p].at = "join" /\ state[q].at = "exit" /\ p # q
      /\ TableGet(threadUPS, state[p].on) = q
  BY DEF Exchange, InState, Meet
<1>2. /\ state' = [state EXCEPT ![p] = State("received", @.on, message[q]),
                                ![q] = State("sent", None, 0)]
      /\ UNCHANGED <<scenario, threadUPS, tId, message, r4, remover, r2>>
  BY ZenonT(30) DEF Exchange, threadVars, exitVars, fileVars
<1>3. IdInv'
  BY <1>2 DEF JoinInv, IdInv, ThreadTableTypes, IdsInTable
<1>4. /\ state'[p] = State("received", state[p].on, message[q])
      /\ state'[q] = State("sent", None, 0)
      /\ \A u \in Threads : u # p /\ u # q => state'[u] = state[u]
      /\ DOMAIN state' = Threads
      /\ state' = [u \in Threads |-> state'[u]]
  BY <1>1, <1>2, Zenon DEF JoinInv, StateTypes
<1>5. StateTypes'
  <2>1. \A u \in Threads : state'[u] = State(state'[u].at, state'[u].on, state'[u].value)
    BY <1>4, StateFields DEF JoinInv, StateTypes
  <2>. QED BY <1>2, <1>4, <2>1, ZenonT(30) DEF JoinInv, StateTypes
<1>6. /\ state'[p].at = "received" /\ state'[p].on = state[p].on
      /\ state'[p].value = r4[q]
      /\ state'[q].at = "sent"
  BY <1>4, StateFields DEF JoinInv, JoinersHaveStatus
<1>7. RemoversWait'
  <2> SUFFICES ASSUME NEW f \in Files, NEW u \in Threads, remover[f] = u
               PROVE  state'[u].at \in {"remove", "woken"} /\ state'[u].on = f
    BY <1>2, Zenon DEF RemoversWait
  <2>1. state[u].at \in {"remove", "woken"} /\ state[u].on = f
    BY DEF JoinInv, RemoversWait
  <2>. QED BY <1>1, <1>4, <2>1
<1>8. \A u \in Threads : tId[u] = state[p].on => u = q
  <2>1. state[p].on \in 0 .. threadUPS.current - 1
    BY <1>1, Zenon DEF JoinInv, JoinersHaveStatus
  <2>2. threadUPS.freed = <<>> /\ threadUPS.current \in Int
    BY TableConstants DEF JoinInv, IdInv, ThreadTableTypes, FullTables
  <2>3. threadUPS.data[state[p].on] = q
    BY <1>1, <2>1, <2>2 DEF TableGet, HasKey, Has
  <2>4. ASSUME NEW u \in Threads, tId[u] = state[p].on
        PROVE  u = q
    <3>1. tId[u] >= 0
      BY <2>1, <2>2, <2>4
    <3>2. threadUPS.data[tId[u]] = u
      BY <3>1 DEF JoinInv, IdInv, IdsInTable
    <3>. QED BY <2>3, <2>4, <3>2, Zenon
  <2>. QED BY <2>4
<1>9. JoinersHaveStatus'
  BY <1>1, <1>2, <1>4, <1>6, <1>8 DEF JoinInv, JoinersHaveStatus
<1>. QED BY <1>1, <1>3, <1>4, <1>5, <1>7, <1>9 DEF JoinInv, ReceiversStay

(* A call that only answers, and the end of the machine. *)
LEMMA AnswersQuiet ==
  ASSUME JoinInv, NEW p \in Threads, NEW val, Answers(p, val)
  PROVE  Quiet
<1>1. r2' = [r2 EXCEPT ![p] = val]
  BY Zenon DEF Answers, Answer
<1>2. r2' = [q \in Threads |-> r2'[q]]
  BY <1>1, Zenon DEF JoinInv, StateTypes
<1>. QED BY <1>2, Zenon DEF Answers, Quiet, threadVars, exitVars, fileVars

LEMMA StillQuiet ==
  ASSUME JoinInv, UNCHANGED <<scenario, state, threadVars, exitVars, r2, fileVars>>
  PROVE  Quiet
<1>1. r2' = r2 /\ r2 = [q \in Threads |-> r2[q]]
  BY Zenon DEF JoinInv, StateTypes
<1>2. r2' = [q \in Threads |-> r2'[q]]
  BY <1>1
<1>. QED BY <1>2, Zenon DEF Quiet, threadVars, exitVars, fileVars

LEMMA StopsQuiet ==
  ASSUME JoinInv, NEW how, Stops(how)
  PROVE  Quiet
BY StillQuiet, Zenon DEF Stops

(* A step of p alone, which leaves its status. *)
LEMMA BecomesInv ==
  ASSUME JoinInv, NEW p \in Threads, NEW at, NEW on, NEW val,
         state[p].at \notin {"remove", "woken", "sent", "gone"},
         at # "received", at = "join" => on \in 0 .. threadUPS.current - 1,
         state' = [state EXCEPT ![p] = State(at, on, val)],
         UNCHANGED <<scenario, threadVars, exitVars, remover>>,
         r2' = r2 \/ \E ans : Answer(p, ans)
  PROVE  JoinInv' /\ (state[p].at # "received" => ReceiversStay)
<1>1. r2' = [q \in Threads |-> r2'[q]]
  BY DEF Answer, JoinInv, StateTypes
<1>2. UNCHANGED <<scenario, threadUPS, tId, remover, message, r4>>
  BY Zenon DEF threadVars, exitVars
<1>3. message' = r4' /\ r4' = [q \in Threads |-> r4'[q]]
  BY <1>2, Zenon DEF JoinInv, StateTypes, JoinersHaveStatus
<1>. QED BY <1>1, <1>2, <1>3, MoveInv, Zenon

LEMMA FileCallsInv ==
  ASSUME JoinInv, NEW p \in Threads, FileCalls(p)
  PROVE  JoinInv' /\ ReceiversStay
<1>1. ASSUME NEW name \in Names, NameErrors(p, name)
      PROVE  Quiet
  BY <1>1, AnswersQuiet, Zenon DEF NameErrors
<1>2. ASSUME NEW name \in Names, Open(p, name)
      PROVE  Quiet
  <2>1. /\ UNCHANGED <<scenario, state, threadVars, exitVars, remover>>
        /\ Answer(p, AddIndex(opFD[p]))
    BY <1>2, Zenon DEF Open
  <2>2. r2' = [q \in Threads |-> r2'[q]]
    BY <2>1, Zenon DEF Answer, JoinInv, StateTypes
  <2>. QED BY <2>1, <2>2, Zenon DEF Quiet, threadVars, exitVars
<1>3. ASSUME NEW name \in Names, Create(p, name)
      PROVE  Quiet
  <2>1. CASE Answers(p, 1)
    BY <2>1, AnswersQuiet
  <2>2. CASE ~Answers(p, 1)
    <3>1. UNCHANGED <<scenario, state, threadVars, exitVars, remover>> /\ Answer(p, 0)
      BY <1>3, <2>2, Zenon DEF Create
    <3>2. r2' = [q \in Threads |-> r2'[q]]
      BY <3>1, Zenon DEF Answer, JoinInv, StateTypes
    <3>. QED BY <3>1, <3>2, Zenon DEF Quiet, threadVars, exitVars
  <2>. QED BY <2>1, <2>2
<1>4. ASSUME NEW name \in Names, RemoveFile(p, name)
      PROVE  JoinInv' /\ ReceiversStay
  <2>1. /\ state[p].at = "user"
        /\ UNCHANGED <<scenario, threadUPS, tId, message, r4>>
    BY <1>4, Zenon DEF RemoveFile, Calls, InState, threadVars, exitVars
  <2>2. CASE count[name] = 0
    <3>1. UNCHANGED <<state, remover>> /\ Answer(p, 0)
      BY <1>4, <2>2, Zenon DEF RemoveFile
    <3>2. r2' = [q \in Threads |-> r2'[q]]
      BY <3>1, Zenon DEF Answer, JoinInv, StateTypes
    <3>. QED BY <2>1, <3>1, <3>2, QuietInv DEF Quiet
  <2>3. CASE count[name] # 0
    <3>1. /\ state' = [state EXCEPT ![p] = State("remove", name, 0)]
          /\ remover' = [remover EXCEPT ![name] = p] /\ r2' = r2
      BY <1>4, <2>3, Zenon DEF RemoveFile, Becomes
    <3>2. r2' = [q \in Threads |-> r2'[q]]
      BY <3>1, Zenon DEF JoinInv, StateTypes
    <3>. QED BY <2>1, <3>1, <3>2, RemoverInv, Zenon
  <2>. QED BY <2>2, <2>3
<1>5. ASSUME NEW fd \in Ids, Close(p, fd)
      PROVE  JoinInv' /\ ReceiversStay
  <2> DEFINE closed == [f \in Files |-> IF f = TableGet(opFD[p], fd) THEN 1 ELSE 0]
  <2>1. CASE FindsRemover(closed)
    <3>1. /\ EndFiles(closed, state) /\ Answer(p, 0)
          /\ UNCHANGED <<scenario, threadVars, exitVars, remover>>
      BY <1>5, <2>1, Zenon DEF Close
    <3>2. r2' = [q \in Threads |-> r2'[q]]
      BY <3>1, Zenon DEF Answer, JoinInv, StateTypes
    <3>3. UNCHANGED <<scenario, threadUPS, tId, message, r4, remover>>
      BY <3>1, Zenon DEF threadVars, exitVars
    <3> HIDE DEF closed
    <3>. QED BY <3>1, <3>2, <3>3, EndFilesInv
  <2>2. CASE ~FindsRemover(closed)
    BY <1>5, <2>2, StopsQuiet, QuietInv, Zenon DEF Close
  <2>. QED BY <2>1, <2>2
<1>6. ASSUME NEW fd \in Ids, CloseErrors(p, fd)
      PROVE  Quiet
  BY <1>6, StopsQuiet, AnswersQuiet, Zenon DEF CloseErrors
<1>7. CASE RemoveDirectory(p)
  BY <1>7, AnswersQuiet, QuietInv, Zenon DEF RemoveDirectory
<1>8. CASE CallsOverlap(p)
  BY <1>8, StopsQuiet, QuietInv, Zenon DEF CallsOverlap
<1>. QED BY <1>1, <1>2, <1>3, <1>4, <1>5, <1>6, <1>7, <1>8, QuietInv, Zenon DEF FileCalls

LEMMA ProcessCallsInv ==
  ASSUME JoinInv, NEW p \in Threads, ProcessCalls(p)
  PROVE  JoinInv' /\ ReceiversStay
<1>1. ASSUME NEW name \in Names, ExecText(p, name)
      PROVE  Quiet
  BY <1>1, StopsQuiet, Zenon DEF ExecText
<1>2. ASSUME NEW id \in Ids, Join(p, id)
      PROVE  JoinInv' /\ ReceiversStay
  <2>1. CASE (\E how : Stops(how)) \/ Answers(p, -1)
    BY <2>1, StopsQuiet, AnswersQuiet, QuietInv, Zenon
  <2>2. CASE ~((\E how : Stops(how)) \/ Answers(p, -1))
    <3>1. /\ ~(id < 0) /\ HasKey(threadUPS, id) /\ state[p].at = "user"
          /\ state' = [state EXCEPT ![p] = State("join", id, 0)]
          /\ UNCHANGED <<scenario, threadVars, exitVars, r2, fileVars>>
      BY <1>2, <2>2, Zenon DEF Join, Becomes, Calls, InState
    <3>2. id \in 0 .. threadUPS.current - 1
      BY <3>1, TableConstants
         DEF HasKey, Ids, JoinInv, IdInv, ThreadTableTypes, FullTables
    <3>3. UNCHANGED <<scenario, threadVars, exitVars, remover>> /\ r2' = r2
      BY <3>1, Zenon DEF fileVars
    <3>. QED BY <3>1, <3>2, <3>3, BecomesInv, Zenon
  <2>. QED BY <2>1, <2>2
<1>3. ASSUME NEW status \in scenario.statuses, Exit(p, status)
      PROVE  JoinInv' /\ ReceiversStay
  <2> DEFINE at == IF joinable[p] THEN "exit" ELSE "sent"
  <2>1. /\ state[p].at = "user" /\ state' = [state EXCEPT ![p] = State(at, None, 0)]
        /\ r4' = [r4 EXCEPT ![p] = status] /\ message' = [message EXCEPT ![p] = status]
        /\ UNCHANGED <<scenario, threadUPS, tId, r2, remover>>
    BY <1>3, Zenon DEF Exit, Becomes, Calls, InState, threadVars, fileVars
  <2>2. at \in {"exit", "sent"}
    OBVIOUS
  <2> HIDE DEF at
  <2>3. /\ message' = r4' /\ r4' = [q \in Threads |-> r4'[q]]
        /\ \A q \in Threads \ {p} : r4'[q] = r4[q]
        /\ r2' = [q \in Threads |-> r2'[q]]
    BY <2>1, Zenon DEF JoinInv, StateTypes, JoinersHaveStatus
  <2>. QED BY <2>1, <2>2, <2>3, MoveInv, Zenon
<1>4. CASE Halt(p)
  BY <1>4, StopsQuiet, QuietInv, Zenon DEF Halt
<1>. QED BY <1>1, <1>2, <1>3, <1>4, ExecInv, QuietInv, Zenon DEF ProcessCalls

LEMMA ConsoleCallsInv ==
  ASSUME JoinInv, NEW p \in Threads, ConsoleCalls(p)
  PROVE  JoinInv' /\ ReceiversStay
<1>1. PICK size \in -1 .. MaxSize, fd \in Ids : Write(p, size, fd) \/ Read(p, size, fd)
  BY Zenon DEF ConsoleCalls
<1>2. CASE (\E how : Stops(how)) \/ (\E val : Answers(p, val))
  BY <1>2, StopsQuiet, AnswersQuiet, QuietInv, Zenon
<1>3. CASE ~((\E how : Stops(how)) \/ (\E val : Answers(p, val)))
  <2>1. /\ state[p].at = "user"
        /\ \/ state' = [state EXCEPT ![p] = State("write", size, size)]
           \/ state' = [state EXCEPT ![p] = State("read", size, size)]
        /\ UNCHANGED <<scenario, threadVars, exitVars, r2, fileVars>>
    BY <1>1, <1>3, Zenon DEF Write, Read, Becomes, Calls, InState
  <2>2. UNCHANGED <<scenario, threadVars, exitVars, remover>> /\ r2' = r2
    BY <2>1, Zenon DEF fileVars
  <2>3. PICK at \in {"write", "read"} : state' = [state EXCEPT ![p] = State(at, size, size)]
    BY <2>1, Zenon
  <2>4. /\ state[p].at \notin {"remove", "woken", "sent", "gone"} /\ state[p].at # "received"
        /\ at # "received" /\ at # "join"
    BY <2>1
  <2>. QED BY <2>2, <2>3, <2>4, BecomesInv, Zenon
<1>. QED BY <1>2, <1>3

LEMMA KernelStepsInv ==
  ASSUME JoinInv, NEW p \in Threads, KernelSteps(p)
  PROVE  /\ JoinInv'
         /\ ReceiversStay \/ JoinReturn(p)
<1>1. CASE Removed(p)
  <2>1. /\ state[p].at = "woken"
        /\ state' = [state EXCEPT ![p] = State("user", None, 0)]
        /\ remover' = [remover EXCEPT ![state[p].on] = None]
        /\ UNCHANGED <<scenario, threadUPS, tId, message, r4>> /\ Answer(p, 0)
    BY <1>1, Zenon DEF Removed, InState, Becomes, User, threadVars, exitVars
  <2>2. r2' = [q \in Threads |-> r2'[q]]
    BY <2>1, Zenon DEF Answer, JoinInv, StateTypes
  <2>. QED BY <2>1, <2>2, RemoverInv, Zenon
<1>2. CASE JoinReturn(p)
  <2>1. /\ state[p].at = "received"
        /\ state' = [state EXCEPT ![p] = State("user", None, 0)]
        /\ UNCHANGED <<scenario, threadVars, exitVars, remover>>
        /\ \E ans : Answer(p, ans)
    BY <1>2, Zenon DEF JoinReturn, InState, Becomes, User, fileVars
  <2>. QED BY <1>2, <2>1, BecomesInv, Zenon
<1>3. CASE Destroy(p)
  <2> DEFINE closed == [f \in Files |-> Cardinality(OpenIn(p, ClosedByDestructor(p), f))]
             next == [state EXCEPT ![p] = State("gone", None, 0)]
  <2>1. CASE FindsRemover(closed)
    <3>1. /\ state[p].at = "sent" /\ EndFiles(closed, next)
          /\ UNCHANGED <<scenario, threadUPS, tId, message, r4, remover, r2>>
      BY <1>3, <2>1, Zenon DEF Destroy, InState, threadVars, exitVars
    <3>2. r2' = [q \in Threads |-> r2'[q]]
      BY <3>1, Zenon DEF JoinInv, StateTypes
    <3> HIDE DEF closed
    <3>. QED BY <3>1, <3>2, EndFilesInv
  <2>2. CASE ~FindsRemover(closed)
    BY <1>3, <2>2, StopsQuiet, QuietInv, Zenon DEF Destroy
  <2>. QED BY <2>1, <2>2
<1>4. CASE NextChar(p)
  <2>1. /\ state[p].at \in {"write", "read"}
        /\ state' = [state EXCEPT ![p].on = @ - 1]
        /\ UNCHANGED <<scenario, threadVars, exitVars, remover, r2>>
    BY <1>4, Zenon DEF NextChar, InState, fileVars
  <2>2. state[p] = State(state[p].at, state[p].on, state[p].value)
    BY Zenon DEF JoinInv, StateTypes
  <2>3. [state[p] EXCEPT !.on = @ - 1] = State(state[p].at, state[p].on - 1, state[p].value)
    BY <2>2 DEF State
  <2>4. state' = [state EXCEPT ![p] = State(state[p].at, state[p].on - 1, state[p].value)]
    BY <2>1, <2>3, Zenon
  <2>5. /\ state[p].at # "received" /\ state[p].at # "join"
        /\ state[p].at \notin {"remove", "woken", "sent", "gone"}
    BY <2>1
  <2>6. UNCHANGED <<scenario, threadVars, exitVars, remover>> /\ r2' = r2
    BY <2>1, Zenon
  <2>. QED BY <2>4, <2>5, <2>6, BecomesInv, Zenon
<1>5. CASE CharSteps(p)
  BY <1>5, StillQuiet, QuietInv, Zenon DEF CharSteps, processVars
<1>6. CASE ConsoleReturn(p)
  <2>1. /\ state[p].at \in {"write", "read"}
        /\ state' = [state EXCEPT ![p] = State("user", None, 0)]
        /\ UNCHANGED <<scenario, threadVars, exitVars, remover>>
        /\ \E ans : Answer(p, ans)
    BY <1>6, Zenon DEF ConsoleReturn, InState, Becomes, User, fileVars
  <2>. QED BY <2>1, BecomesInv, Zenon
<1>7. ASSUME NEW q \in Threads, Exchange(p, q)
      PROVE  JoinInv' /\ ReceiversStay
  BY <1>7, ExchangeInv
<1>. QED BY <1>1, <1>2, <1>3, <1>4, <1>5, <1>6, <1>7, Zenon DEF KernelSteps

LEMMA ProcessNextInv ==
  ASSUME JoinInv, [Next]_allVars
  PROVE  /\ JoinInv'
         /\ ReceiversStay \/ \E p \in Threads : JoinReturn(p)
<1>1. CASE UNCHANGED allVars
  BY <1>1, StillQuiet, QuietInv, Zenon DEF allVars, processVars
<1>2. CASE ConsoleInterrupts
  BY <1>2, StillQuiet, QuietInv, Zenon DEF ConsoleInterrupts, processVars
<1>. QED BY <1>1, <1>2, FileCallsInv, ProcessCallsInv, ConsoleCallsInv, KernelStepsInv,
            Zenon DEF Next

(* Join answers the status that the process of that id gave to Exit,       *)
(* whichever processes end, are deleted, are woken or get ids in between   *)
(* (Thread::Join and Finish, threads/thread.cc, and SC_JOIN and SC_EXIT,   *)
(* userprog/exception.cc).                                                 *)
THEOREM JoinAnswers == Spec => JoinAnswersTheStatus
<1> DEFINE Answered ==
      \A p, q \in Threads :
        state[p].at = "received" /\ state'[p].at = "user" /\ tId[q] = state[p].on
          => r2'[p] = r4[q]
<1>1. ProcessInit => JoinInv
  BY JoinInitInv
<1>2. JoinInv /\ [Next]_allVars => JoinInv'
  BY ProcessNextInv, Zenon
<1>3. JoinInv /\ [Next]_allVars => [Answered]_allVars
  <2> SUFFICES ASSUME JoinInv, [Next]_allVars, NEW p \in Threads, NEW q \in Threads,
                      state[p].at = "received", state'[p].at = "user",
                      tId[q] = state[p].on
               PROVE  r2'[p] = r4[q]
    OBVIOUS
  <2>1. PICK u \in Threads : JoinReturn(u)
    BY ProcessNextInv DEF ReceiversStay
  <2>2. /\ state' = [state EXCEPT ![u] = User]
        /\ r2' = [r2 EXCEPT ![u] = state[u].value]
    BY <2>1, Zenon DEF JoinReturn, Becomes, Answer
  <2>3. u = p
    BY <2>2, Zenon DEF JoinInv, StateTypes
  <2>4. r2'[p] = state[p].value
    BY <2>2, <2>3, Zenon DEF JoinInv, StateTypes
  <2>. QED BY <2>4, Zenon DEF JoinInv, JoinersHaveStatus
<1>. QED BY <1>1, <1>2, <1>3, PTL DEF Spec, JoinAnswersTheStatus
-----------------------------------------------------------------------------


Places == {"idle", "acquired", "started", "done"}

DriverTypes ==
  /\ holder \in [{lock} -> Threads \cup {None}]
  /\ acquiring \in [Threads -> {lock, None}]
  /\ value \in [{semaphore} -> Nat]
  /\ blocked \in [Threads -> {semaphore, None}]
  /\ pc \in [Threads -> Places]

(* Who is past Acquire has the lock, who is inside it does not. *)
LockIsHeld ==
  \A t \in Threads :
    /\ holder[lock] = t <=> pc[t] # "idle" /\ acquiring[t] = None
    /\ acquiring[t] = lock => pc[t] = "acquired"
    /\ blocked[t] = semaphore => pc[t] = "done"

(* t has made a request and its P has not returned. *)
Pending(t) == pc[t] = "started" \/ (pc[t] = "done" /\ blocked[t] = semaphore)

(* Without a pending request the device is idle and the semaphore empty; a *)
(* pending one is with the device or has a unit in the semaphore, not both.*)
RequestIsOnce ==
  /\ (\A t \in Threads : ~Pending(t)) => ~active /\ value[semaphore] = 0
  /\ active => value[semaphore] = 0
  /\ ~active => value[semaphore] \in {0, 1}
  /\ (\E t \in Threads : Pending(t)) => active \/ value[semaphore] = 1

DriverInv == DriverTypes /\ LockIsHeld /\ RequestIsOnce

(* What the threads and the device do. *)
DriverStep ==
  \/ \E t \in Threads :
       Call(t) \/ Grant(t) \/ Start(t) \/ Await(t) \/ Resume(t) \/ Return(t)
  \/ Interrupt

-----------------------------------------------------------------------------

LEMMA DriverInit == Init => DriverInv
<1> SUFFICES ASSUME Init PROVE DriverInv
  OBVIOUS
<1> USE DriverConstants DEF Init, Lk!Init, Sem!Init
<1>1. DriverTypes
  BY DEF DriverTypes, Places
<1>2. LockIsHeld
  BY DEF LockIsHeld
<1>3. RequestIsOnce
  BY DEF RequestIsOnce, Pending
<1>. QED BY <1>1, <1>2, <1>3 DEF DriverInv

(* At most one thread is past Acquire. *)
LEMMA OneInside ==
  ASSUME LockIsHeld, NEW t \in Threads, NEW u \in Threads,
         pc[t] # "idle", acquiring[t] = None,
         pc[u] # "idle", acquiring[u] = None
  PROVE  t = u
BY Zenon DEF LockIsHeld

(* A pending request is of the thread that has the lock. *)
LEMMA PendingHolds ==
  ASSUME DriverInv, NEW t \in Threads, Pending(t)
  PROVE  pc[t] # "idle" /\ acquiring[t] = None /\ holder[lock] = t
BY DriverConstants DEF DriverInv, DriverTypes, LockIsHeld, Pending, Places

(* The thread that makes a request has the lock: nobody else's request is  *)
(* pending, so the device is idle and the semaphore empty.                 *)
LEMMA AcquiredAlone ==
  ASSUME DriverInv, NEW t \in Threads, At(t, "acquired") \/ At(t, "done")
  PROVE  ~active /\ value[semaphore] = 0
<1>1. ASSUME NEW u \in Threads, Pending(u) PROVE FALSE
  <2>1. u = t
    BY <1>1, PendingHolds, OneInside DEF At, DriverInv
  <2>. QED BY <1>1, <2>1, DriverConstants DEF At, Pending
<1>. QED BY <1>1 DEF DriverInv, RequestIsOnce

LEMMA CallInv ==
  ASSUME DriverInv, NEW t \in Threads, Call(t)
  PROVE  DriverInv'
<1> USE DriverConstants DEF DriverInv, Call, At, Goto, Lk!Take, Lk!Block, semVars
<1>1. DriverTypes'
  BY Zenon DEF DriverTypes, Places
<1>2. LockIsHeld'
  BY DEF DriverTypes, LockIsHeld, Places
<1>3. \A u \in Threads : Pending(u)' <=> Pending(u)
  BY Zenon DEF DriverTypes, Pending
<1>4. RequestIsOnce'
  BY <1>3, Zenon DEF RequestIsOnce
<1>. QED BY <1>1, <1>2, <1>4, Zenon

LEMMA GrantInv ==
  ASSUME DriverInv, NEW t \in Threads, Grant(t)
  PROVE  DriverInv'
<1> USE DriverConstants DEF DriverInv, Grant, Lk!Grant, semVars
<1>1. DriverTypes'
  BY Zenon DEF DriverTypes
<1>2. LockIsHeld'
  BY DEF DriverTypes, LockIsHeld
<1>3. RequestIsOnce'
  BY Zenon DEF RequestIsOnce, Pending
<1>. QED BY <1>1, <1>2, <1>3, Zenon

LEMMA StartInv ==
  ASSUME DriverInv, NEW t \in Threads, Start(t)
  PROVE  DriverInv'
<1> USE DEF DriverInv
<1>0. /\ At(t, "acquired") /\ active' = TRUE
      /\ pc' = [pc EXCEPT ![t] = "started"]
      /\ UNCHANGED <<holder, acquiring, value, blocked>>
  BY DEF Start, Goto, lockVars, semVars
<1>1. DriverTypes'
  BY <1>0, Zenon DEF DriverTypes, Places
<1>2. LockIsHeld'
  BY <1>0, DriverConstants, Zenon DEF DriverTypes, LockIsHeld, At
<1>3. ~active /\ value[semaphore] = 0
  BY <1>0, AcquiredAlone
<1>4. Pending(t)'
  BY <1>0, Zenon DEF DriverTypes, Pending
<1>5. RequestIsOnce'
  BY <1>0, <1>3, <1>4, Zenon DEF RequestIsOnce
<1>. QED BY <1>1, <1>2, <1>5

(* P of the only pending request: with a unit it returns, otherwise it     *)
(* waits and stays pending.                                                *)
LEMMA AwaitInv ==
  ASSUME DriverInv, NEW t \in Threads, Await(t) \/ Resume(t)
  PROVE  DriverInv'
<1> USE DriverConstants DEF DriverInv
<1>0. /\ UNCHANGED <<holder, acquiring, active>>
      /\ pc' = [pc EXCEPT ![t] = "done"]
      /\ pc[t] = "started" \/ blocked[t] = semaphore
  BY DEF Await, Resume, Sem!Unblock, At, Goto, lockVars, DriverTypes,
         LockIsHeld
<1>1. Pending(t)
  BY <1>0, Zenon DEF Pending, LockIsHeld
<1>2. \A u \in Threads : Pending(u) => u = t
  BY <1>1, PendingHolds, OneInside, Zenon
<1>3. \/ /\ value[semaphore] > 0 /\ value' = [value EXCEPT ![semaphore] = @ - 1]
         /\ blocked'[t] = None
      \/ /\ value' = value /\ blocked'[t] = semaphore
  BY Zenon DEF Await, Resume, At, Sem!Take, Sem!Block, Sem!Unblock, DriverTypes
<1>4. blocked' \in [Threads -> {semaphore, None}]
      /\ \A u \in Threads : u # t => blocked'[u] = blocked[u]
  BY Zenon DEF Await, Resume, Sem!Take, Sem!Block, Sem!Unblock, DriverTypes
<1>5. DriverTypes'
  <2>1. value' \in [{semaphore} -> Nat]
    BY <1>3 DEF DriverTypes
  <2>. QED BY <1>0, <1>4, <2>1, Zenon DEF DriverTypes, Places
<1>6. LockIsHeld'
  BY <1>0, <1>1, <1>4, ZenonT(30) DEF DriverTypes, LockIsHeld, Pending
<1>7. \A u \in Threads : u # t => ~Pending(u)'
  BY <1>0, <1>2, <1>4, Zenon DEF DriverTypes, Pending
<1>8. Pending(t)' <=> blocked'[t] = semaphore
  BY <1>0, Zenon DEF DriverTypes, Pending
<1>9. RequestIsOnce'
  <2>1. CASE blocked'[t] = semaphore
    BY <1>0, <1>1, <1>3, <1>8, <2>1, Zenon DEF RequestIsOnce
  <2>2. CASE blocked'[t] = None
    <3>1. value[semaphore] > 0 /\ value' = [value EXCEPT ![semaphore] = @ - 1]
      BY <1>3, <2>2, Zenon
    <3>2. value[semaphore] = 1 /\ ~active
      BY <3>1 DEF RequestIsOnce, DriverTypes
    <3>3. value'[semaphore] = 0
      BY <3>1, <3>2 DEF DriverTypes
    <3>4. \A u \in Threads : ~Pending(u)'
      BY <1>7, <1>8, <2>2, Zenon
    <3>. QED BY <1>0, <3>2, <3>3, <3>4, Zenon DEF RequestIsOnce
  <2>. QED BY <1>4, <2>1, <2>2, Zenon
<1>. QED BY <1>5, <1>6, <1>9

LEMMA ReturnInv ==
  ASSUME DriverInv, NEW t \in Threads, Return(t)
  PROVE  DriverInv'
<1> USE DriverConstants DEF DriverInv, Return, At, Goto, Lk!Release, semVars
<1>1. DriverTypes'
  BY Zenon DEF DriverTypes, Places
<1>2. LockIsHeld'
  BY Zenon DEF DriverTypes, LockIsHeld
<1>3. \A u \in Threads : Pending(u)' <=> Pending(u)
  BY Zenon DEF DriverTypes, Pending
<1>4. RequestIsOnce'
  BY <1>3, Zenon DEF RequestIsOnce
<1>. QED BY <1>1, <1>2, <1>4, Zenon

LEMMA InterruptInv ==
  ASSUME DriverInv, Interrupt
  PROVE  DriverInv'
<1> USE DEF DriverInv, Interrupt, Sem!V, lockVars
<1>1. DriverTypes'
  BY DEF DriverTypes
<1>2. LockIsHeld'
  BY Zenon DEF LockIsHeld
<1>3. \A u \in Threads : Pending(u)' <=> Pending(u)
  BY Zenon DEF Pending
<1>4. value'[semaphore] = 1
  BY DEF RequestIsOnce, DriverTypes
<1>5. RequestIsOnce'
  BY <1>3, <1>4, Zenon DEF RequestIsOnce
<1>. QED BY <1>1, <1>2, <1>5, Zenon

LEMMA DriverNext ==
  ASSUME DriverInv, UNCHANGED vars \/ DriverStep
  PROVE  DriverInv'
<1>1. CASE UNCHANGED vars
  BY <1>1, Zenon DEF vars, lockVars, semVars, DriverInv, DriverTypes, LockIsHeld,
              RequestIsOnce, Pending
<1>2. CASE DriverStep
  BY <1>2, CallInv, GrantInv, StartInv, AwaitInv, ReturnInv, InterruptInv, Zenon DEF DriverStep
<1>. QED BY <1>1, <1>2

-----------------------------------------------------------------------------
(* The disk *)

DiskTypes ==
  /\ sectors \in [Sectors -> Data]
  /\ request \in [Threads -> Requests \cup {None}]
  /\ reply \in [Threads -> Data \cup {None}]

(* The arguments of a call are there until it returns, its result from the *)
(* moment the disk has the request.                                        *)
CallsHaveData ==
  \A t \in Threads :
    /\ request[t] = None <=> pc[t] = "idle"
    /\ reply[t] = None <=> pc[t] \in {"idle", "acquired"}

DiskInv == DriverInv /\ DiskTypes /\ CallsHaveData

LEMMA DiskInitInv == DiskInit => DiskInv
BY DriverInit DEF DiskInit, Init, DiskInv, DiskTypes, CallsHaveData

LEMMA DiskDriver ==
  ASSUME DiskNext
  PROVE  DriverStep
BY Zenon DEF DiskNext, DriverStep, CallSector, AcquireDisk, ReadRequest, WriteRequest,
       AwaitDone, ReturnSector, HandleInterrupt

LEMMA CallSectorInv ==
  ASSUME DiskInv, NEW t \in Threads, NEW r \in Requests, CallSector(t, r)
  PROVE  DiskTypes' /\ CallsHaveData'
BY DiskConstants, Zenon
   DEF DiskInv, DriverInv, DriverTypes, DiskTypes, CallsHaveData, CallSector, Call,
       At, Goto

LEMMA SectorInv ==
  ASSUME DiskInv, NEW t \in Threads, ReadRequest(t) \/ WriteRequest(t)
  PROVE  DiskTypes' /\ CallsHaveData'
<1> USE DEF DiskInv, DriverInv, DriverTypes
<1>0. /\ At(t, "acquired")
      /\ pc' = [pc EXCEPT ![t] = "started"]
      /\ request' = request
  BY Zenon DEF ReadRequest, WriteRequest, Start, Goto
<1>1. /\ sectors' \in [Sectors -> Data]
      /\ \E d \in Data : reply' = [reply EXCEPT ![t] = d]
  <2>1. request[t] \in Requests
    BY <1>0, Zenon DEF DiskTypes, CallsHaveData, At
  <2>2. CASE ReadRequest(t)
    BY <2>1, <2>2, Zenon DEF ReadRequest, Requests, DiskTypes
  <2>3. CASE WriteRequest(t)
    BY <2>1, <2>3, Zenon DEF WriteRequest, Requests, DiskTypes
  <2>. QED BY <2>2, <2>3
<1>2. DiskTypes'
  BY <1>0, <1>1, Zenon DEF DiskTypes
<1>3. CallsHaveData'
  BY <1>0, <1>1, DiskConstants, Zenon DEF DiskTypes, CallsHaveData, At
<1>. QED BY <1>2, <1>3

LEMMA AwaitDoneInv ==
  ASSUME DiskInv, NEW t \in Threads, AwaitDone(t)
  PROVE  DiskTypes' /\ CallsHaveData'
<1> USE DEF DiskInv, DriverInv
<1>1. /\ pc' = [pc EXCEPT ![t] = "done"]
      /\ pc[t] \in {"started", "done"}
  BY DriverConstants
     DEF AwaitDone, Await, Resume, Sem!Unblock, At, Goto, DriverTypes, LockIsHeld
<1>. QED BY <1>1, Zenon DEF AwaitDone, diskVars, DriverTypes, DiskTypes, CallsHaveData

LEMMA ReturnSectorInv ==
  ASSUME DiskInv, NEW t \in Threads, ReturnSector(t)
  PROVE  DiskTypes' /\ CallsHaveData'
BY Zenon DEF DiskInv, DriverInv, DriverTypes, DiskTypes, CallsHaveData, ReturnSector,
       Return, At, Goto

LEMMA DiskNextInv ==
  ASSUME DiskInv, [DiskNext]_synchDiskVars
  PROVE  DiskInv'
<1>1. DriverInv'
  <2>1. CASE DiskNext
    BY <2>1, DiskDriver, DriverNext DEF DiskInv
  <2>2. CASE UNCHANGED synchDiskVars
    BY <2>2, DriverNext DEF DiskInv, synchDiskVars
  <2>. QED BY <2>1, <2>2
<1>2. DiskTypes' /\ CallsHaveData'
  <2>1. CASE UNCHANGED <<pc, diskVars>>
    BY <2>1, Zenon DEF DiskInv, DiskTypes, CallsHaveData, diskVars
  <2>2. ASSUME NEW t \in Threads, AcquireDisk(t)
        PROVE  UNCHANGED <<pc, diskVars>>
    BY <2>2 DEF AcquireDisk, Grant
  <2>3. ASSUME HandleInterrupt
        PROVE  UNCHANGED <<pc, diskVars>>
    BY <2>3 DEF HandleInterrupt, Interrupt
  <2>4. ASSUME UNCHANGED synchDiskVars
        PROVE  UNCHANGED <<pc, diskVars>>
    BY <2>4 DEF synchDiskVars, vars
  <2>. QED BY <2>1, <2>2, <2>3, <2>4, CallSectorInv, SectorInv, AwaitDoneInv, Zenon,
              ReturnSectorInv DEF DiskNext
<1>. QED BY <1>1, <1>2 DEF DiskInv

(* However many threads share the disk, none of them asks it for a sector  *)
(* while it is at work for another (the assertion on `active` in           *)
(* Disk::ReadRequest and WriteRequest, machine/disk.cc).                   *)
THEOREM DiskIsIdle == DiskSpec => []RequestsFindDiskIdle
<1>1. DiskInit => DiskInv
  BY DiskInitInv
<1>2. DiskInv /\ [DiskNext]_synchDiskVars => DiskInv'
  BY DiskNextInv
<1>3. DiskInv => RequestsFindDiskIdle
  BY AcquiredAlone DEF DiskInv, RequestsFindDiskIdle
<1>. QED BY <1>1, <1>2, <1>3, PTL DEF DiskSpec

LEMMA StoreStep ==
  ASSUME DiskInv, [DiskNext]_synchDiskVars
  PROVE  [Store!Next]_Store!vars
<1> USE DEF DiskInv
<1>1. CASE UNCHANGED synchDiskVars
  BY <1>1 DEF synchDiskVars, diskVars, Store!vars
<1>2. ASSUME NEW t \in Threads, NEW r \in Requests, CallSector(t, r)
      PROVE  Store!Next
  <2>1. Store!Ask(t, r)
    BY <1>2, Zenon DEF CallSector, Call, At, CallsHaveData, Store!Ask
  <2>2. r \in Store!Requests
    BY Zenon DEF Requests, Store!Requests
  <2>. QED BY <2>1, <2>2 DEF Store!Next
<1>3. ASSUME NEW t \in Threads, ReadRequest(t) \/ WriteRequest(t)
      PROVE  Store!Next
  <2>1. At(t, "acquired")
    BY <1>3, Zenon DEF ReadRequest, WriteRequest, Start
  <2>2. request[t] # None /\ reply[t] = None
    BY <2>1, Zenon DEF At, CallsHaveData
  <2>3. Store!Perform(t)
    BY <1>3, <2>2, Zenon DEF ReadRequest, WriteRequest, Store!Perform
  <2>. QED BY <2>3 DEF Store!Next
<1>4. ASSUME NEW t \in Threads, AcquireDisk(t) \/ AwaitDone(t)
      PROVE  UNCHANGED Store!vars
  BY <1>4 DEF AcquireDisk, AwaitDone, diskVars, Store!vars
<1>5. ASSUME NEW t \in Threads, ReturnSector(t)
      PROVE  Store!Next
  <2>1. Store!Return(t)
    BY <1>5, Zenon DEF ReturnSector, Return, At, CallsHaveData, Store!Return
  <2>. QED BY <2>1 DEF Store!Next
<1>6. CASE HandleInterrupt
  BY <1>6 DEF HandleInterrupt, diskVars, Store!vars
<1>. QED BY <1>1, <1>2, <1>3, <1>4, <1>5, <1>6 DEF DiskNext

(* SynchDisk::ReadSector and WriteSector take effect at once, in the order *)
(* the disk gets the requests, whatever the number of threads and sectors  *)
(* (filesys/synch_disk.hh).                                                *)
THEOREM DiskIsAStore == DiskSpec => Store!Safety
<1>1. DiskInit => DiskInv /\ Store!Init
  BY DiskInitInv DEF DiskInit, Store!Init
<1>2. DiskInv /\ [DiskNext]_synchDiskVars => DiskInv' /\ [Store!Next]_Store!vars
  BY DiskNextInv, StoreStep
<1>. QED BY <1>1, <1>2, PTL DEF DiskSpec, Store!Safety

-----------------------------------------------------------------------------
(* The console *)

ReadPlaces == {"idle", "acquired", "char", "got"}

ReadTypes ==
  /\ rHolder \in [{rLock} -> Threads \cup {None}]
  /\ rAcquiring \in [Threads -> {rLock, None}]
  /\ rValue \in [{rSem} -> Nat]
  /\ rBlocked \in [Threads -> {rSem, None}]
  /\ rpc \in [Threads -> ReadPlaces]

BufferTypes ==
  /\ keyboard \in Seq(Characters) /\ got \in Seq(Characters)
  /\ incoming \in Characters \cup {EOF}

(* As LockIsHeld, for readers. *)
ReadLockIsHeld ==
  \A t \in Threads :
    /\ rHolder[rLock] = t <=> rpc[t] # "idle" /\ rAcquiring[t] = None
    /\ rAcquiring[t] = rLock => rpc[t] = "acquired"
    /\ rBlocked[t] = rSem => rpc[t] = "char"

(* The P of t has returned, and the character is still in the buffer. *)
Takes(t) == rpc[t] = "char" /\ rBlocked[t] = None

(* A character in the buffer has one unit in the semaphore or one thread   *)
(* that took the unit, not both; an empty buffer has neither.              *)
CharacterIsOnce ==
  /\ rValue[rSem] \in {0, 1}
  /\ incoming # EOF <=> rValue[rSem] = 1 \/ \E t \in Threads : Takes(t)
  /\ rValue[rSem] = 1 => \A t \in Threads : ~Takes(t)

InputInOrder == got \o (IF incoming = EOF THEN <<>> ELSE <<incoming>>) \o keyboard = input

ReadInv ==
  ReadTypes /\ BufferTypes /\ ReadLockIsHeld /\ CharacterIsOnce /\ InputInOrder

(* The steps of the console, and those of its readers alone. *)
ReadStep ==
  \/ \E t \in Threads : CallRead(t) \/ ReadGrant(t) \/ ReadSteps(t)
  \/ CheckCharAvail

ConsoleStep ==
  \/ DriverStep /\ UNCHANGED readVars
  \/ ReadStep

LEMMA ReadInitInv == ConsoleInit => ReadInv
<1> SUFFICES ASSUME ConsoleInit PROVE ReadInv
  OBVIOUS
<1> USE ConsoleConstants DEF ConsoleInit, RLk!Init, RSem!Init
<1>1. keyboard \in Seq(Characters)
  OBVIOUS
<1>2. ReadTypes /\ BufferTypes
  BY <1>1, SeqEmpty, Zenon DEF ReadTypes, BufferTypes, ReadPlaces
<1>3. ReadLockIsHeld
  BY DriverConstants, Zenon DEF ReadLockIsHeld
<1>4. CharacterIsOnce
  BY DEF CharacterIsOnce, Takes
<1>5. InputInOrder
  BY <1>1, SeqEmpty, SeqConcat DEF InputInOrder
<1>. QED BY <1>2, <1>3, <1>4, <1>5 DEF ReadInv

(* At most one reader is past Acquire. *)
LEMMA OneReader ==
  ASSUME ReadLockIsHeld, NEW t \in Threads, NEW u \in Threads,
         rpc[t] # "idle", rAcquiring[t] = None,
         rpc[u] # "idle", rAcquiring[u] = None
  PROVE  t = u
BY Zenon DEF ReadLockIsHeld

(* The locking of readers. *)
LEMMA ReadLockInv ==
  ASSUME ReadInv, NEW t \in Threads, CallRead(t) \/ ReadGrant(t) \/ ReadReturn(t)
  PROVE  ReadInv'
<1> USE ConsoleConstants, DriverConstants DEF ReadInv
<1>0. /\ UNCHANGED <<rValue, rBlocked, keyboard, incoming, input, got>>
      /\ \/ RLk!Take(t, rLock) \/ RLk!Block(t, rLock)
         \/ RLk!Grant(t, rLock) \/ RLk!Release(t, rLock)
      /\ \/ rpc' = rpc
         \/ rpc' = [rpc EXCEPT ![t] = "acquired"] \/ rpc' = [rpc EXCEPT ![t] = "idle"]
  BY Zenon DEF CallRead, ReadGrant, ReadReturn, RGoto, rSemVars, deviceVars
<1>1. ReadTypes'
  <2>1. /\ rHolder' \in [{rLock} -> Threads \cup {None}]
        /\ rAcquiring' \in [Threads -> {rLock, None}]
    BY <1>0 DEF ReadTypes, RLk!Take, RLk!Block, RLk!Grant, RLk!Release
  <2>2. rpc' \in [Threads -> ReadPlaces]
    BY <1>0, Zenon DEF ReadTypes, ReadPlaces
  <2>. QED BY <1>0, <2>1, <2>2, Zenon DEF ReadTypes
<1>2. ReadLockIsHeld'
  <2>1. CASE CallRead(t)
    <3>1. /\ rpc[t] = "idle" /\ rBlocked[t] = None
          /\ rpc' = [rpc EXCEPT ![t] = "acquired"] /\ rBlocked' = rBlocked
          /\ \/ /\ rAcquiring[t] = None /\ rHolder[rLock] = None
                /\ rHolder' = [rHolder EXCEPT ![rLock] = t] /\ rAcquiring' = rAcquiring
             \/ /\ rHolder' = rHolder /\ rAcquiring' = [rAcquiring EXCEPT ![t] = rLock]
      BY <2>1, Zenon DEF CallRead, RAt, RGoto, RLk!Take, RLk!Block, rSemVars
    <3>. QED BY <3>1 DEF ReadTypes, ReadLockIsHeld, ReadPlaces
  <2>2. CASE ReadGrant(t)
    BY <2>2, Zenon DEF ReadGrant, RLk!Grant, rSemVars, ReadTypes, ReadLockIsHeld
  <2>3. CASE ReadReturn(t)
    BY <2>3, Zenon DEF ReadReturn, RAt, RGoto, RLk!Release, rSemVars, ReadTypes, ReadLockIsHeld
  <2>. QED BY <2>1, <2>2, <2>3, Zenon
<1>3. \A u \in Threads : Takes(u)' <=> Takes(u)
  BY Zenon DEF CallRead, ReadGrant, ReadReturn, RAt, RGoto, rSemVars, ReadTypes, Takes
<1>4. CharacterIsOnce'
  BY <1>0, <1>3, Zenon DEF CharacterIsOnce
<1>5. BufferTypes' /\ InputInOrder'
  BY <1>0, Zenon DEF BufferTypes, InputInOrder
<1>. QED BY <1>1, <1>2, <1>4, <1>5

(* A semaphore with one unit at most. *)
LEMMA TheUnit == 0 # 1 /\ 1 - 1 = 0 /\ ~(0 > 0)
OBVIOUS

(* The unit of the character goes to the reader t, or there is none. *)
LEMMA OnceKept ==
  ASSUME CharacterIsOnce, NEW t \in Threads, ~Takes(t), incoming' = incoming,
         \A u \in Threads : u # t => (Takes(u)' <=> Takes(u)),
         \/ rValue[rSem] > 0 /\ rValue'[rSem] = rValue[rSem] - 1 /\ Takes(t)'
         \/ rValue[rSem] = 0 /\ rValue'[rSem] = 0 /\ ~Takes(t)'
  PROVE  CharacterIsOnce'
<1>1. \/ rValue[rSem] = 1 /\ rValue'[rSem] = 0 /\ Takes(t)'
      \/ rValue[rSem] = 0 /\ rValue'[rSem] = 0 /\ ~Takes(t)'
  BY TheUnit, Zenon DEF CharacterIsOnce
<1>. QED BY <1>1, TheUnit, ZenonT(30) DEF CharacterIsOnce

(* P of readers: the unit of the character goes to the reader. *)
LEMMA ReadWaitInv ==
  ASSUME ReadInv, NEW t \in Threads, ReadWait(t) \/ ReadResume(t)
  PROVE  ReadInv'
<1> USE ConsoleConstants, DriverConstants DEF ReadInv
<1>0. /\ UNCHANGED <<rHolder, rAcquiring, keyboard, incoming, input, got>>
      /\ rpc' = [rpc EXCEPT ![t] = "char"]
      /\ rpc[t] \in {"acquired", "char"} /\ rAcquiring[t] = None
      /\ ~Takes(t)
  BY DEF ReadWait, ReadResume, RAt, RGoto, RSem!Unblock, rLockVars, deviceVars,
         ReadTypes, ReadLockIsHeld, Takes
<1>1. \/ /\ rValue[rSem] > 0 /\ rValue' = [rValue EXCEPT ![rSem] = @ - 1]
         /\ rBlocked'[t] = None
      \/ /\ rValue[rSem] = 0 /\ rValue' = rValue /\ rBlocked'[t] = rSem
  BY Zenon DEF ReadWait, ReadResume, RAt, RSem!Take, RSem!Block, RSem!Unblock, ReadTypes
<1>2. /\ rBlocked' \in [Threads -> {rSem, None}]
      /\ \A u \in Threads : u # t => rBlocked'[u] = rBlocked[u]
  BY Zenon DEF ReadWait, ReadResume, RSem!Take, RSem!Block, RSem!Unblock, ReadTypes
<1>3. ReadTypes'
  <2>1. rValue' \in [{rSem} -> Nat]
    <3>1. rValue \in [{rSem} -> Nat]
      BY Zenon DEF ReadTypes
    <3>. QED BY <1>1, <3>1
  <2>. QED BY <1>0, <1>2, <2>1, ZenonT(30) DEF ReadTypes, ReadPlaces
<1>4. ReadLockIsHeld'
  BY <1>0, <1>2, ZenonT(30) DEF ReadTypes, ReadLockIsHeld
<1>5. \A u \in Threads : u # t => (Takes(u)' <=> Takes(u))
  BY <1>0, <1>2, Zenon DEF ReadTypes, Takes
<1>6. Takes(t)' <=> rBlocked'[t] = None
  BY <1>0, ZenonT(30) DEF ReadTypes, Takes
<1>7. CharacterIsOnce'
  <2>1. \/ rValue[rSem] > 0 /\ rValue'[rSem] = rValue[rSem] - 1 /\ Takes(t)'
        \/ rValue[rSem] = 0 /\ rValue'[rSem] = 0 /\ ~Takes(t)'
    BY <1>1, <1>6, Zenon DEF ReadTypes
  <2>. QED BY <1>0, <1>5, <2>1, OnceKept, Zenon
<1>8. BufferTypes' /\ InputInOrder'
  BY <1>0, Zenon DEF BufferTypes, InputInOrder
<1>. QED BY <1>3, <1>4, <1>7, <1>8, Zenon

(* The reader finds the character in the buffer. *)
LEMMA GetCharInv ==
  ASSUME ReadInv, NEW t \in Threads, GetChar(t)
  PROVE  ReadInv'
<1> USE ConsoleConstants, DriverConstants DEF ReadInv
<1>0. /\ UNCHANGED <<rHolder, rAcquiring, rValue, rBlocked, keyboard, input>>
      /\ rpc' = [rpc EXCEPT ![t] = "got"] /\ RAt(t, "char")
      /\ incoming' = EOF /\ got' = Append(got, incoming)
  BY ZenonT(30) DEF GetChar, RGoto, rLockVars, rSemVars
<1>1. Takes(t)
  BY <1>0, Zenon DEF RAt, Takes
<1>2. incoming \in Characters /\ incoming # EOF /\ rValue[rSem] = 0
  BY <1>1, Zenon DEF CharacterIsOnce, BufferTypes
<1>3. ReadTypes' /\ BufferTypes'
  <2>1. ReadTypes'
    BY <1>0, Zenon DEF ReadTypes, ReadPlaces
  <2>2. BufferTypes'
    BY <1>0, <1>2, SeqAppend, Zenon DEF BufferTypes
  <2>. QED BY <2>1, <2>2
<1>4. ReadLockIsHeld'
  BY <1>0, Zenon DEF ReadTypes, ReadLockIsHeld, RAt
<1>5. \A u \in Threads : ~Takes(u)'
  <2>1. ASSUME NEW u \in Threads, Takes(u) PROVE u = t
    BY <1>0, <2>1, OneReader, ZenonT(30) DEF RAt, Takes, ReadTypes, ReadLockIsHeld
  <2>. QED BY <1>0, <2>1, Zenon DEF ReadTypes, Takes
<1>6. CharacterIsOnce'
  BY <1>0, <1>2, <1>5 DEF CharacterIsOnce
<1>7. InputInOrder'
  <2>1. got \o <<incoming>> \o keyboard = input
    BY <1>2, Zenon DEF InputInOrder
  <2>2. got' = got \o <<incoming>> /\ got' \in Seq(Characters)
    BY <1>0, <1>2, AppendIsConcat, SeqAppend, Zenon DEF BufferTypes
  <2>3. got' \o <<>> = got'
    BY <2>2, SeqConcat, SeqEmpty
  <2>. QED BY <1>0, <2>1, <2>2, <2>3, Zenon DEF InputInOrder
<1>. QED BY <1>3, <1>4, <1>6, <1>7, Zenon

(* The interrupt fills the buffer only when it is empty. *)
LEMMA CheckCharAvailInv ==
  ASSUME ReadInv, CheckCharAvail
  PROVE  ReadInv'
<1> USE ConsoleConstants, DriverConstants DEF ReadInv
<1>0. /\ UNCHANGED <<rHolder, rAcquiring, rBlocked, rpc, input, got>>
      /\ incoming = EOF /\ keyboard # <<>>
      /\ incoming' = Head(keyboard) /\ keyboard' = Tail(keyboard)
      /\ rValue' = [rValue EXCEPT ![rSem] = @ + 1]
  BY Zenon DEF CheckCharAvail, RSem!V, rLockVars
<1>1. /\ Head(keyboard) \in Characters /\ Tail(keyboard) \in Seq(Characters)
      /\ <<Head(keyboard)>> \o Tail(keyboard) = keyboard
      /\ <<Head(keyboard)>> \in Seq(Characters)
  BY <1>0, SeqTail, HeadAndTail, AppendIsConcat, SeqEmpty, Zenon DEF BufferTypes
<1>2. ReadTypes' /\ BufferTypes'
  BY <1>0, <1>1 DEF ReadTypes, BufferTypes
<1>3. ReadLockIsHeld'
  BY <1>0, ZenonT(30) DEF ReadLockIsHeld
<1>4. \A u \in Threads : Takes(u)' <=> Takes(u)
  BY <1>0, Zenon DEF Takes
<1>5. CharacterIsOnce'
  BY <1>0, <1>1, <1>4 DEF ReadTypes, CharacterIsOnce
<1>6. InputInOrder'
  <2>1. got \o <<>> \o keyboard = input /\ got \o <<>> = got
    BY <1>0, SeqConcat, SeqEmpty, Zenon DEF InputInOrder, BufferTypes
  <2>2. (got \o <<Head(keyboard)>>) \o Tail(keyboard) = got \o keyboard
    BY <1>1, ConcatAssociates DEF BufferTypes
  <2>3. incoming' # EOF
    BY <1>0, <1>1, Zenon
  <2>. QED BY <1>0, <2>1, <2>2, <2>3, Zenon DEF InputInOrder
<1>. QED BY <1>2, <1>3, <1>5, <1>6

LEMMA ReadNext ==
  ASSUME ReadInv, UNCHANGED readVars \/ ReadStep
  PROVE  ReadInv'
<1>1. CASE UNCHANGED readVars
  BY <1>1, Zenon DEF readVars, rLockVars, rSemVars, deviceVars, ReadInv, ReadTypes,
              BufferTypes, ReadLockIsHeld, CharacterIsOnce, Takes, InputInOrder
<1>2. CASE ReadStep
  BY <1>2, ReadLockInv, ReadWaitInv, GetCharInv, CheckCharAvailInv, Zenon DEF ReadStep, ReadSteps
<1>. QED BY <1>1, <1>2

LEMMA ReadLeavesWriters ==
  ASSUME ReadStep
  PROVE  UNCHANGED vars
BY Zenon DEF ReadStep, CallRead, ReadGrant, ReadSteps, ReadWait, ReadResume, GetChar,
       ReadReturn, CheckCharAvail, writeVars

(* What a process does at the console is a step of the console. *)
LEMMA ProcessesUseConsole ==
  ASSUME [Next]_allVars
  PROVE  UNCHANGED consoleVars \/ ConsoleStep
<1> USE DEF ConsoleStep
<1>1. CASE UNCHANGED allVars
  BY <1>1, Zenon DEF allVars
<1>2. ASSUME NEW p \in Threads, FileCalls(p)
      PROVE  UNCHANGED consoleVars
  BY <1>2, ZenonT(30) DEF FileCalls, NameErrors, Open, Create, RemoveFile, Close, CloseErrors,
              RemoveDirectory, CallsOverlap, Answers, Stops
<1>3. ASSUME NEW p \in Threads, ProcessCalls(p)
      PROVE  UNCHANGED consoleVars
  BY <1>3, Zenon DEF ProcessCalls, ExecText, Exec, Join, Exit, Halt, Answers, Stops
<1>4. ASSUME NEW p \in Threads, ConsoleCalls(p)
      PROVE  UNCHANGED consoleVars
  BY <1>4, Zenon DEF ConsoleCalls, Write, Read, Answers, Stops
<1>5. ASSUME NEW p \in Threads, KernelSteps(p)
      PROVE  UNCHANGED consoleVars \/ ConsoleStep
  <2>1. CASE NextChar(p)
    BY <2>1 DEF NextChar, CallWrite, DriverStep, ReadStep
  <2>2. CASE CharSteps(p)
    BY <2>2, Zenon DEF CharSteps, PutChar, WriteSteps, DriverStep, ReadStep
  <2>3. CASE Removed(p) \/ JoinReturn(p) \/ Destroy(p) \/ ConsoleReturn(p)
    BY <2>3, Zenon DEF Removed, JoinReturn, Destroy, ConsoleReturn, Stops
  <2>4. ASSUME NEW q \in Threads, Exchange(p, q)
        PROVE  UNCHANGED consoleVars
    BY <2>4, Zenon DEF Exchange
  <2>. QED BY <1>5, <2>1, <2>2, <2>3, <2>4, Zenon DEF KernelSteps
<1>6. CASE ConsoleInterrupts
  BY <1>6 DEF ConsoleInterrupts, WriteDone, DriverStep, ReadStep
<1>. QED BY <1>1, <1>2, <1>3, <1>4, <1>5, <1>6 DEF Next

(* However many processes read and write the console, PutChar never finds  *)
(* the display at work, and the readers together get the characters in the *)
(* order they were typed, each once (userprog/synch_console.cc over the    *)
(* one-character buffer of machine/console.cc).                            *)
THEOREM ConsoleKeepsOrder == Spec => []CharactersKeepTheirTurn
<1>1. ProcessInit => DriverInv /\ ReadInv
  BY DriverInit, ReadInitInv DEF ProcessInit, ConsoleInit
<1>2. DriverInv /\ ReadInv /\ [Next]_allVars => DriverInv' /\ ReadInv'
  <2> SUFFICES ASSUME DriverInv, ReadInv, [Next]_allVars
               PROVE  DriverInv' /\ ReadInv'
    OBVIOUS
  <2>1. CASE UNCHANGED consoleVars
    BY <2>1, DriverNext, ReadNext DEF consoleVars, writeVars
  <2>2. CASE DriverStep /\ UNCHANGED readVars
    BY <2>2, DriverNext, ReadNext
  <2>3. CASE ReadStep
    BY <2>3, DriverNext, ReadNext, ReadLeavesWriters
  <2>. QED BY <2>1, <2>2, <2>3, ProcessesUseConsole DEF ConsoleStep
<1>3. DriverInv /\ ReadInv => CharactersKeepTheirTurn
  BY AcquiredAlone, Zenon DEF ReadInv, InputInOrder, CharactersKeepTheirTurn
<1>. QED BY <1>1, <1>2, <1>3, PTL DEF Spec
=============================================================================
