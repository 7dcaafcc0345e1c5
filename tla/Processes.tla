------------------------------- MODULE Processes -----------------------------
(***************************************************************************)
(* The system calls of user processes, SyscallHandler of                   *)
(* userprog/exception.cc, in the build with the file system and demand     *)
(* loading (filesys/).  A call is one step where it does not wait for      *)
(* another process (Join, Exit, Remove) or for the console (module         *)
(* SynchConsole).  Inside, calls use what other modules show: the channel  *)
(* of a thread is a rendezvous (Channel), a file has a count of the open   *)
(* files and removal waits for it (FileRemoval).  What files and           *)
(* directories hold is left to FileData and FileSystem.                    *)
(*                                                                         *)
(* A call that looks a name up also waits for the disk, and another        *)
(* process may call the file system meanwhile, which "assumes there is no  *)
(* concurrent access" (file_system.cc:185).  Where calls that get into     *)
(* each other's way may overlap, the machine may stop (CallsOverlap);      *)
(* FileRemoval follows them step by step.                                  *)
(***************************************************************************)
EXTENDS SynchConsole, ListOps

CONSTANTS
  SIZE,         \* the length of a table (20 in the code)
  NoItem,       \* an empty entry of a table, `T()`
  Main,         \* the process that StartProcess runs
  Files,        \* file names
  Programs,     \* the files that are executables
  BadName,      \* a name whose address is null, or that is too long
  MaxSize,      \* bound: characters of a Read or a Write
  MaxDisplay,   \* bound: characters displayed
  Scenarios     \* records: the processes there may be, the calls that they
                \* make, the arguments of Exit, what is typed, and how many
                \* ids threads that ended before used up

ASSUME TableConstants == SIZE \in Nat

ASSUME ProcessConstants ==
  /\ Main \in Threads
  /\ BadName \notin Files /\ Programs \subseteq Files
  /\ \A s \in Scenarios : s.processes \subseteq Threads /\ s.used \in 0 .. SIZE - 1

VARIABLES
  scenario,
  machine,      \* "on", "halted", "aborted" by an assertion, "undefined"
                \* after a pointer to a deleted thread was used, or "overlap"
  state,        \* state[p]: where process p is, and the arguments it keeps
  dropped,      \* ready threads that Thread::Join took from the ready list
  opFD,         \* opFD[p]: the table of open files of p
  threadUPS,    \* the table of threads
  tId, joinable,
  program,      \* program[p]: the executable that p runs
  message,      \* message[p]: what p sends on its channel when it ends
  r4, r2,       \* the registers of the argument of Exit and of the answer
  inDirectory,  \* the files there are
  count, remover   \* of the table of open files: the count, and the thread
                   \* that removes the file

fileVars == <<inDirectory, count, remover>>
threadVars == <<threadUPS, tId, joinable, program>>
exitVars == <<message, r4>>
processVars == <<scenario, machine, state, dropped, opFD, threadVars, exitVars, r2, fileVars>>
allVars == <<processVars, consoleVars>>

-----------------------------------------------------------------------------
(* Tables, lib/table.hh: an array, the count `current` of indexes handed   *)
(* out, and the list `freed` of those below it that were given back.       *)

EmptyTable ==
  [data |-> [i \in 0 .. SIZE - 1 |-> NoItem], current |-> 0, freed |-> <<>>]

(* Table::HasKey, of an index that is not negative. *)
HasKey(t, i) == i < t.current /\ ~Has(t.freed, i)

(* Table::Get. *)
TableGet(t, i) == IF HasKey(t, i) THEN t.data[i] ELSE NoItem

(* The index that Table::Add uses: one that was freed, the next one, or    *)
(* none.                                                                   *)
AddIndex(t) ==
  IF t.freed # <<>> THEN Head(t.freed).item
  ELSE IF t.current < SIZE THEN t.current ELSE -1

(* What Table::Add does to the table. *)
TableAdd(t, item) ==
  IF AddIndex(t) = -1 THEN t
  ELSE [t EXCEPT !.data[AddIndex(t)] = item,
                 !.current = IF t.freed = <<>> THEN @ + 1 ELSE @,
                 !.freed = IF @ = <<>> THEN @ ELSE SortedPop(@)]

(* The loop at the end of Table::Remove with `current` = n: indexes that   *)
(* were freed leave the list until the last index is in use.               *)
Trim(t, n) ==
  LET last == Max({0} \cup {k \in 1 .. n : ~Has(t.freed, k - 1)})
  IN  [t EXCEPT !.current = last,
                !.freed = SelectSeq(@, LAMBDA e : e.item < last)]

(* Table::Remove. *)
TableRemove(t, i) ==
  IF ~HasKey(t, i) THEN t
  ELSE IF i = t.current - 1 THEN Trim(t, i)
  ELSE [t EXCEPT !.freed = SortedInsert(@, i, i)]

(* The table as a map. *)
Keys(t) == {i \in 0 .. SIZE - 1 : HasKey(t, i)}

-----------------------------------------------------------------------------

InState(p, place) == machine = "on" /\ p \notin dropped /\ state[p].at = place

State(at, on, val) == [at |-> at, on |-> on, value |-> val]
User == State("user", None, 0)

(* The table of a new thread: the two entries of the console are null. *)
NewTable == TableAdd(TableAdd(EmptyTable, NoItem), NoItem)

ProcessInit ==
  /\ ConsoleInit
  /\ scenario \in {s \in Scenarios : s.typed = input}
  /\ machine = "on"
  /\ state = [p \in Threads |-> IF p = Main THEN User ELSE State("unborn", None, 0)]
  /\ dropped = {}
  /\ opFD = [p \in Threads |-> NewTable]
  /\ threadUPS = [TableAdd(EmptyTable, Main) EXCEPT !.current = scenario.used + 1]
  /\ tId = [p \in Threads |-> IF p = Main THEN 0 ELSE -1]
  /\ joinable = [p \in Threads |-> FALSE]
  /\ program = [p \in Threads |-> None]
  /\ message = [p \in Threads |-> 0]
  /\ r4 = [p \in Threads |-> 0]
  /\ r2 = [p \in Threads |-> 0]
  /\ inDirectory = Files
  /\ count = [f \in Files |-> 0]
  /\ remover = [f \in Files |-> None]

(* Process p is in user mode and makes a system call. *)
Calls(p, call) == InState(p, "user") /\ call \in scenario.calls

Becomes(p, s) == state' = [state EXCEPT ![p] = s]

Answer(p, val) == r2' = [r2 EXCEPT ![p] = val]

(* A call that only answers. *)
Answers(p, val) ==
  /\ Answer(p, val)
  /\ UNCHANGED <<scenario, machine, state, dropped, opFD, threadVars, exitVars,
                 fileVars, consoleVars>>

(* The machine stops. *)
Stops(how) ==
  /\ machine' = how
  /\ UNCHANGED <<scenario, state, dropped, opFD, threadVars, exitVars, r2,
                 fileVars, consoleVars>>

-----------------------------------------------------------------------------
(* Files *)

(* FileSystem::Open finds the file. *)
CanOpen(name) == name \in inDirectory /\ remover[name] = None

(* Mutant: a file that finds no room in the table stays open. *)
Open_NoDelete(p, name) ==
  /\ Calls(p, "Open")
  /\ CanOpen(name)
  /\ count' = [count EXCEPT ![name] = @ + 1]
  /\ opFD' = [opFD EXCEPT ![p] = TableAdd(@, name)]
  /\ Answer(p, AddIndex(opFD[p]))
  /\ UNCHANGED <<scenario, machine, state, dropped, threadVars, exitVars,
                 inDirectory, remover, consoleVars>>

(* Open.  A file that finds no room in the table is closed again. *)
Open(p, name) ==
  /\ Calls(p, "Open")
  /\ CanOpen(name)
  /\ count' = [count EXCEPT ![name] = IF AddIndex(opFD[p]) = -1 THEN @ ELSE @ + 1]
  /\ opFD' = [opFD EXCEPT ![p] = TableAdd(@, name)]
  /\ Answer(p, AddIndex(opFD[p]))
  /\ UNCHANGED <<scenario, machine, state, dropped, threadVars, exitVars,
                 inDirectory, remover, consoleVars>>

(* Open, Exec, Create and Remove with a name that is bad or not there. *)
NameErrors(p, name) ==
  \/ Calls(p, "Open") /\ ~CanOpen(name) /\ Answers(p, -1)
  \/ Calls(p, "Exec") /\ ~CanOpen(name) /\ Answers(p, -1)
  \/ Calls(p, "Create") /\ name = BadName /\ Answers(p, 1)
  \/ Calls(p, "Remove") /\ name \notin inDirectory /\ Answers(p, 1)

(* The processes that the destructor of OpenFile tells that a file they    *)
(* remove is no longer open, when closed[f] open files of each f end.      *)
Woken(closed) ==
  {p \in Threads : \E f \in Files :
     closed[f] > 0 /\ count[f] = closed[f] /\ remover[f] = p}

(* The destructor of OpenFile, while the states of the processes become    *)
(* `next`.                                                                 *)
EndFiles(closed, next) ==
  /\ count' = [f \in Files |-> count[f] - closed[f]]
  /\ state' = [p \in Threads |->
                 IF p \in Woken(closed) THEN [state[p] EXCEPT !.at = "woken"] ELSE next[p]]

(* The destructor looks the remover up by its id and asserts that the id   *)
(* is not negative.                                                        *)
FindsRemover(closed) == \A p \in Woken(closed) : tId[p] >= 0

(* Close. *)
Close(p, fd) ==
  /\ Calls(p, "Close")
  /\ fd > 1 /\ HasKey(opFD[p], fd)
  /\ LET closed == [f \in Files |-> IF f = TableGet(opFD[p], fd) THEN 1 ELSE 0]
     IN  IF FindsRemover(closed)
         THEN /\ EndFiles(closed, state)
              /\ opFD' = [opFD EXCEPT ![p] = TableRemove(@, fd)]
              /\ Answer(p, 0)
              /\ UNCHANGED <<scenario, machine, dropped, threadVars, exitVars,
                             inDirectory, remover, consoleVars>>
         ELSE Stops("aborted")

(* Close of the console or of a descriptor that is not in use. *)
CloseErrors(p, fd) ==
  /\ Calls(p, "Close")
  /\ \/ fd < 0 /\ Stops("aborted")
     \/ fd >= 0 /\ (fd \in {0, 1} \/ ~HasKey(opFD[p], fd)) /\ Answers(p, -1)

(* Create, of a file; it may find no room on the disk. *)
Create(p, name) ==
  /\ Calls(p, "Create")
  /\ \/ name \in Files /\ Answers(p, 1)
     \/ /\ name \in Files \ inDirectory
        /\ inDirectory' = inDirectory \cup {name}
        /\ Answer(p, 0)
        /\ UNCHANGED <<scenario, machine, state, dropped, opFD, threadVars, exitVars,
                       count, remover, consoleVars>>

(* Remove.  A process that finds the file being removed waits for the      *)
(* lock, so it makes the call when the other is done.                      *)
RemoveFile(p, name) ==
  /\ Calls(p, "Remove")
  /\ name \in inDirectory /\ remover[name] = None
  /\ IF count[name] = 0
     THEN /\ inDirectory' = inDirectory \ {name}
          /\ Answer(p, 0)
          /\ UNCHANGED <<state, remover>>
     ELSE /\ remover' = [remover EXCEPT ![name] = p]
          /\ Becomes(p, State("remove", name, 0))
          /\ UNCHANGED <<inDirectory, r2>>
  /\ UNCHANGED <<scenario, machine, dropped, opFD, threadVars, exitVars, count,
                 consoleVars>>

(* Remove with isDirectory. *)
RemoveDirectory(p) == Calls(p, "Remove") /\ Answers(p, -2)

(* The rest of Remove, when no one has the file open. *)
Removed(p) ==
  /\ InState(p, "woken")
  /\ inDirectory' = inDirectory \ {state[p].on}
  /\ remover' = [remover EXCEPT ![state[p].on] = None]
  /\ Becomes(p, User)
  /\ Answer(p, 0)
  /\ UNCHANGED <<scenario, machine, dropped, opFD, threadVars, exitVars, count,
                 consoleVars>>

-----------------------------------------------------------------------------
(* Processes *)

(* A process that has not been started; which one does not matter. *)
NextUnborn ==
  LET unborn == {q \in scenario.processes : state[q].at = "unborn"}
  IN  IF unborn = {} THEN {} ELSE {CHOOSE q \in unborn : TRUE}

(* The constructor of Thread takes the next id, or -1 if there is none     *)
(* left; the table of open files is the NewTable of ProcessInit.           *)
NewThread(q, canJoin) ==
  /\ tId' = [tId EXCEPT ![q] = AddIndex(threadUPS)]
  /\ threadUPS' = TableAdd(threadUPS, q)
  /\ joinable' = [joinable EXCEPT ![q] = canJoin]

(* Exec: the file is opened, and stays open as long as the machine runs.   *)
(* The new process runs even if there is no id left.                       *)
Exec(p, name, canJoin) ==
  /\ Calls(p, "Exec")
  /\ name \in Programs /\ CanOpen(name)
  /\ \E q \in NextUnborn :
       /\ NewThread(q, canJoin)
       /\ program' = [program EXCEPT ![q] = name]
       /\ Becomes(q, User)
       /\ Answer(p, AddIndex(threadUPS))
  /\ count' = [count EXCEPT ![name] = @ + 1]
  /\ UNCHANGED <<scenario, machine, dropped, opFD, exitVars, inDirectory, remover,
                 consoleVars>>

(* Exec of a file that is not an executable, as AddressSpace asserts. *)
ExecText(p, name) ==
  /\ Calls(p, "Exec")
  /\ name \notin Programs /\ CanOpen(name)
  /\ Stops("aborted")

(* Join: the thread of the id is looked up, and the caller waits on its    *)
(* channel.  The threads of some ids have been deleted.                    *)
Join(p, id) ==
  /\ Calls(p, "Join")
  /\ LET q == TableGet(threadUPS, id)
     IN  CASE id < 0 -> Stops("aborted")
           [] ~HasKey(threadUPS, id) -> Answers(p, -1)
           [] q = NoItem \/ (q # NoItem /\ state[q].at = "gone") -> Stops("undefined")
           [] ~joinable[q] -> Stops("aborted")
           [] OTHER ->
                /\ Becomes(p, State("join", id, 0))
                /\ UNCHANGED <<scenario, machine, dropped, opFD, threadVars,
                               exitVars, r2, fileVars, consoleVars>>

(* Processes p and q are at the two ends of the channel of q. *)
Meet(p, q) ==
  /\ state[p].at = "join" /\ TableGet(threadUPS, state[p].on) = q
  /\ state[q].at = "exit"

(* The message of q goes from Send to Receive. *)
Exchange(p, q) ==
  /\ InState(p, "join") /\ InState(q, "exit") /\ Meet(p, q)
  /\ state' = [state EXCEPT ![p] = State("received", @.on, message[q]),
                            ![q] = State("sent", None, 0)]
  /\ UNCHANGED <<scenario, machine, dropped, opFD, threadVars, exitVars, r2,
                 fileVars, consoleVars>>

(* The processes on the ready list when another one runs. *)
Ready ==
  {p \in Threads \ dropped :
     \/ state[p].at \in {"user", "received", "woken", "sent"}
     \/ state[p].at = "write" /\ acquiring[p] = None /\ blocked[p] = None
     \/ state[p].at = "read" /\ rAcquiring[p] = None /\ rBlocked[p] = None
     \/ \E q \in Threads : Meet(p, q) \/ Meet(q, p)}

(* The end of Thread::Join: the first ready thread is taken from the ready *)
(* list, and the call answers.                                             *)
JoinReturn(p) ==
  /\ InState(p, "received")
  /\ \/ Ready \ {p} = {} /\ UNCHANGED dropped
     \/ \E q \in Ready \ {p} : dropped' = dropped \cup {q}
  /\ Becomes(p, User)
  /\ Answer(p, state[p].value)
  /\ UNCHANGED <<scenario, machine, opFD, threadVars, exitVars, fileVars, consoleVars>>

(* Mutant: Finish is called without the status. *)
Exit_NoStatus(p, status) ==
  /\ Calls(p, "Exit")
  /\ r4' = [r4 EXCEPT ![p] = status]
  /\ message' = [message EXCEPT ![p] = 0]
  /\ Becomes(p, State(IF joinable[p] THEN "exit" ELSE "sent", None, 0))
  /\ UNCHANGED <<scenario, machine, dropped, opFD, threadVars, r2, fileVars, consoleVars>>

(* Exit: Thread::Finish sends the status to the process that joins. *)
Exit(p, status) ==
  /\ Calls(p, "Exit")
  /\ r4' = [r4 EXCEPT ![p] = status]
  /\ message' = [message EXCEPT ![p] = status]
  /\ Becomes(p, State(IF joinable[p] THEN "exit" ELSE "sent", None, 0))
  /\ UNCHANGED <<scenario, machine, dropped, opFD, threadVars, r2, fileVars, consoleVars>>

(* The open files that the destructor of Thread closes: those before the   *)
(* first index that is not in use.                                         *)
ClosedByDestructor(p) == {i \in Keys(opFD[p]) : \A j \in 0 .. i : HasKey(opFD[p], j)}

(* The entries of p's table in the set that are open files of f. *)
OpenIn(p, entries, f) == {i \in entries : TableGet(opFD[p], i) = f}

(* Mutant: the id of the thread is given back. *)
Destroy_GiveId(p) ==
  /\ InState(p, "sent") /\ Ready \ {p} # {}
  /\ EndFiles([f \in Files |-> Cardinality(OpenIn(p, ClosedByDestructor(p), f))],
              [state EXCEPT ![p] = State("gone", None, 0)])
  /\ threadUPS' = IF tId[p] = -1 THEN threadUPS ELSE TableRemove(threadUPS, tId[p])
  /\ UNCHANGED <<scenario, machine, dropped, opFD, tId, joinable, program, exitVars, r2,
                 inDirectory, remover, consoleVars>>

(* The thread that runs next deletes the one that has finished. *)
Destroy(p) ==
  /\ InState(p, "sent") /\ Ready \ {p} # {}
  /\ LET closed == [f \in Files |-> Cardinality(OpenIn(p, ClosedByDestructor(p), f))]
     IN  IF FindsRemover(closed)
         THEN /\ EndFiles(closed, [state EXCEPT ![p] = State("gone", None, 0)])
              /\ UNCHANGED <<scenario, machine, dropped, opFD, threadVars, exitVars, r2,
                             inDirectory, remover, consoleVars>>
         ELSE Stops("aborted")

(* Halt, and a system call that there is not. *)
Halt(p) ==
  /\ Calls(p, "Halt")
  /\ \/ Stops("halted")
     \/ Stops("aborted")

-----------------------------------------------------------------------------
(* Concurrent calls of the file system *)

(* The calls that p may be at.  Exec opens the program and creates a file  *)
(* for swapping; a Remove that waited goes on when it is woken.            *)
Opens(p) == \E call \in {"Open", "Exec"} : Calls(p, call)
Creates(p) == \E call \in {"Create", "Exec"} : Calls(p, call)
Removes(p) == Calls(p, "Remove") \/ InState(p, "woken")

(* Two calls overlap.  A Create makes its name visible before it sets the  *)
(* count to 0 and drops the locks, so the count of an Open in between is   *)
(* lost; a Remove does not see an Open that has passed its test and not    *)
(* counted yet, and no lock keeps it from another Remove or a Create.  Two *)
(* Opens only read, and filesysCreateLock keeps two Creates apart.         *)
CallsOverlap(p) ==
  /\ \E q \in Threads \ {p} :
       \/ Creates(p) /\ Opens(q)
       \/ Removes(p) /\ (Opens(q) \/ Creates(q) \/ Removes(q))
  /\ Stops("overlap")

-----------------------------------------------------------------------------
(* Reading and writing *)

(* Write of `size` bytes.  The buffer is taken from the process first, and *)
(* ReadBufferFromUser asserts that it is not empty.                        *)
Write(p, size, fd) ==
  /\ Calls(p, "Write")
  /\ CASE size < 0 \/ fd <= 0 -> Answers(p, 0)
       [] size = 0 -> Stops("aborted")
       [] fd = 1 ->
            /\ Len(display) + size <= MaxDisplay
            /\ Becomes(p, State("write", size, size))
            /\ UNCHANGED <<scenario, machine, dropped, opFD, threadVars, exitVars, r2,
                           fileVars, consoleVars>>
       [] ~HasKey(opFD[p], fd) -> Answers(p, 0)
       [] OTHER -> \E n \in 0 .. size : Answers(p, n)

(* Read of `size` bytes.  Entry 1 of the table is a null pointer. *)
Read(p, size, fd) ==
  /\ Calls(p, "Read")
  /\ CASE size <= 0 \/ fd < 0 -> Answers(p, 0)
       [] fd = 0 ->
            /\ Becomes(p, State("read", size, size))
            /\ UNCHANGED <<scenario, machine, dropped, opFD, threadVars, exitVars, r2,
                           fileVars, consoleVars>>
       [] fd = 1 -> Stops("undefined")
       [] ~HasKey(opFD[p], fd) -> Answers(p, 0)
       [] OTHER -> \E n \in 0 .. size : Answers(p, n)

(* The next character of a Write or a Read of the console. *)
NextChar(p) ==
  /\ \/ InState(p, "write") /\ CallWrite(p)
     \/ InState(p, "read") /\ CallRead(p)
  /\ state[p].on > 0
  /\ state' = [state EXCEPT ![p].on = @ - 1]
  /\ UNCHANGED <<scenario, machine, dropped, opFD, threadVars, exitVars, r2, fileVars>>

CharSteps(p) ==
  /\ \/ InState(p, "write") /\ (PutChar(p) \/ WriteSteps(p))
     \/ InState(p, "read") /\ (ReadGrant(p) \/ ReadSteps(p))
  /\ UNCHANGED processVars

(* The Write or the Read has gone through its characters. *)
ConsoleReturn(p) ==
  /\ \/ InState(p, "write") /\ At(p, "idle")
     \/ InState(p, "read") /\ RAt(p, "idle")
  /\ state[p].on = 0
  /\ Becomes(p, User)
  /\ Answer(p, state[p].value)
  /\ UNCHANGED <<scenario, machine, dropped, opFD, threadVars, exitVars, fileVars,
                 consoleVars>>

ConsoleInterrupts ==
  /\ machine = "on"
  /\ WriteDone \/ CheckCharAvail
  /\ UNCHANGED processVars

-----------------------------------------------------------------------------

Ids == -1 .. SIZE - 1

Names == Files \cup {BadName}

FileCalls(p) ==
  \/ \E name \in Names :
       NameErrors(p, name) \/ Open(p, name) \/ Create(p, name) \/ RemoveFile(p, name)
  \/ \E fd \in Ids : Close(p, fd) \/ CloseErrors(p, fd)
  \/ RemoveDirectory(p)
  \/ CallsOverlap(p)

ProcessCalls(p) ==
  \/ \E name \in Names :
       ExecText(p, name) \/ \E canJoin \in BOOLEAN : Exec(p, name, canJoin)
  \/ \E id \in Ids : Join(p, id)
  \/ \E status \in scenario.statuses : Exit(p, status)
  \/ Halt(p)

ConsoleCalls(p) ==
  \E size \in -1 .. MaxSize, fd \in Ids : Write(p, size, fd) \/ Read(p, size, fd)

(* The steps that the kernel goes on with by itself. *)
KernelSteps(p) ==
  \/ Removed(p) \/ JoinReturn(p) \/ Destroy(p)
  \/ NextChar(p) \/ CharSteps(p) \/ ConsoleReturn(p)
  \/ \E q \in Threads : Exchange(p, q)

Next ==
  \/ \E p \in Threads : FileCalls(p) \/ ProcessCalls(p) \/ ConsoleCalls(p) \/ KernelSteps(p)
  \/ ConsoleInterrupts

(* A process that can go on in the kernel does, and the console works and  *)
(* polls.                                                                  *)
Fairness ==
  /\ \A p \in Threads : WF_allVars(KernelSteps(p))
  /\ WF_allVars(ConsoleInterrupts)

Spec == ProcessInit /\ [][Next]_allVars /\ Fairness

-----------------------------------------------------------------------------

(* The count of open files of a file is the number of descriptors of it    *)
(* that processes hold, of processes that were started from it, and of     *)
(* descriptors that a process had beyond a gap in its table when it ended, *)
(* as long as no Create or Remove has overlapped another call: Create sets *)
(* the count to 0 after its name can be found (file_system.cc:270-277).    *)
OpenCountsAreExact ==
  LET Left(p) == IF state[p].at = "gone" THEN Keys(opFD[p]) \ ClosedByDestructor(p)
                                         ELSE Keys(opFD[p])
  IN  \A f \in Files :
        count[f] = Cardinality({p \in Threads : program[p] = f})
                   + Cardinality(UNION {{<<p, i>> : i \in OpenIn(p, Left(p), f)} : p \in Threads})

(* "A unique identifier for an executing user program" (syscall.h): the id *)
(* that Exec answered names that process in the table of threads for good, *)
(* also after the process and others have ended.                           *)
IdsNameProcesses ==
  \A p \in Threads : tId[p] >= 0 => TableGet(threadUPS, tId[p]) = p

(* Join answers the status that the process of that id gave to Exit. *)
JoinAnswersTheStatus ==
  [][\A p, q \in Threads :
       state[p].at = "received" /\ state'[p].at = "user" /\ tId[q] = state[p].on
         => r2'[p] = r4[q]]_allVars

(* While a process reads the console and there is something to read, the   *)
(* next character is read by someone, unless the machine stops.            *)
TypedCharactersAreRead ==
  \A n \in 0 .. MaxTyped - 1 :
    (Len(got) = n /\ n < Len(input) /\ \E p \in Threads : rpc[p] \in {"acquired", "char"})
      ~> (Len(got) > n \/ machine # "on")
=============================================================================
