# Verification of NachOS-Vigier-SOII

TLA+ specifications of this Nachos: threads and their synchronisation, the
simulated machine and its devices, the file system, virtual memory, system calls
and the shell with its commands. Each module is a model of the code under
`src/code/`; TLC checks the modules on small instances, and TLAPS proves some of
the results for every instance. `PROJECT.json` lists the runs, maps every
definition to the lines it models, and lists the hazards of the code with the
properties that would notice them.

In this text *thread* is a Nachos thread, paths are relative to `src/code/`.

## 1. The system

Nachos runs as one UNIX process. A thread loses the CPU only where it calls the
scheduler (`Yield`, `Sleep`, `Finish`) or where an interrupt handler runs, that is
where interrupts are enabled again. So the unit of interleaving in the models is the
code between two such points; in particular the body of a semaphore's `V` is one
step and a `Lock::Acquire` is several.

| part | code | modules |
|---|---|---|
| semaphores | `threads/semaphore.*` | `Semaphore` ⊑ `CountingSemaphore`; `QueueLemmas`, `MonitorClientsProofs` |
| locks, with inherited priorities | `threads/lock.*`, `threads/thread.cc` | `Lock`; `Mutex`; `MonitorClientsProofs` |
| condition variables | `threads/condition.*` | `Condition`, `MonitorClients` ⊑ `Monitor`; `MonitorClientsProofs`, `MonitorProofs` |
| channels | `threads/channel.*` | `Channel` (on `Monitor`); `ChannelProofs` |
| synchronised lists | `threads/synch_list.hh` | `SynchList` (on `Monitor`) |
| scheduler, life of threads | `threads/scheduler.*`, `threads/thread.*` | `Scheduler`, `ListOps`; `SchedulerProofs` |
| interrupts, time, timer | `machine/interrupt.*`, `machine/timer.*` | `Interrupt`, `ListOps` |
| disk: latency | `machine/disk.*` | `Disk` (on `Interrupt`) |
| disk: requests, synchronous disk | `machine/disk.*`, `filesys/synch_disk.*` | `Driver`, `SynchDisk` ⊑ `SectorStore`; `ProcessProofs` |
| network, post office | `machine/network.*`, `network/post.*` | `Driver`, `SynchList`, `PostOffice` |
| console | `machine/console.*`, `userprog/synch_console.*` | `Driver`, `SynchConsole`; `ProcessProofs` |
| directories, paths, Check | `filesys/file_system.*`, `filesys/directory.*` | `FileSystem` |
| headers, data, free map | `filesys/open_file.*`, `filesys/file_header.*`, `lib/bitmap.*` | `FileData` |
| open files and removal | `filesys/open_file.cc`, `filesys/file_system.cc` | `FileRemoval`; `FileRemovalProofs` |
| lists, tables | `lib/list.hh`, `lib/table.hh` | `ListOps` (as sequences), `Processes` (as records) |
| processor | `machine/mips_sim.cc`, `machine/machine.cc`, `machine/instruction.*` | `MipsWord`, `Mips` |
| stand-alone interpreter | `bin/execute.c` | `Interpreter` (what `Mips` is compared with) |
| MMU, address spaces, swap, core map | `machine/mmu.*`, `userprog/address_space.*`, `vmem/` | `Paging` ⊑ `PrivateMemory` (section 3); `PagingProofs` |
| system calls, processes | `userprog/exception.cc` | `Processes`; `ProcessProofs` |
| arguments of programs | `userprog/args.cc`, `userprog/transfer.cc` | `Arguments` |
| shell and commands | `userland/` | `Shell` |

How they build on each other (`A → B`: the model of A uses that of B or its
abstraction):

    Condition → Lock → Semaphore            MonitorClients composes the three
    Channel, SynchList → Monitor            (what MonitorClients is shown to implement)
    Driver → Mutex, CountingSemaphore       (what Lock and Semaphore implement)
    SynchDisk → Driver;  PostOffice → Driver, SynchList
    Processes → SynchConsole → Driver
    Shell → Arguments;  Disk → Interrupt;  Scheduler, Interrupt, Processes → ListOps
    Mips, Interpreter → MipsWord

An abstraction is used in place of an implementation only after the implementation
has been shown to refine it: `Semaphore` refines `CountingSemaphore` (TLC, and a
proof), `MonitorClients` refines `Monitor` (TLC with its liveness, and a proof of the
safety part), and `Monitor` refines `Mutex` (a proof). Scheduling is abstracted above `Semaphore`: a thread that
is ready may run, whichever the scheduler would choose; `Scheduler` has the policy.

## 2. Modules and the code

**`Semaphore`.** `value`, the `queue` of each semaphore, and `blockedOn` and `woken`,
which say where in `P` a thread is: asleep, or made ready by a `V` and not running
yet. `P` is the first turn of its loop, `ResumeP` a later one, `V` the whole of `V`
(which threads and interrupt handlers call). Nothing hands the unit of a `V` to the
thread it awakens: another one may take it. `CountingSemaphore` has a number and the
set of threads that wait, nothing else.

**`Lock`** adds `lockOwner` and the inherited priorities. `Acquire` donates before its
`P`, and the CPU may be lost between the return of `P` and the assignment of
`lockOwner`; both are kept as separate steps. **`Condition`** adds the queue of the
private semaphores of waiting threads; `Wait` is four steps (queue and release, `P`,
return of `P`, `Acquire`). Its `Broadcast` can lose the CPU after each `V`.
**`MonitorClients`** lets threads call all of them, with locks nested in one order.
`Monitor` is the promise of `condition.hh`: `Wait` releases and sleeps at once,
`Signal` makes the longest sleeper compete for the lock.

**`Channel`** is `Send` and `Receive` over one lock and two conditions, the mailbox
`buzon`, and the comparison by value with which `Send` recognises its message.
**`SynchList`** is `Append` and `Pop`.

**`Scheduler`** has the two ready lists with their inverted keys, the comparison of
their heads, `Fork`, `Yield`, `Sleep`, `Finish`, `Join` and the deletion of a finished
thread by the next one, with the idle loop and `Halt`. `Turn` is one turn of the loop
of `FindNextToRun`, and `doing` says where in these operations a thread is. The channel of `Join` is
reduced to its message. `Yield` may happen anywhere, so the random time slices of
`threads/preemptive.cc` add nothing.

**`Interrupt`** is the event list of the simulator: `Schedule`, `OneTick`,
`CheckIfDue`, `Idle`, `RestartTicks` and `Halt`. Times are `unsigned` in the counter
and `int` in the keys of the list; both widths are constants (`UINT_MAX`, `INT_MAX`).
**`Disk`** adds the requests of the disk with the time `ComputeLatency` gives them:
seek, rotation and the track buffer. `arrived` is history: since when the head has
been on its track.

**`Driver`** is the common shape of `SynchDisk`, of the sending half of the post
office and of the console's display: lock, request, `P` until the interrupt, unlock.
**`SynchDisk`** adds sectors; `SectorStore` is a set of registers with calls and
returns. **`PostOffice`** adds the network (which may lose packets), the one-packet
buffer of the device, the postal worker and the mailboxes, which are `SynchList`s.
**`SynchConsole`** adds the keyboard, which polls, with its buffer of one character,
and the readers.

**`FileData`** is the contents of files: chains of headers, `Read`, `Write`, `ReadAt`,
`WriteAt`, `Allocate`, and the bit map, of which each `Write` has a copy. A step ends
where a sector or the map is written. The history `mixed` marks the moment two `Write`s
of different files are at work; the properties are about what comes before.
**`FileRemoval`** is the entry of one file in
`tableDeArchivosAbierta` under concurrent opens, closes, removes and a re-creation in
the same sector; a step is what a thread does between two waits (disk, lock, channel).
**`FileSystem`** is the tree of directories with one caller, which the code assumes
("no concurrent access", `filesys/file_system.cc:185`). It keeps the order in which
header, bit map, table and entry are written, and the machine may stop and start
between any two writes. `directoryFile` and `directorySize` are the globals the
operations change on their way. A file has no data here.

**`Mips`** is `Machine::Run`: fetch, decode, every instruction with its delayed loads,
branch delay slots and traps, and an exception that may come at the fetch or at the
access. A word has `4 * B` bits, where the code has `B = 8`. **`Interpreter`** is the
loop of `bin/execute.c`, the repository's second simulator of the same instructions,
and has no load delay, faults or traps.

**`Paging`** has page tables, TLB, core map, frames, swap files and the clock, and a
process that faults is at one of the places of `LoadPage` where it may wait for the
disk. The three builds of the code are the values of `build`: whole programs loaded at
the start without TLB (`userprog`), loading on demand with the UNIX file system, where
a fault is not interrupted (`vmem`), and with the Nachos file system, where it is
(`filesys`). In the last one a swap file has length 0, and `WriteAt` and `ReadAt` on it
transfer nothing (`SwapHolds`). `PrivateMemory` is a memory per process.

**`Processes`** is the handler of system calls, with the tables of threads and of
open files, the rendezvous of `Exit` and `Join`, the counts of open files with the
`Remove` that waits for them, and `Read` and `Write` of the console through
`SynchConsole`. An assertion that fails and the use of a deleted thread end the
behaviour (`machine` is `"aborted"` or `"undefined"`). A call of the file system is one
step unless it waits for another process; in the code it also waits for the disk.
Where two calls that get into each other's way may overlap (`Create` with `Open`, or
`Remove` with any), the behaviour may end (`CallsOverlap`, `machine` is `"overlap"`):
`FileRemoval` has what they do then, step by step.

**`Arguments`** is `SaveArgs`, `WriteArgs` and the first steps of a new process on the
bytes of the two memories. **`Shell`** is the shell's loop, which splits each line in
place, and `touch`, `rm`, `cp`, `cat`, `write`, `echo` and `halt`, one step per system
call, over a table of files with contents. It ends in the same way where two calls
that look into or change directories or the map of free sectors may overlap.

History variables are marked in the modules.

## 3. What is model-checked

All runs are `tlc -config <cfg> <module>`. The mutants in `PROJECT.json` show, for each
property, a plausible slip in the code that the run would notice.

| run | instance | states | checks |
|---|---|---|---|
| `synch` | 3 threads and an interrupt handler on 2 semaphores (values 0 and 1, ≤ 2 units); 3 threads of priorities 0, 1, 2 on 2 nested locks and 2 conditions; 4 threads on a channel, messages 0 and 7 | 26 k | `NoLostWakeup`, `MutualExclusion`, `DonationsEndWithOwnership`, `BroadcastAwakensAll`, `SendReturnsAfterReceipt`, `MessagesHaveReceivers`, refinement of `CountingSemaphore` and of `Monitor` |
| `scheduler` | main and 3 threads, 2 joinable, 3 priorities | 14 k | `DestroyedThreadsAreGone`, `OnlyJoinDropsThreads` |
| `interrupt` | timer, keyboard, display, a disk of 2 tracks of 3 sectors; time up to 14 | 506 k | `InterruptsAreOnTime`, `LatenciesArePhysical`, `LoopsEnd` |
| `synch_disk` | 3 threads, 2 sectors, 2 values | 16 k | `RequestsFindDiskIdle`, refinement of `SectorStore` |
| `post_office` | 2 senders, 2 messages, 2 mailboxes (one unread), 2 readers, losses | 56 k | `MailIsKept`, `MailGetsThrough` |
| `file_removal` | 2 openers with 2 removers, or with a remover and a creator, or with a file from before the start | 114 k | `FreedFilesAreClosed`, `FreedOnce`, `RemoversAreAwakened` |
| `file_data` | 2 files; 2 writers and a reader of one, or 2 directory users of one, or a writer of each and a reader; 10 sectors of 2 bytes, 2 sectors per header; 3 calls of 1, 5 or 10 bytes | 259 k | `SectorsHaveOneOwner`, `WritesActOnFile`, `ReadsReturnTheFile` |
| `file_tree` | 8 sectors, directories of 1 entry that grow, 3 names, paths of ≤ 3 names, 5 calls, 1 stop | 587 k | `DiskIsSound`, `TreeFollowsCalls`, `FailuresHaveReasons`, `ComesBack`, `SectorsAreFreed`, `CheckFindsLeaks` |
| `paging` | 2 processes of 2 pages or 1 of 3, 2 frames, TLB of 2, pages of 2 bytes, all builds | 160 k | `TranslationsAreOwned`, `PagingIsInvisible` |
| `mips` | words of 4 bits; any instruction before or after one of 11 | 160 k | `MachineFollowsInterpreter`, `ArithmeticIsExact` |
| `processes` | 3 processes, a file and a program, tables of 4; 4 scenarios of calls | 111 k | `OpenCountsAreExact`, `IdsNameProcesses`, `CharactersKeepTheirTurn`, `JoinAnswersTheStatus`, `TypedCharactersAreRead` |
| `shell` | lines of up to 8 characters, 3 lines, 3 commands, 2 arguments each | 231 k | `ArgumentsArrive`, `CopiesAreComplete` |

What the less obvious ones say:

* `PagingIsInvisible` is a refinement, step by step: what a process would find at each
  address (in its frame, its swap file or the executable) changes only as
  `PrivateMemory` allows, whatever is loaded, replaced or saved meanwhile. It is about
  behaviours in which no frame was taken from another process and no page was lost in an
  empty swap file.
* `MachineFollowsInterpreter` compares two programs of the repository. It leaves out
  where they differ, and `Differ` in `Mips` lists that: system calls; unaligned loads
  and stores and the upper word of products, which the interpreter does not do as the
  machine does; division by zero; `SRL` of a negative word; negative immediates of
  `ANDI`, `ORI`, `XORI`; a jump across the end of its region; `JALR` that links the
  register it jumps through, register 0 included. `ArithmeticIsExact` is about the arithmetic among these.
* `OpenCountsAreExact`: what `Remove` waits for is exact, if the executables and the
  descriptors beyond a gap, which are never closed, are counted as open, and as long as no
  `Create` or `Remove` overlaps another call.
* `TreeFollowsCalls` says nothing of the calls that find no sector for a directory to
  grow: they return true and the entry is not there (section 5).
* `SectorsHaveOneOwner` has two files with writers, and they may use the map in turns; it
  says nothing once two of them are at work at the same time.
* `CopiesAreComplete`: other commands may come in between the calls of `cp`, and remove or
  create its files, but not in the middle of one.
* `FreedFilesAreClosed` and `OnlyJoinDropsThreads` name the ways in which the code
  does otherwise (section 5) and exclude all others.

Why the bounds are enough to be interesting. Three threads are needed for every race
of the monitor: one signals, one was awakened, and one gets in before it. With four
threads a channel has two senders and two receivers at once. In `file_data` a header
holds four bytes, so the lengths 1, 5 and 10 end inside a sector, past the end of a
header and past the end of a chain; ten sectors are few enough to fill the disk in the
middle of each phase of `Write`. In `file_tree` a new directory has one entry, so the
second name makes it grow, and the four sectors that are free after formatting run out
at different points of `Create` and `CreateDir`; `MAX_DIR_LEVEL` is 3, so a path of three
names meets the limit of `SeparateDir`. In `paging` the processes together, or the one
of three pages, have more pages than there are frames; code and data share a page, and
the data end inside a page or at its end. Words of four bits have bytes of one, so sign
extension, partial words and carries between them all occur. A table of four is filled
by two descriptors or, in one scenario, by threads that have ended. A line of eight fills
the shell's buffer. In `interrupt` fourteen ticks are several rotations and a seek.

Bounds that the code does not have are named `Max…` in the modules. Names are symmetric
in `file_tree`, processes in `paging`; `processes` uses a view without the answers of
earlier calls, on which no step depends; `paging` follows a behaviour until the first
frame is taken from another process, and `file_data` until two files are written at
once, after which their properties say nothing.

Deadlock is checked in `synch_disk`. The other systems may stop: calls are bounded, the
machine halts, or all clients sleep (a `Receive` with no `Send`, a `Wait` with no
`Signal`).

**Fairness.** A thread that can go on inside an operation does (weak fairness of its
continuing steps, per thread), and a free lock is granted to one of the threads that wait
for it (weak fairness, per lock). The network and the console answer and poll for ever,
because each poll schedules the next one; the disk answers every request; the loops of
`Interrupt` go on. Operations are not called by obligation, with two exceptions: the
readers of `post_office` read again and again, and the threads of `file_removal` close
what they have opened. `scheduler`, `file_data`, `file_tree`, `paging`, `mips` and `shell`
check safety only, and so does `synch` for the channel. The scheduler justifies fairness to
a ready thread only as far as it is fair itself, which among equal keys it is not always
(section 5): the liveness results are about threads that get the CPU.

## 4. What is proved

TLAPS checks all steps of `QueueLemmas` (facts about sequences that are queues) and of
the seven modules of proofs.

* **Semaphores** (`MonitorClientsProofs`), for any finite set of threads, any semaphores
  and initial values (assumptions `ThreadsFinite` and `ConstantTypes` of `Semaphore`).
  The invariant is the conjunction of `SemTypeOK`, `QueueHoldsSleepers` and
  `NoLostWakeup`. None is inductive alone: that a `V` awakens somebody *new* needs
  that the queue holds only sleeping threads, each once. `NoLostWakeup` says that
  while threads sleep on a semaphore, each unit has an awakened thread on its way,
  `value[s] <= Cardinality(WokenOn(s))`; the proof follows how each step changes the
  two sides. From the invariant: `SemaphoreTypes`, `SemaphoreQueues`,
  `SemaphoreWakeups`, and `SemaphoreRefinement`, that each step is a step of
  `CountingSemaphore` or leaves its state alone.
* **Locks and conditions** (`MonitorClientsProofs`), for any threads, locks and conditions,
  from the assumptions of `Semaphore`, `Lock` and `Condition`: the semaphore of a lock begins with
  1, each thread has a private semaphore for `Wait`, which begins with 0, and a condition
  has one lock. `LocksExclude`: one thread at most is between the `P` and the `V` of a
  lock. `DonationsEnd`: who does not own a lock has no priority from it. Their invariant
  `LockInv` ties the value of the semaphore to the thread inside (`OneInside`), and says
  where each operation lets a thread be (`CallsAreInOrder`): without the second a
  `Release` inside `Wait` could come from a thread that sleeps. `LocksImplementMonitor`:
  each step of the implementation is one of `Monitor` or none. It needs
  `SleepersAreQueued` besides: a thread in `Wait` is in the list of its condition, or has
  one unit in its semaphore, until its `P` consumes it, so a `Signal` that comes between
  the `Release` and the `P` is not lost.
* **`MonitorProofs`**, for any threads, locks and conditions bound to those locks
  (`MonitorConstants`, a hypothesis of the theorems). `SleepersSleep`: a thread sleeps
  on one condition, once, and competes for a lock only after it was awakened.
  `MonitorIsMutex`: `Monitor`'s safety part implements `Mutex`'s; `Wait` is a
  `Release`, and `Signal` is the blocked `Acquire` of the thread it awakens, which is
  where the first result is needed.
* **`ChannelProofs`**, for finitely many threads and any messages (`ChannelAssumption`:
  the two conditions are two objects). `SendWaitsForReceipt`: `Send` returns
  only after its message was taken. `ReceiversAreAwakened`: while receivers sleep, each
  message has a thread on its way to take it. `ChannelUsesMonitor`: the channel calls
  lock and conditions as `Monitor` allows, which makes the results of `MonitorProofs`
  facts about it. The first is not obvious because `Send` compares values, and two
  messages may be equal: the invariant says that the owner of each message in `buzon`
  sleeps, or has just noted the head (`OwnersWait`), and that owners sleep in the order of
  their messages (`SleepInOrder`), so that the `Signal` of a `Receive` finds the owner of
  the message it took at the head of the sleepers.
* **Scheduler** (`SchedulerProofs`), for any threads with any priorities up to the greatest
  integer (`SchedulerConstants`). `DeletedThreadsAreGone`: a deleted thread had finished, and
  is neither current, nor in a ready list, nor marked for deletion again.
  `ReadyThreadsAreKept`: no step leaves a `READY` thread off the lists, but the end of
  `Join`. The invariant `SchedulerInv` says that a thread is at one place of one list and
  is `READY` there (`ListsAreReady`), and that a thread which sleeps, has finished, or has
  a value in its channel is `BLOCKED` (`WaitersAreBlocked`): a finished thread is therefore
  never chosen again. What `FindNextToRun` does to the lists is followed turn by turn:
  each turn keeps in the lists or in hand what it found there, also when the head it holds
  goes back and another takes its place. The insertion into a sorted list, whose place is
  a least element, uses that the order of the natural numbers is well-founded.
* **Processes** (`ProcessProofs`), for any processes, programs, files and size of the tables
  (`TableConstants` and `ProcessConstants`). `IdsAreUnique`: the ids that calls return name
  the processes they were given for. The invariant is that nothing leaves the table of
  threads, and that each id is the place of its process. `JoinAnswers`: a `Join` returns
  the status with which its process called `Exit`. The invariant says that who has
  received a status has the argument of a process that will not run again
  (`JoinersHaveStatus`). An `Exit` also closes files and by that may make the remover of a
  file ready, so it must be known that a remover is in `Remove` and not in `Join`
  (`RemoversWait`).
* **Drivers** (`ProcessProofs`), for any threads, sectors, data and typed characters
  (`DriverConstants`, `DiskConstants`, `ConsoleConstants`: the null value is none of them,
  and no typed byte equals `EOF`). `DiskIsIdle`: the disk has no request when it gets one.
  That the lock is held does not suffice, because the request ends in an interrupt and not
  in the thread that has the lock; the invariant follows the request: it is with the
  device, or has its unit in the semaphore, never both, and neither when no thread waits
  for it (`RequestIsOnce`). This part is about `Driver` and serves whatever is built on
  it. `DiskIsAStore`: every step is a step of `SectorStore`'s safety part, which takes
  effect when the disk gets the request. `ConsoleKeepsOrder`: what readers got,
  the device's buffer and the rest of the keyboard's input are, in this order, what was
  typed. It needs the same count for the keyboard: the character in the buffer has one unit
  in the readers' semaphore, or one reader that consumed the unit and has not fetched the
  character (`CharacterIsOnce`).
* **Removal of a file** (`FileRemovalProofs`), for any finite set of threads that open, close
  and remove a file, which has a remove lock and is not created again (`RemovalConstants` of
  `FileRemoval`, and the hypothesis `OneLife`). `RemovedOnce`: its sectors are freed once.
  `RemovedFilesAreClosed`: who has it open then was in `Open`, and either past the test of
  `removing` and not counted yet when `Remove` set it, or past the reading of the
  directory and not yet at the test when `Remove` cleared it. `RemoveNeverAborts`: each `Remove`
  holds the lock that it releases. The invariant says that the count is the number of
  threads that have the file open; that one `Remove` at a time is past the lock; how
  `allocated`, `removing` and `removed` go with its place (`FlagsAgree`); and that after
  somebody has seen the count 0 with `removing` set, only such late threads open it
  (`OnlyLateOpens`).
* **`PagingProofs`**, for any processes, frames, size of the TLB, executables and builds
  (`PagingAssumption`). `FramesAreOwned`: until a frame is taken from another process, the
  core map is the inverse of the page tables, and a valid entry of the TLB is what the
  page table of the running process says. The invariant `PagingInv` adds that a page is in
  one slot of the TLB at most (`OneSlot`): `EscribirFrameenSwap` takes back the first slot
  with the frame, and a second one would survive the victim. And it says what a process
  that waits for the disk inside `LoadPage` may rely on when it runs again, after other
  processes have faulted (`FaultAgrees`): the frame it reads into is marked for its page,
  which is not in the TLB yet. `PagingInv` was model-checked on the instance
  of `paging` before it was proved.

Only model-checked:

* Liveness (`BroadcastAwakensAll`, `LoopsEnd`, `MailGetsThrough`, `RemoversAreAwakened`,
  `TypedCharactersAreRead`, the fair parts of the refinements): outside of what TLAPS
  does here.
* `OpenCountsAreExact`: it adds up the entries of tables that `Trim` and the selection of
  a subsequence change, and what those compute needs induction over the sequence. The
  chains of headers in `FileData` and the paths in `FileSystem` need it too.
* `Mips` and `Shell`: so do the operations on words of any width and the recursive operator
  that splits the shell's lines.
* `PagingIsInvisible`: the refinement follows the bytes of frames and swap files through
  `LoadFromExe`, and multiplies page numbers by the size of a page, which the arithmetic of
  the provers does not reach.
* `MailIsKept` selects the messages of a mailbox from a sequence, and `InterruptsAreOnTime`
  folds over the list of events: induction over the sequence again. `LatenciesArePhysical`
  is about remainders of rotations by a number of ticks that is not fixed.

## 5. Where the code departs from what is said of it

The models contain what follows, as the code has it. The properties that are checked name
it as an exception or are stated so as not to depend on it.

Threads and time:

* `Join` calls `FindNextToRun` to see whether a thread is ready, and drops the one it
  returns (`threads/thread.cc:353`). It stays `READY` and is in no list.
* `FindNextToRun` picks the greater key, which is the lower priority, and among equal
  keys the list of threads that have blocked over that of threads that have yielded
  (`threads/scheduler.cc:81`, `threads/thread.cc:274`).
* A donation is made once, before `P`: a later owner has none, and a second waiter
  replaces the donation of the first (`threads/lock.cc:46`).
* Two `Send`s of equal values: one may sleep on after its message was received
  (`threads/channel.cc:49`).
* A finished thread may never be deleted when the next thread to run is a new one
  (`threads/scheduler.cc:150`); a second joiner waits for a deleted thread, and a later
  `Join` uses a pointer to it (`userprog/exception.cc:530`).
* `Finish` of the thread with `tId` 0 halts whatever is pending (`threads/thread.cc:224`).
* Past `INT_MAX` ticks interrupts come late, and if the counter steps over `UINT_MAX`
  without a `Schedule` just before, the loop over due interrupts does not end
  (`machine/interrupt.cc:285-300`). When `RestartTicks` sets the clock back, the track
  buffer's time is in the future (`machine/disk.cc:233`). The run stays below `INT_MAX`.

Files:

* `Open` reads the directory, tests `removing`, reads the header, and counts itself last. A
  `Remove` that sets the flag after the test sees a count of zero and frees the sectors of a
  file that is then open, and one that clears the flag before the test is not seen at all
  (`filesys/file_system.cc:575, 713`, `filesys/open_file.cc:45`). A `Create` in between
  resets the count and the locks: the close then uses a null `closeLock`
  (`filesys/open_file.cc:53`), and the second of two `Remove`s releases a lock it does not
  hold.
* `Create` makes its name visible before it resets the entry of the table
  (`filesys/file_system.cc:270-277`): the count of an `Open` in between is lost.
* A file from before the start has no remove lock until it is opened: two `Remove`s of it
  may both free its sectors. The run has one remover there.
* Two closes may both see the count 0, tell the remover and delete the write lock
  (`filesys/open_file.cc:64`).
* `Write` leaves sectors of headers marked when the disk is full
  (`filesys/open_file.cc:288, 375`); writers of two files lose each other's marks
  (`:190`); `Write` after `Read` on one handle goes to the wrong header (`:133`).
* `Create` returns true when the directory could not grow (`filesys/directory.cc:87`),
  although `filesys/file_system.cc:177-182` says that it fails. The
  entry a directory grows by has an uninitialised `isDirectory` (`:176`).
* `CreateDir` does not go back when there is no room for the table
  (`filesys/file_system.cc:366`); `Remove` frees the sectors before it takes the name
  away, and of a directory leaves the files marked; a failed path leaves a directory
  open, and a `Remove` of it waits for ever (`:464`).

Programs:

* A victim of another process is written to that process's swap file, but the page table
  that is edited is the one of the process that faults (`userprog/address_space.cc:240`).
  All turns of the clock look at the frame under the hand (`:308`).
* In the build with the Nachos file system the swap file is created with length 0
  (`filesys/file_system.cc:204`), and `WriteAt` does not write past the length
  (`filesys/open_file.cc:463`): a page that was written and replaced comes back as zeros.
* `SRL` copies the sign (`machine/mips_sim.cc:525`).
* An executable is never closed under `DEMAND_LOADING` (`userprog/exception.cc:513`), nor
  are descriptors beyond a gap in the table (`threads/thread.cc:98`): a `Remove` of such a
  file waits for ever. The 20 thread ids are never given back (`threads/thread.cc:229`).
* A byte with the value of `EOF` is taken for an empty buffer of the console
  (`machine/console.cc:110`). The models type no such byte.
* `WriteStringToUser` does not write the `'\0'`; arguments end because the stack is zero.
* The shell goes past the `'\0'` of a line that ends in a separator (`userland/shell.c:67`),
  and a line that fills the buffer has none. `cp` and `cat` write once more after the last
  character; `echo` and `write` begin with the second argument that they get.

## 6. Not modelled

* Start-up and the command line (`threads/main.cc`, `threads/system.cc`): the modules
  begin in the states it builds.
* The debugger and single stepping (`userprog/debugger*`, `machine/single_stepper.hh`), `Print`, `List`, `Ls`
  and `Ps`: they read and print.
* The wrappers of UNIX calls (`machine/system_dep.*`), stack switching (`threads/switch.*`)
  and the pointers of lists: what the models need of them is external, or a sequence.
* `mkdir`, `cd`, `ls` and the numeric programs of `userland/`: one system call each, or
  computation without other state. The calls behind the first two are in `FileSystem`.
* The converters of `bin/` (`coff2noff`, `coff2flat`, `disasm` and the like): format to
  format, without state that lasts. `bin/execute.c` is modelled as `Interpreter`.
* Test programs (`*_test*.cc`): read for the uses they intend.
* Kept apart although the code joins them: contents and tree of the file system
  (`FileData`, `FileSystem`), since together they are beyond what TLC can enumerate;
  concurrent callers of the directory operations, which the code does not support, beyond
  the one file of `FileRemoval`; and paging below system calls, which `PagingIsInvisible`
  shows not to matter as long as no frame is taken from another process and no page is
  lost.
