------------------------------- MODULE Paging -------------------------------
(***************************************************************************)
(* Virtual memory: the MMU with its TLB, the page-fault handler, demand    *)
(* loading of the executable, replacement of frames and the swap files     *)
(* (code/userprog/address_space.cc, PageFaultExeption of exception.cc,     *)
(* code/vmem/coremap.cc and code/machine/mmu.cc).                          *)
(*                                                                         *)
(* Three builds of the repository differ here.  The first one ("userprog") *)
(* has no TLB: a process is loaded whole when it starts.  The other two    *)
(* load pages on demand and replace them.  With the UNIX file system       *)
(* ("vmem") the victim is chosen by the clock of PickVictim and a fault is *)
(* handled without giving the processor up.  With the Nachos file system   *)
(* ("filesys") the victim is random() and reading a page of the executable *)
(* waits for the disk: other processes run, and fault, in the meantime,    *)
(* and the switch empties the TLB.  There swapping loses the pages:        *)
(* FileSystem::Create makes an empty file whatever the size asked for, and *)
(* OpenFile::WriteAt and ReadAt transfer nothing past the end of a file.   *)
(*                                                                         *)
(* EscribirFrameenSwap edits the page table of the faulting process even   *)
(* when the victim is a page of another one.  `crossed` records that such  *)
(* a victim was taken; the properties speak of the states before.          *)
(***************************************************************************)
EXTENDS Integers, FiniteSets, FiniteSetsExt

CONSTANTS
    Spaces,             \* the address spaces: one per process
    Nobody,
    NUM_PHYS_PAGES,
    TLB_SIZE,
    PAGE_SIZE,
    Layouts,            \* executables: [codeSize, initDataSize, numPages]
    StoreOffsets,       \* the bytes of a page that a program stores to,
    Written,            \* and the values it stores there
    Builds              \* subset of {"userprog", "vmem", "filesys"}

ASSUME PagingAssumption ==
    /\ Nobody \notin Spaces
    /\ \A e \in Layouts : Nobody \notin Spaces \X (0 .. e.numPages - 1)
    /\ {NUM_PHYS_PAGES, TLB_SIZE, PAGE_SIZE} \subseteq Nat \ {0}
    /\ \A e \in Layouts : e.codeSize + e.initDataSize <= e.numPages * PAGE_SIZE
    /\ Builds \subseteq {"userprog", "vmem", "filesys"}

Frames == 0 .. NUM_PHYS_PAGES - 1
Slots == 0 .. TLB_SIZE - 1
Offsets == 0 .. PAGE_SIZE - 1

VARIABLES
    build,
    exe,            \* the executable that every process runs
    alive,          \* processes: "new", "alive" or "dead"
    current,        \* the process that has the processor, or Nobody
    pageTable,      \* pageTable[s][v]: [physicalPage, valid, use, dirty]
    tlb,            \* tlb[k]: the same with a virtualPage
    index,          \* the TLB slot to replace next
    coremap,        \* coremap[f]: <<space, vpn>>, or Nobody when f is clear
    mainMemory,     \* mainMemory[f][o]
    swapFile, swapMap,
    victima,        \* the hand of the clock
    fault,          \* fault[s]: where s is in LoadPage
    crossed

kernel == <<coremap, swapFile, swapMap, victima>>
pagingVars == <<build, exe, alive, current, pageTable, tlb, index, coremap,
                mainMemory, swapFile, swapMap, victima, fault, crossed>>

Pages == 0 .. exe.numPages - 1
Addresses == 0 .. exe.numPages * PAGE_SIZE - 1
InUser == [at |-> "user"]
Zero == [o \in Offsets |-> <<"zero">>]
\* The other fields of an invalid translation are never read, but for the use
\* bit of a table entry, which a page gets back when it returns.
NoEntry == [virtualPage |-> 0, physicalPage |-> 0, valid |-> FALSE,
            use |-> FALSE, dirty |-> FALSE]
Absent == [physicalPage |-> -1, valid |-> FALSE, use |-> FALSE, dirty |-> FALSE]
-----------------------------------------------------------------------------
(* The executable's part of a page.                                        *)

\* Mutant: the data of every page are read from the beginning of the data.
LoadFromExe_NoOffset(vpn) ==
    LET DirVir == vpn * PAGE_SIZE
        code == IF DirVir < exe.codeSize THEN Min({exe.codeSize - DirVir, PAGE_SIZE}) ELSE 0
        data == IF DirVir + code < exe.codeSize + exe.initDataSize
                THEN Min({exe.initDataSize, PAGE_SIZE - code}) ELSE 0
    IN [o \in Offsets |-> IF o < code THEN <<"code", DirVir + o>>
                          ELSE IF o < code + data THEN <<"data", o - code>>
                          ELSE <<"zero">>]

\* ReadCodeBlock and ReadDataBlock as LoadPage calls them: data follow the
\* code, from the offset that the code left in the page.
LoadFromExe(vpn) ==
    LET DirVir == vpn * PAGE_SIZE
        bytesCopyCODE == IF DirVir < exe.codeSize
                         THEN Min({exe.codeSize - DirVir, PAGE_SIZE}) ELSE 0
        offset == IF bytesCopyCODE > 0 THEN 0 ELSE DirVir - exe.codeSize
        bytesCopyDATA ==
            IF /\ exe.initDataSize > 0
               /\ DirVir + bytesCopyCODE < exe.codeSize + exe.initDataSize
               /\ bytesCopyCODE < PAGE_SIZE
            THEN Min({exe.initDataSize - offset, PAGE_SIZE - bytesCopyCODE})
            ELSE 0
    IN [o \in Offsets |->
           IF o < bytesCopyCODE THEN <<"code", DirVir + o>>
           ELSE IF o < bytesCopyCODE + bytesCopyDATA
                THEN <<"data", offset + o - bytesCopyCODE>>
           ELSE <<"zero">>]

\* The address space that the executable describes, byte by byte.
ImageByte(a) == IF a < exe.codeSize THEN <<"code", a>>
                ELSE IF a < exe.codeSize + exe.initDataSize
                     THEN <<"data", a - exe.codeSize>>
                ELSE <<"zero">>
-----------------------------------------------------------------------------
(* The MMU.                                                                *)

Hits(v) == {k \in Slots : tlb[k].valid /\ tlb[k].virtualPage = v}

\* RetrievePageEntry and Translate: the first slot that has the page, or the
\* page table when there is no TLB, gets its use bit set, and its dirty bit
\* when the program writes.
Touch(s, v, writing) ==
    IF build = "userprog"
    THEN /\ pageTable[s][v].valid
         /\ pageTable' = [pageTable EXCEPT ![s][v].use = TRUE,
                                           ![s][v].dirty = @ \/ writing]
         /\ UNCHANGED tlb
    ELSE /\ Hits(v) # {}
         /\ tlb' = [tlb EXCEPT ![Min(Hits(v))].use = TRUE,
                               ![Min(Hits(v))].dirty = @ \/ writing]
         /\ UNCHANGED pageTable

FrameOf(s, v) == IF build = "userprog" THEN pageTable[s][v].physicalPage
                                       ELSE tlb[Min(Hits(v))].physicalPage

Running(s) == current = s /\ alive[s] = "alive" /\ fault[s] = InUser

ReadMem(s, v) ==
    /\ Running(s) /\ Touch(s, v, FALSE)
    /\ UNCHANGED <<build, exe, alive, current, index, mainMemory, fault, crossed,
                   kernel>>

WriteMem(s, v, o, x) ==
    /\ Running(s) /\ Touch(s, v, TRUE)
    /\ mainMemory' = [mainMemory EXCEPT ![FrameOf(s, v)][o] = <<"written", x>>]
    /\ UNCHANGED <<build, exe, alive, current, index, fault, crossed, kernel>>
-----------------------------------------------------------------------------
(* Context switches.                                                       *)

\* SaveState: the bits of the TLB go to the table, and the TLB is emptied.
Saved(table, t) ==
    [v \in Pages |->
        LET in == {k \in Slots : t[k].valid /\ t[k].virtualPage = v}
        IN IF in = {} THEN table[v]
           ELSE [table[v] EXCEPT !.dirty = t[Max(in)].dirty, !.use = t[Max(in)].use]]
EmptyTlb == [k \in Slots |-> NoEntry]

\* s waits for the disk: it keeps the processor under "vmem", and is switched
\* out under "filesys".  `table` and `t` are its table and the TLB by then.
Waits(s, table, t) ==
    IF build = "filesys"
    THEN /\ current' = Nobody
         /\ pageTable' = [pageTable EXCEPT ![s] = Saved(table, t)]
         /\ tlb' = EmptyTlb
    ELSE /\ pageTable' = [pageTable EXCEPT ![s] = table]
         /\ tlb' = t
         /\ UNCHANGED current

\* Scheduler::Run with the timer, or a wait in a system call.
SwitchOut(s) ==
    /\ Running(s)
    /\ current' = Nobody
    /\ pageTable' = [pageTable EXCEPT ![s] = Saved(@, tlb)]
    /\ tlb' = EmptyTlb
    /\ UNCHANGED <<build, exe, alive, index, mainMemory, fault, crossed, kernel>>

\* RestoreState.
SwitchIn(s) ==
    /\ current = Nobody /\ alive[s] = "alive"
    /\ current' = s
    /\ tlb' = EmptyTlb
    /\ UNCHANGED <<build, exe, alive, pageTable, index, mainMemory, fault,
                   crossed, kernel>>
-----------------------------------------------------------------------------
(* Page faults.                                                            *)

\* The end of PageFaultExeption: the slot at `index` goes back to the table
\* and is replaced by the entry of the page.
Refill(table, t, v) ==
    LET back == IF t[index].valid
                THEN [table EXCEPT ![t[index].virtualPage] =
                         [physicalPage |-> t[index].physicalPage, valid |-> TRUE,
                          use |-> t[index].use, dirty |-> t[index].dirty]]
                ELSE table
    IN <<back, [t EXCEPT ![index] =
                   [virtualPage |-> v, physicalPage |-> back[v].physicalPage,
                    valid |-> back[v].valid, use |-> back[v].use,
                    dirty |-> back[v].dirty]]>>

FinishFault(s, table, t, v) ==
    LET r == Refill(table, t, v)
    IN /\ pageTable' = [pageTable EXCEPT ![s] = r[1]]
       /\ tlb' = r[2]
       /\ index' = (index + 1) % TLB_SIZE
       /\ fault' = [fault EXCEPT ![s] = InUser]

Misses(s, v) == build # "userprog" /\ Running(s) /\ Hits(v) = {}

\* The page is in memory and only the TLB lacks it.
FaultPresent(s, v) ==
    /\ Misses(s, v) /\ pageTable[s][v].valid
    /\ FinishFault(s, pageTable[s], tlb, v)
    /\ UNCHANGED <<build, exe, alive, current, mainMemory, crossed, kernel>>

Clear == {f \in Frames : coremap[f] = Nobody}
\* The frame that Find returns.
IsFirst(f) == \A g \in Clear : f <= g
GetAddressSpace(f) == coremap[f][1]
GetVpn(f) == coremap[f][2]

\* The core map after Mark, or Find, of one frame and after Clear of several.
Mark(f, s, v) == [coremap EXCEPT ![f] = <<s, v>>]
Cleared(frames) == [f \in Frames |-> IF f \in frames THEN Nobody ELSE coremap[f]]

\* The entry of a page is filled in before the page is read.
Placed(table, v, f) == [table EXCEPT ![v].physicalPage = f, ![v].valid = TRUE]

\* WriteAt and ReadAt on a swap file transfer the page: not with the Nachos
\* file system, where the file is empty and both return 0 at once.
SwapHolds == build = "vmem"

\* LoadPage with a frame at hand.  A page that has nothing to be read, from
\* the swap file or from the executable, is only cleared, without a wait.
NeedsDisk(s, v) ==
    IF swapMap[s][v] THEN SwapHolds
    ELSE v * PAGE_SIZE < exe.codeSize + exe.initDataSize

FillFrame(s, v, f, table, t) ==
    /\ mainMemory' = [mainMemory EXCEPT ![f] = Zero]
    /\ IF NeedsDisk(s, v)
       THEN /\ fault' = [fault EXCEPT ![s] = [at |-> "load", vpn |-> v, frame |-> f]]
            /\ Waits(s, Placed(table, v, f), t)
            /\ UNCHANGED index
       ELSE /\ FinishFault(s, Placed(table, v, f), t, v)
            /\ UNCHANGED current

FaultFree(s, v) ==
    /\ Misses(s, v) /\ ~pageTable[s][v].valid
    /\ \E f \in Clear :
         /\ IsFirst(f)
         /\ coremap' = Mark(f, s, v)
         /\ FillFrame(s, v, f, pageTable[s], tlb)
    /\ UNCHANGED <<build, exe, alive, swapFile, swapMap, victima, crossed>>

\* TLBSearch: the entry of the frame under the hand, from the TLB or from the
\* table of the faulting process.
HandEntry(s) ==
    LET in == {k \in Slots : tlb[k].valid /\ tlb[k].physicalPage = victima}
    IN IF in # {} THEN [use |-> tlb[Min(in)].use, dirty |-> tlb[Min(in)].dirty]
       ELSE [use |-> pageTable[s][GetVpn(victima)].use,
             dirty |-> pageTable[s][GetVpn(victima)].dirty]

\* PickVictim with PRPOLICY_CLOCK.  Every turn of its four rounds looks at the
\* frame under the hand, although the frame it would take is p.  So an unused
\* page under the hand is taken at once; the use bit of another is cleared in
\* the second round, whose next turn takes the next frame if the page is dirty
\* (if there is one frame only the fourth round takes it), and the third round
\* takes the page itself if it is clean.
ClockVictim(s) ==
    LET e == HandEntry(s)
    IN IF e.use /\ e.dirty /\ NUM_PHYS_PAGES > 1
       THEN (victima + 1) % NUM_PHYS_PAGES ELSE victima

\* Round two clears the use bit of the entry it looked at.
UseCleared(s) ==
    LET e == HandEntry(s)
        in == {k \in Slots : tlb[k].valid /\ tlb[k].physicalPage = victima}
    IN IF ~e.use THEN <<pageTable[s], tlb>>
       ELSE IF in # {} THEN <<pageTable[s], [tlb EXCEPT ![Min(in)].use = FALSE]>>
       ELSE <<[pageTable[s] EXCEPT ![GetVpn(victima)].use = FALSE], tlb>>

\* Mutant: the translation of the frame stays in the TLB.
TakenBack_KeepTlb(f, table, t) ==
    LET in == {k \in Slots : t[k].valid /\ t[k].physicalPage = f}
    IN IF in = {} THEN <<table, t>>
       ELSE <<[table EXCEPT ![GetVpn(f)].dirty = t[Min(in)].dirty], t>>

\* EscribirFrameenSwap up to the write.  The table it edits is the table of
\* the faulting process, whoever owns the page.
TakenBack(f, table, t) ==
    LET vpn == GetVpn(f)
        in == {k \in Slots : t[k].valid /\ t[k].physicalPage = f}
        k == Min(in)
    IN IF in = {} THEN <<table, t>>
       ELSE <<[table EXCEPT ![vpn] =
                  [physicalPage |-> f, valid |-> TRUE, use |-> t[k].use,
                   dirty |-> t[k].dirty]],
              [t EXCEPT ![k] = NoEntry]>>

\* EscribirFrameenSwap after the write, and Mark.
Released(table, vpn) == [table EXCEPT ![vpn].dirty = FALSE, ![vpn].valid = FALSE,
                                      ![vpn].physicalPage = -1]

\* The victims PickVictim may return, each with the hand, the table and the
\* TLB that it leaves.
PickVictim(s) ==
    IF build = "vmem"
    THEN LET f == ClockVictim(s)
         IN {[frame |-> f, hand |-> (f + 1) % NUM_PHYS_PAGES,
              table |-> UseCleared(s)[1], tlb |-> UseCleared(s)[2]]}
    ELSE {[frame |-> f, hand |-> victima, table |-> pageTable[s], tlb |-> tlb]
          : f \in Frames}

\* LoadPage with that victim.  If it is dirty it is written to the swap file
\* of its owner, and marked as being there; neither build gives the processor
\* up to do so.
Replace(s, v, pick) ==
    LET f == pick.frame
        back == TakenBack(f, pick.table, pick.tlb)
        owner == GetAddressSpace(f)
        vpn == GetVpn(f)
        dirty == back[1][vpn].dirty
    IN /\ swapFile' = IF dirty /\ SwapHolds
                      THEN [swapFile EXCEPT ![owner][vpn] = mainMemory[f]]
                      ELSE swapFile
       /\ swapMap' = IF dirty THEN [swapMap EXCEPT ![owner][vpn] = TRUE] ELSE swapMap
       /\ coremap' = Mark(f, s, v)
       /\ FillFrame(s, v, f, Released(back[1], vpn), back[2])

FaultVictim(s, v) ==
    /\ Misses(s, v) /\ ~pageTable[s][v].valid
    /\ Clear = {}
    /\ \E pick \in PickVictim(s) :
         /\ victima' = pick.hand
         /\ crossed' = (crossed \/ GetAddressSpace(pick.frame) # s)
         /\ Replace(s, v, pick)
    /\ UNCHANGED <<build, exe, alive>>

\* The page has been read: LoadPage returns and the handler ends.
LoadDone(s) ==
    /\ current = s /\ fault[s].at = "load"
    /\ LET f == fault[s].frame
           v == fault[s].vpn
       IN /\ mainMemory' = [mainMemory EXCEPT ![f] =
                IF swapMap[s][v] /\ SwapHolds THEN swapFile[s][v] ELSE LoadFromExe(v)]
          /\ FinishFault(s, pageTable[s], tlb, v)
    /\ UNCHANGED <<build, exe, alive, current, crossed, kernel>>
-----------------------------------------------------------------------------
(* Processes.                                                              *)

\* The constructor of AddressSpace with demand loading: no page is present
\* and the swap file is new.
StartEmpty(s) ==
    /\ build # "userprog" /\ alive[s] = "new"
    /\ alive' = [alive EXCEPT ![s] = "alive"]
    /\ UNCHANGED <<build, exe, current, pageTable, tlb, index, mainMemory,
                   fault, crossed, kernel>>

\* The constructor without it: enough frames must be clear (or the kernel
\* stops); each page takes the first one, is cleared and filled.
StartLoaded(s) ==
    /\ build = "userprog" /\ alive[s] = "new"
    /\ \E frames \in [Pages -> Clear] :
         LET Taken(f) == \E v \in Pages : frames[v] = f
             PageIn(f) == CHOOSE v \in Pages : frames[v] = f
         IN /\ \A u, v \in Pages : u < v => frames[u] < frames[v]
            /\ \A g \in Clear, v \in Pages : g < frames[v] => Taken(g)
            /\ coremap' = [f \in Frames |->
                  IF Taken(f) THEN <<s, PageIn(f)>> ELSE coremap[f]]
            /\ pageTable' = [pageTable EXCEPT ![s] = [v \in Pages |->
                  [physicalPage |-> frames[v], valid |-> TRUE, use |-> FALSE,
                   dirty |-> FALSE]]]
            /\ mainMemory' = [f \in Frames |->
                  IF Taken(f)
                  THEN [o \in Offsets |-> ImageByte(PAGE_SIZE * PageIn(f) + o)]
                  ELSE mainMemory[f]]
    /\ alive' = [alive EXCEPT ![s] = "alive"]
    /\ UNCHANGED <<build, exe, current, tlb, index, swapFile, swapMap, victima,
                   fault, crossed>>

\* The process finishes, and the next thread destroys its address space.
Finish(s) ==
    /\ Running(s)
    /\ alive' = [alive EXCEPT ![s] = "dead"]
    /\ current' = Nobody
    /\ tlb' = EmptyTlb
    /\ pageTable' = [pageTable EXCEPT ![s] = [v \in Pages |-> Absent]]
    /\ coremap' = Cleared({pageTable[s][v].physicalPage :
                              v \in {u \in Pages : pageTable[s][u].valid}})
    /\ UNCHANGED <<build, exe, index, mainMemory, swapFile, swapMap, victima,
                   fault, crossed>>
-----------------------------------------------------------------------------
PagingInit ==
    /\ build \in Builds
    /\ exe \in Layouts
    /\ alive = [s \in Spaces |-> "new"]
    /\ current = Nobody
    /\ pageTable = [s \in Spaces |-> [v \in Pages |-> Absent]]
    /\ tlb = EmptyTlb
    /\ index = 0
    /\ coremap = [f \in Frames |-> Nobody]
    /\ mainMemory = [f \in Frames |-> Zero]
    /\ swapFile = [s \in Spaces |-> [v \in Pages |-> Zero]]
    /\ swapMap = [s \in Spaces |-> [v \in Pages |-> FALSE]]
    /\ victima = 0
    /\ fault = [s \in Spaces |-> InUser]
    /\ crossed = FALSE

PagingNext ==
    \E s \in Spaces :
        \/ StartEmpty(s) \/ StartLoaded(s) \/ SwitchIn(s) \/ SwitchOut(s) \/ Finish(s)
        \/ LoadDone(s)
        \/ \E v \in Pages :
              \/ ReadMem(s, v)
              \/ \E o \in StoreOffsets, x \in Written : WriteMem(s, v, o, x)
              \/ FaultPresent(s, v) \/ FaultFree(s, v) \/ FaultVictim(s, v)

PagingSpec == PagingInit /\ [][PagingNext]_pagingVars
-----------------------------------------------------------------------------
(* Properties.                                                             *)

\* The page as its process would find it: in its frame, unless it is still
\* being read there, in the swap file, or in the executable.
Loading(s, v) == fault[s].at = "load" /\ fault[s].vpn = v

PageOf(s, v) ==
    IF pageTable[s][v].valid /\ ~Loading(s, v)
    THEN mainMemory[pageTable[s][v].physicalPage]
    ELSE IF swapMap[s][v] THEN swapFile[s][v]
    ELSE [o \in Offsets |-> ImageByte(v * PAGE_SIZE + o)]

Contents == [s \in {p \in Spaces : alive[p] = "alive"} |->
                [a \in Addresses |->
                    PageOf(s, a \div PAGE_SIZE)[a % PAGE_SIZE]]]

Private == INSTANCE PrivateMemory WITH
    memory <- Contents, image <- [a \in Addresses |-> ImageByte(a)]

\* A page went to a swap file that does not hold it.
PageLost == ~SwapHolds /\ \E s \in Spaces, v \in Pages : swapMap[s][v]

\* Paging is invisible.  The memory of each process starts as the executable
\* says (code, then data, then zeros) and changes only when the process stores
\* a byte, whatever is loaded, replaced, written to swap or saved at a context
\* switch meanwhile (LoadPage, EscribirFrameenSwap, SaveState,
\* PageFaultExeption).  This is so until a frame is taken from another process,
\* and with the Nachos file system until a page that the program has written
\* is replaced: its swap file holds nothing, and the page comes back as zeros.
PagingIsInvisible == [][crossed' \/ PageLost' \/ Private!Next]_Contents

\* As long as no frame was taken from another process, a frame is marked in
\* the coremap for a page exactly when the table of that page's process says
\* that the page is there, so no two pages share a frame and a finished
\* process leaves none behind; and the TLB holds only translations that the
\* table of the running process confirms (Coremap, ~AddressSpace, the TLB
\* handling of EscribirFrameenSwap and RestoreState).
TranslationsAreOwned ==
    crossed \/
    /\ \A f \in Frames, s \in Spaces, v \in Pages :
          (coremap[f] = <<s, v>>)
            = (pageTable[s][v].valid /\ pageTable[s][v].physicalPage = f)
    /\ \A k \in Slots : tlb[k].valid =>
          /\ current # Nobody
          /\ pageTable[current][tlb[k].virtualPage].valid
          /\ pageTable[current][tlb[k].virtualPage].physicalPage = tlb[k].physicalPage
=============================================================================
