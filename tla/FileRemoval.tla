---------------------------- MODULE FileRemoval ----------------------------
(***************************************************************************)
(* The life of one file: FileSystem::Open, OpenFile::~OpenFile,            *)
(* FileSystem::Remove and FileSystem::Create as they use the file's entry  *)
(* of tableDeArchivosAbierta.  A thread may lose the CPU where it waits    *)
(* for the disk and where it acquires or releases a lock; a step is what   *)
(* it does between two such points.  Headers, data and the other files of  *)
(* the directory are left out.                                             *)
(***************************************************************************)
EXTENDS Naturals, FiniteSets

CONSTANTS
  Threads,
  Casts,       \* the ways the threads may call the operations: records of
               \* the sets openers, removers and creators, and of booted:
               \* the file was on the disk when the system started, and
               \* the table has no locks for it
  MaxLocks,    \* bound: remove locks that are created
  None

ASSUME RemovalConstants ==
  /\ IsFiniteSet(Threads)
  /\ Casts \subseteq [openers : SUBSET Threads, removers : SUBSET Threads,
                      creators : SUBSET Threads, booted : BOOLEAN]
  /\ MaxLocks \in Nat \ {0}
  /\ None \notin Threads \cup Nat

Locks == 1 .. MaxLocks

VARIABLES
  inDirectory,    \* the directory on disk has the file
  allocated,      \* the free map on disk has the file's sectors as used
  count, removing, removed, removerSpaceId,
  removeLock,     \* the lock the table points to, or None
  writeLock,      \* "null", "valid", "deleted" or "deleted twice"
  created,        \* number of remove locks created
  holder,         \* holder[l]: the thread that holds remove lock l, or None
  pc,             \* pc[t]: where t is
  arg,            \* arg[t]: the lock or the thread that t waits for
  aborted,        \* an assertion failed
  closeLock,      \* "null" or "valid"
  late,           \* history: the threads in Open past its test of `removing`
                  \* when Remove set it, and those between Open's reading
                  \* of the directory and the test when Remove cleared it
  cast

table == <<count, removing, removed, removerSpaceId, removeLock, writeLock,
           closeLock, created>>
disk == <<inDirectory, allocated>>
vars == <<disk, table, holder, pc, arg, aborted, late, cast>>

Init ==
  /\ cast \in Casts
  /\ inDirectory = TRUE /\ allocated = TRUE
  /\ count = 0
  /\ removing = FALSE /\ removed = FALSE
  /\ removerSpaceId = None
  /\ removeLock = IF cast.booted THEN None ELSE 1
  /\ created = IF cast.booted THEN 0 ELSE 1
  /\ writeLock = "null" /\ closeLock = "null"
  /\ holder = [l \in Locks |-> None]
  /\ pc = [t \in Threads |-> "idle"]
  /\ arg = [t \in Threads |-> None]
  /\ aborted = FALSE
  /\ late = {}

At(t, place) == ~aborted /\ pc[t] = place

Goto(t, place) == pc' = [pc EXCEPT ![t] = place]

NewRemoveLock ==
  /\ created < MaxLocks
  /\ created' = created + 1
  /\ removeLock' = created + 1

-----------------------------------------------------------------------------

(* FileSystem::Open reads a directory that has the file.  If the directory *)
(* does not have it Open returns null and changes nothing.                 *)
OpenFind(t) ==
  /\ At(t, "idle")
  /\ inDirectory
  /\ Goto(t, "found")
  /\ UNCHANGED <<disk, table, holder, arg, aborted>>

(* Mutant: Open does not look at `removing`. *)
OpenTest_NoTest(t) ==
  /\ At(t, "found")
  /\ Goto(t, "opening")
  /\ UNCHANGED <<disk, table, holder, arg, aborted>>

(* The directory has been read: Open returns null if the file is being     *)
(* removed, and otherwise reads the header.                                *)
OpenTest(t) ==
  /\ At(t, "found")
  /\ Goto(t, IF removing THEN "idle" ELSE "opening")
  /\ UNCHANGED <<disk, table, holder, arg, aborted>>

(* The rest of the constructor of OpenFile. *)
OpenCount(t) ==
  /\ At(t, "opening")
  /\ IF count = 0
     THEN /\ writeLock' = "valid" /\ closeLock' = "valid"
          /\ IF removeLock = None THEN NewRemoveLock
                                  ELSE UNCHANGED <<removeLock, created>>
     ELSE UNCHANGED <<writeLock, closeLock, removeLock, created>>
  /\ count' = count + 1
  /\ Goto(t, "open")
  /\ UNCHANGED <<disk, removing, removed, removerSpaceId, holder, arg, aborted>>

(* The destructor of OpenFile, up to the release of closeLock.  After a    *)
(* Create the pointer is null until an Open sees the count at zero, and    *)
(* the destructor of a file opened before that Create goes through it.  (A *)
(* Create between Acquire and Release ends in the same way, in Release.)   *)
CloseCount(t) ==
  /\ At(t, "open")
  /\ aborted' = (closeLock = "null")
  /\ IF closeLock = "null" THEN UNCHANGED <<count, pc>>
     ELSE IF count > 0
     THEN count' = count - 1 /\ Goto(t, "counted")
     ELSE UNCHANGED count /\ Goto(t, "idle")
  /\ UNCHANGED <<disk, removing, removed, removerSpaceId, removeLock, writeLock,
                 closeLock, created, holder, arg>>

DeleteWriteLock ==
  writeLock' = IF writeLock = "valid" THEN "deleted" ELSE "deleted twice"

(* Mutant: the remover is not told. *)
CloseEnd_NoSend(t) ==
  /\ At(t, "counted")
  /\ IF count = 0 THEN DeleteWriteLock ELSE UNCHANGED writeLock
  /\ Goto(t, "idle")
  /\ UNCHANGED <<disk, count, removing, removed, removerSpaceId, removeLock,
                 closeLock, created, holder, arg, aborted>>

(* The rest of the destructor: the thread that sees no open file left      *)
(* tells the remover, and waits until it has been heard.                   *)
CloseEnd(t) ==
  /\ At(t, "counted")
  /\ IF count = 0 /\ removing
     THEN /\ Goto(t, "sending")
          /\ arg' = [arg EXCEPT ![t] = removerSpaceId]
          /\ UNCHANGED writeLock
     ELSE /\ IF count = 0 THEN DeleteWriteLock ELSE UNCHANGED writeLock
          /\ Goto(t, "idle")
          /\ UNCHANGED arg
  /\ UNCHANGED <<disk, count, removing, removed, removerSpaceId, removeLock,
                 closeLock, created, holder, aborted>>

(* Send has returned. *)
CloseSent(t) ==
  /\ At(t, "sent")
  /\ DeleteWriteLock
  /\ Goto(t, "idle")
  /\ UNCHANGED <<disk, count, removing, removed, removerSpaceId, removeLock,
                 closeLock, created, holder, arg, aborted>>

-----------------------------------------------------------------------------

(* FileSystem::Remove reads a directory that has the file. *)
RemoveFind(t) ==
  /\ At(t, "idle")
  /\ inDirectory
  /\ Goto(t, "looked")
  /\ UNCHANGED <<disk, table, holder, arg, aborted>>

(* It calls Acquire on the remove lock if the table has one. *)
RemoveAcquire(t) ==
  /\ At(t, "looked")
  /\ arg' = [arg EXCEPT ![t] = removeLock]
  /\ Goto(t, IF removeLock = None THEN "locked" ELSE "locking")
  /\ UNCHANGED <<disk, table, holder, aborted>>

RemoveLock(t) ==
  /\ At(t, "locking")
  /\ holder[arg[t]] = None
  /\ holder' = [holder EXCEPT ![arg[t]] = t]
  /\ Goto(t, "locked")
  /\ UNCHANGED <<disk, table, arg, aborted>>

(* Release by t of the lock the table points to now. *)
ReleaseRemoveLock(t) ==
  IF removeLock = None THEN aborted' = TRUE /\ UNCHANGED holder
  ELSE /\ aborted' = (holder[removeLock] # t)
       /\ holder' = IF holder[removeLock] = t
                    THEN [holder EXCEPT ![removeLock] = None] ELSE holder

(* Mutant: the flag `removed` is not tested. *)
RemoveCheck_NoTest(t) ==
  /\ At(t, "locked")
  /\ Goto(t, "fetched")
  /\ UNCHANGED <<disk, table, holder, arg, aborted>>

(* If the file was removed in the meantime Remove returns false; otherwise *)
(* it reads the header and the free map.                                   *)
RemoveCheck(t) ==
  /\ At(t, "locked")
  /\ IF removed THEN ReleaseRemoveLock(t) /\ Goto(t, "idle")
     ELSE Goto(t, "fetched") /\ UNCHANGED <<holder, aborted>>
  /\ UNCHANGED <<disk, table, arg>>

RemoveMark(t) ==
  /\ At(t, "fetched")
  /\ removing' = TRUE
  /\ removerSpaceId' = t
  /\ Goto(t, IF count > 0 THEN "receiving" ELSE "freeing")
  /\ UNCHANGED <<disk, count, removed, removeLock, writeLock, closeLock, created,
                 holder, arg, aborted>>

(* The Receive of t takes the message of a thread in Send. *)
RemoveReceive(t) ==
  /\ At(t, "receiving")
  /\ \E s \in Threads :
       /\ pc[s] = "sending" /\ arg[s] = t
       /\ pc' = [pc EXCEPT ![t] = "freeing", ![s] = "sent"]
  /\ UNCHANGED <<disk, table, holder, arg, aborted>>

(* The free map is written with the sectors of the file clear. *)
RemoveFree(t) ==
  /\ At(t, "freeing")
  /\ allocated' = FALSE
  /\ Goto(t, "erasing")
  /\ UNCHANGED <<inDirectory, table, holder, arg, aborted>>

(* The directory is written without the name. *)
RemoveErase(t) ==
  /\ At(t, "erasing")
  /\ inDirectory' = FALSE
  /\ Goto(t, "freed")
  /\ UNCHANGED <<allocated, table, holder, arg, aborted>>

RemoveEnd(t) ==
  /\ At(t, "freed")
  /\ removed' = TRUE
  /\ IF removeLock = None THEN UNCHANGED <<holder, aborted>>
                          ELSE ReleaseRemoveLock(t)
  /\ Goto(t, "released")
  /\ UNCHANGED <<disk, count, removing, removerSpaceId, removeLock, writeLock,
                 closeLock, created, arg>>

RemoveReturn(t) ==
  /\ At(t, "released")
  /\ removing' = FALSE
  /\ Goto(t, "idle")
  /\ UNCHANGED <<disk, count, removed, removerSpaceId, removeLock, writeLock,
                 closeLock, created, holder, arg, aborted>>

(* FileSystem::Create, under its lock: the header takes the first clear    *)
(* sector, here the one of the file that was removed.                      *)
CreateStore(t) ==
  /\ At(t, "idle")
  /\ ~inDirectory /\ ~allocated
  /\ \A u \in Threads : pc[u] # "creating"
  /\ inDirectory' = TRUE /\ allocated' = TRUE
  /\ Goto(t, "creating")
  /\ UNCHANGED <<table, holder, arg, aborted>>

CreateTable(t) ==
  /\ At(t, "creating")
  /\ removed' = FALSE /\ removing' = FALSE
  /\ NewRemoveLock
  /\ writeLock' = "null" /\ closeLock' = "null"
  /\ count' = 0
  /\ Goto(t, "idle")
  /\ UNCHANGED <<disk, removerSpaceId, holder, arg, aborted>>

-----------------------------------------------------------------------------

OpenOrClose(t) ==
  \/ OpenFind(t) \/ OpenTest(t) \/ OpenCount(t)
  \/ CloseCount(t) \/ CloseEnd(t) \/ CloseSent(t)

Remove(t) ==
  \/ RemoveFind(t) \/ RemoveAcquire(t) \/ RemoveLock(t) \/ RemoveCheck(t)
  \/ RemoveMark(t) \/ RemoveReceive(t) \/ RemoveFree(t) \/ RemoveErase(t)
  \/ RemoveEnd(t) \/ RemoveReturn(t)

Create(t) == CreateStore(t) \/ CreateTable(t)

(* A Remove that sets the flag makes late the threads between Open's test  *)
(* and its count, a Remove that clears it those between Open's reading of  *)
(* the directory and the test.  They are late until their file is closed.  *)
NoteLate ==
  late' = (late \ {t \in Threads : pc[t] = "idle"})
          \cup {t \in Threads : \/ removing' /\ ~removing /\ pc[t] = "opening"
                                \/ removing /\ ~removing' /\ pc[t] = "found"}

Next ==
  /\ \/ \E t \in cast.openers : OpenOrClose(t)
     \/ \E t \in cast.removers : Remove(t)
     \/ \E t \in cast.creators : Create(t)
  /\ NoteLate
  /\ UNCHANGED cast

(* A thread that can go on inside an operation does, and closes the files  *)
(* it opened.                                                              *)
Fairness ==
  \A t \in Threads :
    /\ WF_vars(/\ \/ OpenTest(t) \/ OpenCount(t)
                  \/ CloseCount(t) \/ CloseEnd(t) \/ CloseSent(t)
               /\ NoteLate /\ UNCHANGED cast)
    /\ WF_vars(/\ \/ RemoveAcquire(t) \/ RemoveLock(t) \/ RemoveCheck(t)
                  \/ RemoveMark(t) \/ RemoveReceive(t) \/ RemoveFree(t)
                  \/ RemoveErase(t) \/ RemoveEnd(t) \/ RemoveReturn(t)
               /\ NoteLate /\ UNCHANGED cast)
    /\ WF_vars(CreateTable(t) /\ NoteLate /\ UNCHANGED cast)

Safety == Init /\ [][Next]_vars
Spec == Safety /\ Fairness

-----------------------------------------------------------------------------

(* Remove takes the remove lock, if there is one, and tests `removed`:     *)
(* however many threads remove a file that the table has a lock for, its   *)
(* sectors are freed once (Deallocate asserts that they are still marked). *)
FreedOnce == [][\A t \in Threads : RemoveFree(t) => allocated]_vars

(* The last thread that closes the file tells the remover: a Remove that   *)
(* waits for the file to be closed returns, unless the machine aborts.     *)
RemoversAreAwakened ==
  \A t \in Threads : pc[t] = "receiving" ~> pc[t] = "idle" \/ aborted

(* Remove waits for the threads that have the file open before it frees    *)
(* the file's sectors: until the header's sector is given to a new file    *)
(* (Create then resets a count that an early Open has raised) nobody has a *)
(* file open whose sectors are free, but a thread that was inside Open     *)
(* while Remove worked and that the flag missed on either side.  Such a    *)
(* thread tested `removing` before Remove set it and had not been counted  *)
(* by then; or it read the directory before Remove wrote it and tested     *)
(* `removing` after Remove had cleared it again.                           *)
FreedFilesAreClosed ==
  ~allocated /\ created <= 1 => \A t \in Threads : pc[t] = "open" => t \in late
============================================================================
