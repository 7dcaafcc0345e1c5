------------------------------ MODULE FileSystem -----------------------------
(***************************************************************************)
(* filesys/file_system.cc and directory.cc: the tree of directories.  One  *)
(* thread calls Create, CreateDir, Remove and ChangeDir, as the comments   *)
(* in the code require ("no concurrent access to the file system"); the    *)
(* machine may stop between any two writes to the disk and be started      *)
(* again.  The operations find a directory by making it the current one    *)
(* for a while.                                                            *)
(*                                                                         *)
(* A file has a header and no data here (module FileData has those); the   *)
(* table of a directory fits in the sectors of one header.  A step ends    *)
(* with a write to the disk; the sectors of a table are written in one.    *)
(***************************************************************************)
EXTENDS Integers, Sequences, FiniteSets, Functions, SequencesExt, FiniteSetsExt

CONSTANTS
  NUM_SECTORS,
  NUM_DIR_ENTRIES,    \* the entries of a new directory
  SectorEntries,      \* the entries a sector holds
  MAX_DIR_LEVEL,
  Names,
  MaxPath,            \* bound: the names in a path
  MaxCalls,           \* bound: calls
  MaxStops,           \* bound: times the machine stops
  None

(* One name is as good as another. *)
Symmetry == Permutations(Names)

FREE_MAP_SECTOR == 0
DIRECTORY_SECTOR == 1
Sectors == 0 .. NUM_SECTORS - 1

ASSUME FileSystemConstants ==
  /\ {NUM_SECTORS, NUM_DIR_ENTRIES, SectorEntries, MAX_DIR_LEVEL} \subseteq Nat \ {0}
  /\ NUM_SECTORS > 3 + NUM_DIR_ENTRIES

VARIABLES
  disk,               \* disk[s]: the header at s, with the table it leads to
  used,               \* the sectors marked in the bit map on the disk
  directoryFile,      \* the sector of the directory it is open on
  directorySize,
  count,              \* count[s]: tableDeArchivosAbierta[s]->count
  pc, call, result,   \* where the call is, what it is, what it returns
  directoryFileBackup,
  dir, freeMap,       \* the copies of the table and of the bit map
  sector, header,     \* of the new file, or of the one to remove
  calls, stops,
  before,             \* the tree and the current directory at the call (history)
  lost                \* a table was not written: no sector for it (history)

memory == <<directoryFile, directorySize, count>>
locals == <<directoryFileBackup, dir, freeMap, sector, header>>
vars == <<disk, used, memory, pc, call, result, locals, calls, stops, before, lost>>

-----------------------------------------------------------------------------
(* Headers and the bit map                                                 *)

DivRoundUp(n, s) == (n + s - 1) \div s

Header(data, table) == [data |-> data, table |-> table]

(* Bitmap::CountClear, and the sectors n calls of Bitmap::Find return.     *)
CountClear(map) == NUM_SECTORS - Cardinality(map)

Find(map, n) ==
  {s \in Sectors \ map : Cardinality({r \in Sectors \ map : r < s}) < n}

(* The sectors FileHeader::Allocate wants for a table of n entries. *)
NewSectors(data, n) == DivRoundUp(n, SectorEntries) - Cardinality(data)

-----------------------------------------------------------------------------
(* class Directory: a table is a sequence of entries, None if not in use   *)

Entry(name, s, isDirectory) == [name |-> name, sector |-> s, isDirectory |-> isDirectory]

NewDirectory(size) == [i \in 1 .. size |-> None]

(* Directory(size) and FetchFrom. *)
FetchFrom(s, size) ==
  [i \in 1 .. size |-> IF i \in DOMAIN disk[s].table THEN disk[s].table[i] ELSE None]

FetchSize(s) == Len(disk[s].table)

FindIndex(table, name) == {i \in DOMAIN table : table[i] # None /\ table[i].name = name}

HasName(table, name) == FindIndex(table, name) # {}

FindSector(table, name) == table[Min(FindIndex(table, name))].sector

(* Mutant: only the first entry is looked at. *)
FindDir_First(table, name) == 1 \in FindIndex(table, name) /\ table[1].isDirectory

FindDir(table, name) == \E i \in FindIndex(table, name) : table[i].isDirectory

(* Directory::Add of a name that is not there: into the first free entry,  *)
(* or into a new one at the end.  That one comes from new[], and           *)
(* isDirectory is only assigned for a directory.                           *)
Add(table, name, s, isDirectory) ==
  LET free == {i \in DOMAIN table : table[i] = None}
  IN  IF free # {}
      THEN {[table EXCEPT ![Min(free)] = Entry(name, s, isDirectory)]}
      ELSE {Append(table, Entry(name, s, flag)) :
              flag \in IF isDirectory THEN {TRUE} ELSE BOOLEAN}

DirectoryRemove(table, name) == [table EXCEPT ![Min(FindIndex(table, name))] = None]

-----------------------------------------------------------------------------
(* The tree of names, as it is on the disk                                 *)

Entries(s) == {disk[s].table[i] : i \in DOMAIN disk[s].table} \ {None}

(* Every entry with its path. *)
Nodes ==
  LET level[n \in 0 .. NUM_SECTORS] ==
        IF n = 0 THEN {[path |-> <<>>, sector |-> DIRECTORY_SECTOR]}
        ELSE UNION {{[path |-> Append(x.path, e.name), sector |-> e.sector] :
                       e \in Entries(x.sector)} : x \in level[n - 1]}
  IN  UNION Range(level)

IsDir(s) == disk[s].table # <<>>

Tree == {[path |-> x.path, isDirectory |-> IsDir(x.sector)] : x \in Nodes}

(* The sectors of a header, and all that have an owner. *)
SectorsOf(s) == {s} \cup disk[s].data

Owned == SectorsOf(FREE_MAP_SECTOR) \cup UNION {SectorsOf(x.sector) : x \in Nodes}

PathsOf(s) == {x.path : x \in {y \in Nodes : y.sector = s}}

-----------------------------------------------------------------------------

(* FileSystem(false): a start on a disk that has been formatted. *)
Booted ==
  /\ directoryFile' = DIRECTORY_SECTOR
  /\ directorySize' = FetchSize(DIRECTORY_SECTOR)
  /\ count' = [s \in Sectors |->
                 IF s \in {FREE_MAP_SECTOR, DIRECTORY_SECTOR} THEN 1 ELSE 0]
  /\ directoryFileBackup' = None
  /\ dir' = <<>> /\ freeMap' = {} /\ sector' = 0 /\ header' = Header({}, <<>>)

NoHistory == [tree |-> {}, directory |-> DIRECTORY_SECTOR, clear |-> 0, whole |-> FALSE]

Idle == [op |-> "none", absolute |-> FALSE, path |-> <<>>]

(* FileSystem(true): sector 2 has the bit map, the next ones the table of  *)
(* the root.                                                               *)
Init ==
  LET data == Find({0, 1, 2}, NewSectors({}, NUM_DIR_ENTRIES))
  IN  /\ disk = [s \in Sectors |->
                   CASE s = FREE_MAP_SECTOR -> Header({2}, <<>>)
                     [] s = DIRECTORY_SECTOR -> Header(data, NewDirectory(NUM_DIR_ENTRIES))
                     [] OTHER -> Header({}, <<>>)]
      /\ used = {0, 1, 2} \cup data
  /\ directoryFile = DIRECTORY_SECTOR
  /\ directorySize = NUM_DIR_ENTRIES
  /\ count = [s \in Sectors |-> IF s \in {FREE_MAP_SECTOR, DIRECTORY_SECTOR} THEN 1 ELSE 0]
  /\ pc = "idle" /\ call = Idle /\ result = FALSE
  /\ directoryFileBackup = None
  /\ dir = <<>> /\ freeMap = {} /\ sector = 0 /\ header = Header({}, <<>>)
  /\ calls = 0 /\ stops = 0
  /\ before = NoHistory
  /\ lost = FALSE

Opened(counts, s) == [counts EXCEPT ![s] = @ + 1]
Closed(counts, s) == [counts EXCEPT ![s] = IF @ > 0 THEN @ - 1 ELSE 0]

(* SeparateDir: the last of MAX_DIR_LEVEL tokens is not used. *)
SeparateDir(path) == SubSeq(path, 1, Min({Len(path), MAX_DIR_LEVEL - 1}))

(* The loop of ChangeDirRootPath: the directories it opens one after       *)
(* another, as far as it comes.                                            *)
Journey(path) ==
  LET names == SeparateDir(path)
      at[n \in 0 .. Len(names)] ==
        IF n = 0 THEN DIRECTORY_SECTOR
        ELSE IF at[n - 1] = None THEN None
        ELSE IF FindDir(disk[at[n - 1]].table, names[n])
             THEN FindSector(disk[at[n - 1]].table, names[n]) ELSE None
  IN  SelectSeq([n \in 1 .. Len(names) + 1 |-> at[n - 1]], LAMBDA s : s # None)

Arrives(path) == Len(Journey(path)) = Len(SeparateDir(path)) + 1

(* new Directory(0) fails an assertion: a table was read from a file. *)
Aborts(path) == \E n \in DOMAIN Journey(path) : ~IsDir(Journey(path)[n])

-----------------------------------------------------------------------------

Call(op, absolute, path) ==
  /\ pc = "idle" /\ calls < MaxCalls
  /\ calls' = calls + 1
  /\ call' = [op |-> op, absolute |-> absolute, path |-> path]
  /\ before' = [tree |-> Tree, directory |-> directoryFile, clear |-> CountClear(used),
                 whole |-> used = Owned]
  /\ lost' = FALSE
  /\ pc' = IF op = "changeDir" THEN "changeDir" ELSE "travel"
  /\ UNCHANGED <<disk, used, memory, result, locals, stops>>

Finish(success) == pc' = "return" /\ result' = success

Abort == pc' = "aborted" /\ UNCHANGED <<memory, result, directoryFileBackup>>

(* The directory a path leads to becomes the current one; its old one is   *)
(* kept for the way back.  If there is no such directory, the last one     *)
(* that was opened on the way stays open.                                  *)
Travel ==
  /\ pc = "travel"
  /\ IF ~call.absolute
     THEN pc' = "lookup" /\ UNCHANGED <<memory, result, directoryFileBackup>>
     ELSE IF call.path = <<>>
     THEN Finish(FALSE) /\ UNCHANGED <<memory, directoryFileBackup>>
     ELSE IF Aborts(Front(call.path))
     THEN Abort
     ELSE LET s == Last(Journey(Front(call.path)))
          IN  /\ count' = Opened(count, s)
              /\ IF Arrives(Front(call.path))
                 THEN /\ directoryFileBackup' = directoryFile
                      /\ directoryFile' = s
                      /\ directorySize' = FetchSize(s)
                      /\ pc' = "lookup" /\ UNCHANGED result
                 ELSE /\ Finish(FALSE)
                      /\ UNCHANGED <<directoryFileBackup, directoryFile, directorySize>>
  /\ UNCHANGED <<disk, used, dir, freeMap, sector, header, call, calls, stops, before, lost>>

Lookup(op) == pc = "lookup" /\ call.op = op

(* Mutant: the operation does not go back. *)
Refuse_Stays ==
  /\ Finish(FALSE)
  /\ UNCHANGED <<dir, freeMap, sector, header>>

(* The end of an operation that has not changed anything. *)
Refuse ==
  /\ pc' = "restore" /\ result' = FALSE
  /\ UNCHANGED <<dir, freeMap, sector, header>>

(* Create: a sector for the header, and the entry. *)
CreateLookup ==
  /\ Lookup("create") /\ directorySize > 0
  /\ LET table == FetchFrom(directoryFile, directorySize)
         name == Last(call.path)
     IN  IF HasName(table, name) \/ CountClear(used) = 0
         THEN Refuse /\ UNCHANGED directorySize
         ELSE /\ sector' = Min(Find(used, 1))
              /\ dir' \in Add(table, name, sector', FALSE)
              /\ directorySize' = Len(dir')
              /\ freeMap' = used \cup {sector'}
              /\ header' = Header({}, <<>>)
              /\ pc' = "header"
              /\ UNCHANGED result
  /\ UNCHANGED <<disk, used, directoryFile, count, directoryFileBackup, call, calls, stops, before, lost>>

(* CreateDir: also the sectors of its table.  The entry is added even if   *)
(* there is no sector, and counts for directorySize; if the table gets     *)
(* none the call ends right there.                                         *)
CreateDirLookup ==
  /\ Lookup("createDir") /\ directorySize > 0
  /\ LET table == FetchFrom(directoryFile, directorySize)
         name == Last(call.path)
         map == used \cup Find(used, 1)
         wanted == NewSectors({}, NUM_DIR_ENTRIES)
     IN  IF HasName(table, name)
         THEN Refuse /\ UNCHANGED directorySize
         ELSE \E added \in Add(table, name, IF map = used THEN None ELSE Min(Find(used, 1)), TRUE) :
                /\ directorySize' = Len(added)
                /\ IF map = used
                   THEN Refuse
                   ELSE IF CountClear(map) < wanted
                   THEN Finish(FALSE) /\ UNCHANGED <<dir, freeMap, sector, header>>
                   ELSE /\ sector' = Min(Find(used, 1))
                        /\ dir' = added
                        /\ header' = Header(Find(map, wanted), <<>>)
                        /\ freeMap' = map \cup header'.data
                        /\ pc' = "header"
                        /\ UNCHANGED result
  /\ UNCHANGED <<disk, used, directoryFile, count, directoryFileBackup, call, calls, stops, before, lost>>

(* FileHeader::Deallocate, of the headers of the file in sector s. *)
HeaderDeallocate(map, s) == map \ disk[s].data

(* Mutant: the sector of the header is forgotten. *)
Deallocate_Data(s) == HeaderDeallocate(used, s)

(* The bit map without the sectors of a file. *)
Deallocate(s) == HeaderDeallocate(used, s) \ {s}

(* Remove waits if somebody has the file open (module FileRemoval), and    *)
(* here nobody is there to close it.                                       *)
RemoveLookup ==
  /\ Lookup("remove") /\ directorySize > 0
  /\ LET table == FetchFrom(directoryFile, directorySize)
         name == Last(call.path)
         s == FindSector(table, name)
     IN  IF ~HasName(table, name)
         THEN Refuse
         ELSE /\ sector' = s
              /\ header' = disk[s]
              /\ dir' = DirectoryRemove(table, name)
              /\ freeMap' = Deallocate(s)
              /\ pc' = IF count[s] > 0 THEN "waiting" ELSE "map"
              /\ UNCHANGED result
  /\ UNCHANGED <<disk, used, memory, directoryFileBackup, call, calls, stops, before, lost>>

(* new Directory(directorySize) when the current directory is a file. *)
LookupAborts ==
  /\ pc = "lookup" /\ directorySize = 0
  /\ Abort
  /\ UNCHANGED <<disk, used, dir, freeMap, sector, header, call, calls, stops, before, lost>>

(* The header is written back, *)
WriteHeader ==
  /\ pc = "header"
  /\ disk' = [disk EXCEPT ![sector] = header]
  /\ pc' = "map"
  /\ UNCHANGED <<used, memory, call, result, locals, calls, stops, before, lost>>

(* Mutant: it stays in memory when a directory is made. *)
WriteMap_FilesOnly ==
  /\ pc = "map"
  /\ used' = IF call.op = "createDir" THEN used ELSE freeMap
  /\ pc' = IF call.op = "createDir" THEN "table" ELSE "entry"
  /\ UNCHANGED <<disk, memory, call, result, locals, calls, stops, before, lost>>

(* then the bit map, *)
WriteMap ==
  /\ pc = "map"
  /\ used' = freeMap
  /\ pc' = IF call.op = "createDir" THEN "table" ELSE "entry"
  /\ UNCHANGED <<disk, memory, call, result, locals, calls, stops, before, lost>>

(* then the table of a new directory, *)
WriteTable ==
  /\ pc = "table"
  /\ disk' = [disk EXCEPT ![sector].table = NewDirectory(NUM_DIR_ENTRIES)]
  /\ pc' = "entry"
  /\ UNCHANGED <<used, memory, call, result, locals, calls, stops, before, lost>>

(* and the table that changes.  If it has grown, OpenFile::Write marks the *)
(* sectors it needs first, and if there are none it writes nothing, which  *)
(* nobody notices;                                                         *)
GrowDirectory ==
  /\ pc = "entry" /\ Len(dir) > FetchSize(directoryFile)
  /\ LET data == disk[directoryFile].data
         wanted == NewSectors(data, Len(dir))
     IN  IF CountClear(used) < wanted
         THEN pc' = "done" /\ lost' = TRUE /\ UNCHANGED <<used, header>>
         ELSE /\ pc' = "grown"
              /\ used' = used \cup Find(used, wanted)
              /\ header' = Header(data \cup Find(used, wanted), <<>>)
              /\ UNCHANGED lost
  /\ UNCHANGED <<disk, memory, call, result, directoryFileBackup, dir, freeMap, sector,
                 calls, stops, before>>

(* the header of the directory follows, and then its table. *)
GrowHeader ==
  /\ pc = "grown"
  /\ disk' = [disk EXCEPT ![directoryFile].data = header.data]
  /\ pc' = "data"
  /\ UNCHANGED <<used, memory, call, result, locals, calls, stops, before, lost>>

(* Mutant: as many entries as there were. *)
WriteEntry_OldSize ==
  /\ \/ pc = "data"
     \/ pc = "entry" /\ Len(dir) <= FetchSize(directoryFile)
  /\ disk' = [disk EXCEPT ![directoryFile].table = SubSeq(dir, 1, Len(@))]
  /\ pc' = "done"
  /\ UNCHANGED <<used, memory, call, result, locals, calls, stops, before, lost>>

WriteEntry ==
  /\ \/ pc = "data"
     \/ pc = "entry" /\ Len(dir) <= FetchSize(directoryFile)
  /\ disk' = [disk EXCEPT ![directoryFile].table = dir \o SubSeq(@, Len(dir) + 1, Len(@))]
  /\ pc' = "done"
  /\ UNCHANGED <<used, memory, call, result, locals, calls, stops, before, lost>>

(* The entry of the table of open files is made anew. *)
Done ==
  /\ pc = "done"
  /\ count' = IF call.op = "remove" THEN count ELSE [count EXCEPT ![sector] = 0]
  /\ result' = TRUE
  /\ pc' = "restore"
  /\ UNCHANGED <<disk, used, directoryFile, directorySize, call, locals, calls, stops, before, lost>>

(* Back to the directory that was the current one. *)
Restore ==
  /\ pc = "restore"
  /\ IF directoryFileBackup = None
     THEN UNCHANGED memory
     ELSE /\ count' = Closed(count, directoryFile)
          /\ directoryFile' = directoryFileBackup
          /\ directorySize' = FetchSize(directoryFileBackup)
  /\ pc' = "return"
  /\ UNCHANGED <<disk, used, call, result, locals, calls, stops, before, lost>>

(* ChangeDir with a path from the root, and with a name. *)
ChangeDirRootPath ==
  /\ pc = "changeDir" /\ call.absolute
  /\ IF Aborts(call.path)
     THEN Abort
     ELSE LET s == Last(Journey(call.path))
          IN  /\ IF Arrives(call.path)
                 THEN /\ count' = Closed(Opened(count, s), directoryFile)
                      /\ directoryFile' = s
                      /\ directorySize' = FetchSize(s)
                 ELSE /\ count' = Opened(count, s)
                      /\ UNCHANGED <<directoryFile, directorySize>>
              /\ Finish(Arrives(call.path))
              /\ UNCHANGED directoryFileBackup
  /\ UNCHANGED <<disk, used, dir, freeMap, sector, header, call, calls, stops, before, lost>>

ChangeDirRelativePath ==
  /\ pc = "changeDir" /\ ~call.absolute
  /\ LET table == FetchFrom(directoryFile, directorySize)
         s == FindSector(table, call.path[1])
     IN  IF directorySize = 0
         THEN Abort
         ELSE /\ IF FindDir(table, call.path[1])
                 THEN /\ count' = Closed(Opened(count, s), directoryFile)
                      /\ directoryFile' = s
                      /\ directorySize' = FetchSize(s)
                 ELSE UNCHANGED memory
              /\ Finish(FindDir(table, call.path[1]))
              /\ UNCHANGED directoryFileBackup
  /\ UNCHANGED <<disk, used, dir, freeMap, sector, header, call, calls, stops, before, lost>>

Return ==
  /\ pc = "return"
  /\ pc' = "idle" /\ call' = Idle /\ result' = FALSE
  /\ directoryFileBackup' = None
  /\ dir' = <<>> /\ freeMap' = {} /\ sector' = 0 /\ header' = Header({}, <<>>)
  /\ before' = NoHistory
  /\ lost' = FALSE
  /\ UNCHANGED <<disk, used, memory, calls, stops>>

(* The moments at which the disk is not in order: sectors are free that    *)
(* still have an entry, and a directory has an entry nobody has written.   *)
Torn ==
  \/ pc = "data"
  \/ call.op = "remove" /\ pc \in {"entry", "grown"}

(* The machine stops and is started again. *)
Restart ==
  /\ ~Torn /\ stops < MaxStops
  /\ stops' = stops + 1
  /\ Booted
  /\ pc' = "idle" /\ call' = Idle /\ result' = FALSE
  /\ before' = NoHistory /\ lost' = FALSE
  /\ UNCHANGED <<disk, used, calls>>

Paths == UNION {[1 .. n -> Names] : n \in 0 .. MaxPath}

Calls ==
  \/ \E op \in {"create", "createDir", "remove", "changeDir"}, path \in Paths :
       Call(op, TRUE, path)
  \/ \E op \in {"create", "createDir", "remove", "changeDir"}, name \in Names :
       Call(op, FALSE, <<name>>)

Next ==
  \/ Calls
  \/ Travel \/ CreateLookup \/ CreateDirLookup \/ RemoveLookup \/ LookupAborts
  \/ WriteHeader \/ WriteMap \/ WriteTable \/ GrowDirectory \/ GrowHeader \/ WriteEntry
  \/ Done \/ Restore \/ ChangeDirRootPath \/ ChangeDirRelativePath \/ Return
  \/ Restart

Spec == Init /\ [][Next]_vars
-----------------------------------------------------------------------------

(* Mutant: marks without an owner pass. *)
CheckBitmaps_OneWay(shadowMap) == shadowMap \subseteq used

CheckBitmaps(shadowMap) == used = shadowMap

(* CheckSector, for the sectors of each part: AddToShadowBitmap finds none *)
(* of them marked by another part.                                         *)
CheckSectors(parts) == \A i, j \in DOMAIN parts : i # j => parts[i] \cap parts[j] = {}

(* CheckDirectory: names differ. *)
CheckNames(table, entries) ==
  \A i, j \in entries : i # j => table[i].name # table[j].name

(* FileSystem::Check: sectors 0 and 1, the data of the bit map and of the  *)
(* root, and the files of the first NUM_DIR_ENTRIES entries of the current *)
(* directory are marked in a shadow map, each sector once, and the shadow  *)
(* map is compared with the bit map.                                       *)
Check ==
  LET table == FetchFrom(directoryFile, directorySize)
      entries == {i \in 1 .. NUM_DIR_ENTRIES : table[i] # None}
      parts == <<{FREE_MAP_SECTOR, DIRECTORY_SECTOR},
                 disk[FREE_MAP_SECTOR].data, disk[DIRECTORY_SECTOR].data>>
               \o [i \in 1 .. NUM_DIR_ENTRIES |->
                     IF i \in entries THEN SectorsOf(table[i].sector) ELSE {}]
  IN  /\ CheckSectors(parts)
      /\ CheckNames(table, entries)
      /\ CheckBitmaps(UNION Range(parts))

-----------------------------------------------------------------------------

(* Whenever the machine may be started again, after a stop between any two *)
(* writes to the disk included, the names of a directory differ, no sector *)
(* belongs to two files, and what belongs to a file is marked.             *)
DiskIsSound ==
  ~Torn =>
    /\ \A x, y \in Nodes : x # y =>
         x.path # y.path /\ SectorsOf(x.sector) \cap SectorsOf(y.sector) = {}
    /\ Owned \subseteq used

(* The paths a call is about: none if the current directory has none. *)
Targets ==
  IF call.absolute THEN {call.path}
  ELSE {Append(p, call.path[1]) : p \in PathsOf(before.directory)}

IsDirectoryBefore(path) == [path |-> path, isDirectory |-> TRUE] \in before.tree

ExistsBefore(path) == \E x \in before.tree : x.path = path

(* The tree the calls of file_system.hh should make of the one before. *)
Expected ==
  CASE call.op = "create" -> before.tree \cup [path : Targets, isDirectory : {FALSE}]
    [] call.op = "createDir" -> before.tree \cup [path : Targets, isDirectory : {TRUE}]
    [] call.op = "remove" -> {x \in before.tree : \A p \in Targets : ~IsPrefix(p, x.path)}
    [] call.op = "changeDir" -> before.tree

(* The sectors a call may need. *)
Needed ==
  CASE call.op = "create" -> 1
    [] call.op = "createDir" -> 1 + NewSectors({}, NUM_DIR_ENTRIES)
    [] OTHER -> 0

(* Paths whose directories SeparateDir does not cut off. *)
WithinLevels ==
  call.absolute => Len(call.path) - (IF call.op = "changeDir" THEN 0 ELSE 1) < MAX_DIR_LEVEL

(* A call that returns true has changed the tree on the disk as it should, *)
(* and one that returns false not at all.  Nothing is said of the calls    *)
(* that find no sector for a directory to grow: WriteBack drops the result *)
(* of Write (directory.cc:87), so that Create and CreateDir return true    *)
(* for an entry that is not there, although file_system.cc:177-182 says    *)
(* they fail.                                                              *)
TreeFollowsCalls ==
  pc = "return" /\ WithinLevels /\ ~lost =>
    Tree = IF result THEN Expected ELSE before.tree

(* A call returns false only for a reason: its directory or its name is    *)
(* not there, or the name is taken, or the sectors are not enough.         *)
FailuresHaveReasons ==
  pc = "return" /\ ~result /\ WithinLevels /\ (call.op # "changeDir" => call.path # <<>>) =>
    \A p \in Targets :
      \/ p # <<>> /\ ~IsDirectoryBefore(Front(p))
      \/ call.op = "changeDir" /\ ~IsDirectoryBefore(p)
      \/ call.op = "remove" /\ ~ExistsBefore(p)
      \/ call.op \in {"create", "createDir"} /\ (ExistsBefore(p) \/ before.clear < Needed)

(* Calls other than ChangeDir leave the current directory as it was, but   *)
(* for a CreateDir that finds a sector for its header and none for its     *)
(* table.                                                                  *)
ComesBack ==
  pc = "return" /\ call.op # "changeDir" =>
    \/ directoryFile = before.directory
    \/ call.op = "createDir" /\ ~result /\ before.clear \in 1 .. Needed - 1

(* A call leaves no sector marked that has no owner, but if it could not   *)
(* grow a directory, and if it removes a directory that is not empty.      *)
SectorsAreFreed ==
  pc = "return" /\ before.whole =>
    \/ used = Owned
    \/ lost
    \/ call.op = "remove" /\ \E x \in before.tree, p \in Targets :
                               Len(x.path) > Len(p) /\ IsPrefix(p, x.path)
    \/ ~WithinLevels

(* Check accepts a disk with one small directory if and only if every      *)
(* sector that is marked has an owner.                                     *)
CheckFindsLeaks ==
  /\ pc = "idle" /\ directoryFile = DIRECTORY_SECTOR
  /\ \A x \in Nodes : Len(x.path) <= 1
  /\ FetchSize(DIRECTORY_SECTOR) <= NUM_DIR_ENTRIES
  => (Check <=> used = Owned)
=============================================================================
