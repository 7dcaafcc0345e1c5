------------------------------- MODULE FileData ------------------------------
(***************************************************************************)
(* filesys/open_file.cc and file_header.cc: the bytes of files.  A file is *)
(* a chain of headers, each with the sectors of its part of the data; a    *)
(* write makes the last header longer and then adds headers to the chain.  *)
(* What is free is kept in a bit map, which is a file too: every operation *)
(* works on a copy of it and writes the copy back.                         *)
(*                                                                         *)
(* A step ends where a sector or the map is written.  The writes that mark *)
(* the sectors of several new headers, and the data of one header, are one *)
(* step each.                                                              *)
(*                                                                         *)
(* The write lock is a file's own, so nothing keeps Writes on two files    *)
(* from working on two copies of the map at once; the one written back     *)
(* last wins.  `mixed` records that two such Writes have met.  The file    *)
(* system does not claim to work then ("there is no synchronization for    *)
(* concurrent accesses", file_system.cc), and the properties speak of the  *)
(* states before.                                                          *)
(***************************************************************************)
EXTENDS Integers, Sequences, FiniteSets, Functions, SequencesExt, FiniteSetsExt

CONSTANTS
  NUM_SECTORS, SECTOR_SIZE, NUM_DIRECT,
  Files,         \* the files
  First,         \* First[f]: the sector of the first header of f
  Handles,       \* the OpenFiles, each used by a thread of its own
  FileOf,        \* FileOf[h]: the file h was made for
  Uses,          \* the ways the handles may be used: functions from handles
                 \* to "read", "write", "directory" and "none"
  Lengths,       \* the numbers of bytes asked for
  MaxCalls,      \* bound: calls of Read and Write
  None

Sectors == 0 .. NUM_SECTORS - 1

ASSUME FileDataConstants ==
  /\ {SECTOR_SIZE, NUM_DIRECT} \subseteq Nat \ {0}
  /\ First \in [Files -> Sectors \ {0}] /\ IsInjective(First)
  /\ FileOf \in [Handles -> Files]
  /\ Uses \subseteq [Handles -> {"read", "write", "directory", "none"}]

VARIABLES
  disk,          \* disk[s]: a header, or the bytes of a sector
  used,          \* the sectors the bit map on the disk has marked
  writeLock,     \* writeLock[f]: the handle that has the write lock, or None
  hdr, seekPosition, currentSector,   \* of each handle
  pc,            \* pc[h]: where the call of h is, or "idle" or "closed"
  arg, from,     \* the bytes to write, and those of them that are left
  freeMap,       \* the copy of the bit map
  target,        \* the sector of the header that is being filled
  fresh,         \* the sectors for new headers not yet in the chain, or None
  made,          \* the new header
  want, into,    \* the number of bytes still to read, and those read
  use, calls,
  file,          \* file[f]: the bytes f should have (history)
  place,         \* place[h]: the position of h in them (history)
  alone,         \* alone[h]: nobody has written during the read (history)
  mixed          \* Writes on two files were under way together (history)

writeVars == <<arg, from, freeMap, target, fresh, made>>
readVars == <<want, into>>
handleVars == <<hdr, seekPosition, currentSector>>
historyVars == <<file, place, alone, mixed>>
vars == <<disk, used, writeLock, handleVars, pc, writeVars, readVars, use, calls,
          historyVars>>

Junk == -1       \* what a byte is that nobody wrote

NoHeader == [numBytes |-> 0, dataSectors |-> <<>>, nextFileHeader |-> 0]

CAPACITY == NUM_DIRECT * SECTOR_SIZE

(* The disk after Create has made empty files. *)
Init ==
  /\ disk = [s \in Sectors |->
               IF s \in Range(First) THEN NoHeader ELSE [b \in 0 .. SECTOR_SIZE - 1 |-> Junk]]
  /\ used = {0} \cup Range(First)
  /\ writeLock = [f \in Files |-> None]
  /\ hdr = [h \in Handles |-> NoHeader]
  /\ seekPosition = [h \in Handles |-> 0]
  /\ currentSector = [h \in Handles |-> First[FileOf[h]]]
  /\ pc = [h \in Handles |-> "closed"]
  /\ arg = [h \in Handles |-> <<>>]
  /\ from = [h \in Handles |-> <<>>]
  /\ freeMap = [h \in Handles |-> {}]
  /\ target = [h \in Handles |-> 0]
  /\ fresh = [h \in Handles |-> None]
  /\ made = [h \in Handles |-> NoHeader]
  /\ want = [h \in Handles |-> 0]
  /\ into = [h \in Handles |-> <<>>]
  /\ use \in Uses
  /\ calls = 0
  /\ file = [f \in Files |-> <<>>]
  /\ place = [h \in Handles |-> 0]
  /\ alone = [h \in Handles |-> FALSE]
  /\ mixed = FALSE

-----------------------------------------------------------------------------
(* Bit map, headers and the bytes of one header                            *)

DivRoundUp(n, s) == (n + s - 1) \div s

CountClear(map) == NUM_SECTORS - Cardinality(map)

(* The sectors n calls of Bitmap::Find return. *)
Find(map, n) ==
  LET clear == Sectors \ map
  IN  [i \in 1 .. n |->
         CHOOSE s \in clear : Cardinality({r \in clear : r < s}) = i - 1]

(* FileHeader::Allocate.  If it fails the header has changed all the same. *)
Allocate(hd, map, fileSize) ==
  LET bytes == hd.numBytes + fileSize
      newSectors == DivRoundUp(bytes, SECTOR_SIZE) - Len(hd.dataSectors)
      ok == CountClear(map) >= newSectors
      found == IF ok THEN Find(map, newSectors) ELSE <<>>
  IN  [success |-> ok,
       hdr |-> [hd EXCEPT !.numBytes = bytes, !.dataSectors = @ \o found],
       map |-> map \cup Range(found)]

(* How much of n bytes at a position lies within the header. *)
Within(hd, position, n) == Max({0, Min({n, hd.numBytes - position})})

(* OpenFile::ReadAt. *)
ReadAt(hd, n, position) ==
  [i \in 1 .. Within(hd, position, n) |->
     LET p == position + i - 1
     IN  disk[hd.dataSectors[p \div SECTOR_SIZE + 1]][p % SECTOR_SIZE]]

(* OpenFile::WriteAt: sectors that are written in part are read first, as  *)
(* far as the header goes; their remaining bytes are not initialized.      *)
WriteAt(hd, bytes, position) ==
  LET n == Within(hd, position, Len(bytes))
      touched == {i \in DOMAIN hd.dataSectors :
                    /\ position < i * SECTOR_SIZE
                    /\ (i - 1) * SECTOR_SIZE < position + n}
      Byte(s, p) == CASE p \in position .. position + n - 1 -> bytes[p - position + 1]
                      [] p < hd.numBytes -> disk[s][p % SECTOR_SIZE]
                      [] OTHER -> Junk
  IN  [s \in Sectors |->
         IF \E i \in touched : hd.dataSectors[i] = s
         THEN LET i == CHOOSE j \in touched : hd.dataSectors[j] = s
              IN  [b \in 0 .. SECTOR_SIZE - 1 |-> Byte(s, (i - 1) * SECTOR_SIZE + b)]
         ELSE disk[s]]

Goto(h, to) == pc' = [pc EXCEPT ![h] = to]

(* OpenFile::OpenFile fetches the first header. *)
Open(h) ==
  /\ pc[h] = "closed" /\ use[h] # "none"
  /\ hdr' = [hdr EXCEPT ![h] = disk[First[FileOf[h]]]]
  /\ Goto(h, "idle")
  /\ UNCHANGED <<disk, used, writeLock, seekPosition, currentSector, writeVars, readVars,
                 use, calls, historyVars>>

-----------------------------------------------------------------------------
(* OpenFile::Write                                                         *)

WriteCall(h, n) ==
  /\ pc[h] = "idle" /\ use[h] \in {"write", "directory"} /\ calls < MaxCalls
  /\ calls' = calls + 1
  /\ arg' = [arg EXCEPT ![h] = [i \in 1 .. n |-> 10 * calls + i]]
  /\ from' = [from EXCEPT ![h] = arg'[h]]
  /\ Goto(h, "acquire")
  /\ UNCHANGED <<disk, used, writeLock, handleVars, freeMap, target, fresh, made,
                 readVars, use, historyVars>>

(* Up to the first part of the data: the write lock is taken, the header   *)
(* and the bit map are fetched.                                            *)
WriteBegin(h) ==
  /\ pc[h] = "acquire" /\ writeLock[FileOf[h]] = None
  /\ writeLock' = [writeLock EXCEPT ![FileOf[h]] = h]
  /\ IF use[h] = "directory"
     THEN /\ seekPosition' = [seekPosition EXCEPT ![h] = 0]
          /\ currentSector' = [currentSector EXCEPT ![h] = First[FileOf[h]]]
          /\ place' = [place EXCEPT ![h] = 0]
     ELSE UNCHANGED <<seekPosition, currentSector, place>>
  /\ hdr' = [hdr EXCEPT ![h] = disk[currentSector'[h]]]
  /\ target' = [target EXCEPT ![h] = currentSector'[h]]
  /\ freeMap' = [freeMap EXCEPT ![h] = used]
  /\ alone' = [g \in Handles |-> alone[g] /\ FileOf[g] # FileOf[h]]
  /\ mixed' = (mixed \/ \E f \in Files : writeLock[f] # None)
  /\ Goto(h, "fill")
  /\ UNCHANGED <<disk, used, arg, from, fresh, made, readVars, use, calls, file>>

(* Where the data go in the header at hand: the position is kept in the    *)
(* header the handle is at.                                                *)
Position(h) == IF target[h] = currentSector[h] THEN seekPosition[h] ELSE 0

(* bytesToWrite. *)
Portion(h) == Min({Len(from[h]), CAPACITY - Position(h)})

(* Mutant: the bit map is not written back. *)
Fill_NoMap(h) ==
  /\ pc[h] = "fill"
  /\ LET end == Position(h) + Portion(h)
         a == Allocate(hdr[h], freeMap[h], end - hdr[h].numBytes)
     IN  IF end <= hdr[h].numBytes \/ Portion(h) = 0
         THEN /\ Goto(h, IF Portion(h) = 0 THEN "next" ELSE "data")
              /\ UNCHANGED <<hdr, freeMap, used>>
         ELSE /\ hdr' = [hdr EXCEPT ![h] = a.hdr]
              /\ freeMap' = [freeMap EXCEPT ![h] = a.map]
              /\ UNCHANGED used
              /\ Goto(h, IF a.success THEN "header" ELSE "return")
  /\ UNCHANGED <<disk, writeLock, seekPosition, currentSector, arg, from, target,
                 fresh, made, readVars, use, calls, historyVars>>

(* The header at hand gets sectors for the data, if it must, and the bit   *)
(* map is written back.                                                    *)
Fill(h) ==
  /\ pc[h] = "fill"
  /\ LET end == Position(h) + Portion(h)
         a == Allocate(hdr[h], freeMap[h], end - hdr[h].numBytes)
     IN  IF end <= hdr[h].numBytes \/ Portion(h) = 0
         THEN /\ Goto(h, IF Portion(h) = 0 THEN "next" ELSE "data")
              /\ UNCHANGED <<hdr, freeMap, used>>
         ELSE /\ hdr' = [hdr EXCEPT ![h] = a.hdr]
              /\ freeMap' = [freeMap EXCEPT ![h] = a.map]
              /\ used' = IF a.success THEN a.map ELSE used
              /\ Goto(h, IF a.success THEN "header" ELSE "return")
  /\ UNCHANGED <<disk, writeLock, seekPosition, currentSector, arg, from, target,
                 fresh, made, readVars, use, calls, historyVars>>

(* hdr->WriteBack. *)
HeaderBack(h) ==
  /\ pc[h] = "header"
  /\ disk' = [disk EXCEPT ![target[h]] = hdr[h]]
  /\ Goto(h, "data")
  /\ UNCHANGED <<used, writeLock, handleVars, writeVars, readVars, use, calls,
                 historyVars>>

(* Mutant: the handle stays at the header it was at. *)
WriteData_StaysBehind(h) ==
  /\ pc[h] = "data"
  /\ LET n == Within(hdr[h], Position(h), Portion(h))
     IN  /\ disk' = WriteAt(hdr[h], SubSeq(from[h], 1, n), Position(h))
         /\ from' = [from EXCEPT ![h] = SubSeq(@, n + 1, Len(@))]
         /\ seekPosition' = [seekPosition EXCEPT ![h] = Position(h) + n]
  /\ UNCHANGED currentSector
  /\ Goto(h, IF fresh[h] = None THEN "next" ELSE "new")
  /\ UNCHANGED <<used, writeLock, hdr, arg, freeMap, target, fresh, made, readVars,
                 use, calls, historyVars>>

(* WriteAt and the advance of the positions. *)
WriteData(h) ==
  /\ pc[h] = "data"
  /\ LET n == Within(hdr[h], Position(h), Portion(h))
     IN  /\ disk' = WriteAt(hdr[h], SubSeq(from[h], 1, n), Position(h))
         /\ from' = [from EXCEPT ![h] = SubSeq(@, n + 1, Len(@))]
         /\ seekPosition' = [seekPosition EXCEPT ![h] = Position(h) + n]
  /\ currentSector' = [currentSector EXCEPT ![h] = target[h]]
  /\ Goto(h, IF fresh[h] = None THEN "next" ELSE "new")
  /\ UNCHANGED <<used, writeLock, hdr, arg, freeMap, target, fresh, made, readVars,
                 use, calls, historyVars>>

(* The loop over the headers that follow. *)
NextHeader(h) ==
  /\ pc[h] = "next"
  /\ from[h] # <<>> /\ hdr[h].nextFileHeader # 0
  /\ hdr' = [hdr EXCEPT ![h] = disk[hdr[h].nextFileHeader]]
  /\ target' = [target EXCEPT ![h] = hdr[h].nextFileHeader]
  /\ Goto(h, "fill")
  /\ UNCHANGED <<disk, used, writeLock, seekPosition, currentSector, arg, from,
                 freeMap, fresh, made, readVars, use, calls, historyVars>>

(* After the loop: done, or sectors are found for the headers that the     *)
(* rest of the data needs.                                                 *)
NewHeaders(h) ==
  /\ pc[h] = "next"
  /\ from[h] = <<>> \/ hdr[h].nextFileHeader = 0
  /\ LET headers == DivRoundUp(DivRoundUp(Len(from[h]), SECTOR_SIZE), NUM_DIRECT)
         found == Find(freeMap[h], headers)
     IN  IF from[h] = <<>> \/ CountClear(freeMap[h]) < headers
         THEN Goto(h, "return") /\ UNCHANGED <<fresh, freeMap, used>>
         ELSE /\ fresh' = [fresh EXCEPT ![h] = found]
              /\ freeMap' = [freeMap EXCEPT ![h] = @ \cup Range(found)]
              /\ used' = freeMap'[h]
              /\ Goto(h, "new1")
  /\ UNCHANGED <<disk, writeLock, handleVars, arg, from, target, made, readVars, use,
                 calls, historyVars>>

(* A new header gets sectors: the first one all it needs, those that       *)
(* follow what there is.  If there is nothing the call ends; the sectors   *)
(* of the remaining headers stay marked on the disk.                       *)
AllocateNew(h) ==
  /\ pc[h] \in {"new1", "new"}
  /\ LET all == Min({Len(from[h]), CAPACITY})
         clear == CountClear(freeMap[h])
         n == IF pc[h] = "new" /\ clear < DivRoundUp(all, SECTOR_SIZE)
              THEN clear * SECTOR_SIZE ELSE all
         a == Allocate(NoHeader, freeMap[h], n)
     IN  IF fresh[h] = <<>> \/ n = 0 \/ ~a.success
         THEN Goto(h, "return") /\ UNCHANGED <<freeMap, used, made>>
         ELSE /\ made' = [made EXCEPT ![h] = a.hdr]
              /\ freeMap' = [freeMap EXCEPT ![h] = a.map]
              /\ used' = a.map
              /\ Goto(h, "newHeader")
  /\ UNCHANGED <<disk, writeLock, handleVars, arg, from, target, fresh, readVars, use,
                 calls, historyVars>>

(* The new header is written, *)
NewHeaderBack(h) ==
  /\ pc[h] = "newHeader"
  /\ disk' = [disk EXCEPT ![Head(fresh[h])] = made[h]]
  /\ Goto(h, "link")
  /\ UNCHANGED <<used, writeLock, handleVars, writeVars, readVars, use, calls,
                 historyVars>>

(* and then the one before it, which is the one the handle is at. *)
Link(h) ==
  /\ pc[h] = "link"
  /\ disk' = [disk EXCEPT ![currentSector[h]] =
                [hdr[h] EXCEPT !.nextFileHeader = Head(fresh[h])]]
  /\ hdr' = [hdr EXCEPT ![h] = made[h]]
  /\ target' = [target EXCEPT ![h] = Head(fresh[h])]
  /\ fresh' = [fresh EXCEPT ![h] = Tail(@)]
  /\ Goto(h, "data")
  /\ UNCHANGED <<used, writeLock, seekPosition, currentSector, arg, from, freeMap,
                 made, readVars, use, calls, historyVars>>

(* What was written, and the file with it. *)
Written(h) == SubSeq(arg[h], 1, Len(arg[h]) - Len(from[h]))

Overwrite(s, p, bytes) ==
  [i \in 1 .. Max({Len(s), p + Len(bytes)}) |->
     IF i \in p + 1 .. p + Len(bytes) THEN bytes[i - p] ELSE s[i]]

(* The write lock is released and the count returned. *)
WriteReturn(h) ==
  /\ pc[h] = "return"
  /\ writeLock' = [writeLock EXCEPT ![FileOf[h]] = None]
  /\ Goto(h, "idle")
  /\ file' = [file EXCEPT ![FileOf[h]] = Overwrite(@, place[h], Written(h))]
  /\ place' = [place EXCEPT ![h] = @ + Len(Written(h))]
  /\ arg' = [arg EXCEPT ![h] = <<>>]
  /\ from' = [from EXCEPT ![h] = <<>>]
  /\ freeMap' = [freeMap EXCEPT ![h] = {}]
  /\ fresh' = [fresh EXCEPT ![h] = None]
  /\ made' = [made EXCEPT ![h] = NoHeader]
  /\ UNCHANGED <<disk, used, handleVars, target, readVars, use, calls, alone, mixed>>

-----------------------------------------------------------------------------
(* OpenFile::Read                                                          *)

ReadCall(h, n) ==
  /\ pc[h] = "idle" /\ use[h] \in {"read", "directory"} /\ calls < MaxCalls
  /\ calls' = calls + 1
  /\ IF use[h] = "directory"
     THEN /\ hdr' = [hdr EXCEPT ![h] = disk[First[FileOf[h]]]]
          /\ seekPosition' = [seekPosition EXCEPT ![h] = 0]
          /\ place' = [place EXCEPT ![h] = 0]
     ELSE UNCHANGED <<hdr, seekPosition, place>>
  /\ want' = [want EXCEPT ![h] = n]
  /\ into' = [into EXCEPT ![h] = <<>>]
  /\ alone' = [alone EXCEPT ![h] = writeLock[FileOf[h]] = None]
  /\ Goto(h, "read")
  /\ UNCHANGED <<disk, used, writeLock, currentSector, writeVars, use, file, mixed>>

(* Mutant: the position is not set to the beginning of the next header. *)
ReadPart_KeepsPosition(h) ==
  /\ pc[h] = "read"
  /\ LET bytes == ReadAt(hdr[h], want[h], seekPosition[h])
         next == hdr[h].nextFileHeader
     IN  /\ into' = [into EXCEPT ![h] = @ \o bytes]
         /\ want' = [want EXCEPT ![h] = @ - Len(bytes)]
         /\ IF next # 0 /\ Len(bytes) < want[h]
            THEN /\ hdr' = [hdr EXCEPT ![h] = disk[next]]
                 /\ seekPosition' = [seekPosition EXCEPT ![h] = @ + Len(bytes)]
                 /\ UNCHANGED pc
            ELSE /\ seekPosition' = [seekPosition EXCEPT ![h] = @ + Len(bytes)]
                 /\ Goto(h, "readReturn")
                 /\ UNCHANGED hdr
  /\ UNCHANGED <<disk, used, writeLock, currentSector, writeVars, use, calls,
                 historyVars>>

(* The bytes of one header, and the fetch of the next one if they are not  *)
(* enough.                                                                 *)
ReadPart(h) ==
  /\ pc[h] = "read"
  /\ LET bytes == ReadAt(hdr[h], want[h], seekPosition[h])
         next == hdr[h].nextFileHeader
     IN  /\ into' = [into EXCEPT ![h] = @ \o bytes]
         /\ want' = [want EXCEPT ![h] = @ - Len(bytes)]
         /\ IF next # 0 /\ Len(bytes) < want[h]
            THEN /\ hdr' = [hdr EXCEPT ![h] = disk[next]]
                 /\ seekPosition' = [seekPosition EXCEPT ![h] = 0]
                 /\ UNCHANGED pc
            ELSE /\ seekPosition' = [seekPosition EXCEPT ![h] = @ + Len(bytes)]
                 /\ Goto(h, "readReturn")
                 /\ UNCHANGED hdr
  /\ UNCHANGED <<disk, used, writeLock, currentSector, writeVars, use, calls,
                 historyVars>>

ReadReturn(h) ==
  /\ pc[h] = "readReturn"
  /\ Goto(h, "idle")
  /\ place' = [place EXCEPT ![h] = @ + Len(into[h])]
  /\ into' = [into EXCEPT ![h] = <<>>]
  /\ want' = [want EXCEPT ![h] = 0]
  /\ alone' = [alone EXCEPT ![h] = FALSE]
  /\ UNCHANGED <<disk, used, writeLock, handleVars, writeVars, use, calls, file, mixed>>

-----------------------------------------------------------------------------

Next ==
  \E h \in Handles :
    \/ Open(h)
    \/ \E n \in Lengths : WriteCall(h, n) \/ ReadCall(h, n)
    \/ WriteBegin(h) \/ Fill(h) \/ HeaderBack(h) \/ WriteData(h) \/ NextHeader(h)
    \/ NewHeaders(h) \/ AllocateNew(h) \/ NewHeaderBack(h) \/ Link(h) \/ WriteReturn(h)
    \/ ReadPart(h) \/ ReadReturn(h)

Spec == Init /\ [][Next]_vars

-----------------------------------------------------------------------------

(* The sectors of the headers of f on the disk, in order. *)
Chain(f) ==
  LET sector[n \in 1 .. NUM_SECTORS] ==
        IF n = 1 THEN First[f]
        ELSE IF sector[n - 1] = 0 THEN 0 ELSE disk[sector[n - 1]].nextFileHeader
  IN  SelectSeq(sector, LAMBDA s : s # 0)

(* All sectors of f, in order. *)
SectorsOf(f) ==
  LET chain == Chain(f)
  IN  chain \o FlattenSeq([i \in DOMAIN chain |-> disk[chain[i]].dataSectors])

Content(f) ==
  LET chain == Chain(f)
  IN  FlattenSeq([i \in DOMAIN chain |-> ReadAt(disk[chain[i]], CAPACITY, 0)])

(* A sector is a header of one file or data of one header, at one place;   *)
(* and at every moment, between two writes to the disk too, the sectors    *)
(* that files reach are marked in the bit map on the disk, so that no      *)
(* Write, also after a stop of the machine, takes one of them again.  This *)
(* is so for any Writes on one file, whose lock keeps them apart, and for  *)
(* Writes on several files one after the other; not once Writes on two     *)
(* files have met, each with a copy of the map.                            *)
SectorsHaveOneOwner ==
  mixed \/
  LET of == [f \in Files |-> SectorsOf(f)]
  IN  /\ \A f \in Files : IsInjective(of[f]) /\ Range(of[f]) \subseteq used \ {0}
      /\ \A f, g \in Files : f # g => Range(of[f]) \cap Range(of[g]) = {}
      /\ 0 \in used

(* Outside of Write, the chain of headers holds the bytes that the Writes  *)
(* put where the handles were, as many as they returned, whatever is       *)
(* written to other files before or after.                                 *)
WritesActOnFile ==
  mixed \/ \A f \in Files : writeLock[f] = None => Content(f) = file[f]

(* A Read during which nobody writes to the file returns bytes of the file *)
(* from the handle's place on; as many as asked for, or all, on a          *)
(* directory.                                                              *)
ReadsReturnTheFile ==
  mixed \/ \A h \in Handles :
    pc[h] = "readReturn" /\ alone[h] =>
      LET rest == SubSeq(file[FileOf[h]], place[h] + 1, Len(file[FileOf[h]]))
      IN  /\ IsPrefix(into[h], rest)
          /\ use[h] = "directory" => Len(into[h]) = Min({Len(rest), Len(into[h]) + want[h]})
=============================================================================
