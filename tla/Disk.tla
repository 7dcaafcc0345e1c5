--------------------------------- MODULE Disk --------------------------------
(***************************************************************************)
(* machine/disk.cc, on the machine of module Interrupt: how long a request *)
(* takes.  The head seeks one track per SEEK_TIME, a track rotates by one  *)
(* sector per ROTATION_TIME, and a buffer holds what has passed under the  *)
(* head since the last seek.                                               *)
(***************************************************************************)
EXTENDS Interrupt

CONSTANTS
  DiskDevice,
  SECTORS_PER_TRACK, NUM_TRACKS, SEEK_TIME, ROTATION_TIME

ASSUME DiskConstants ==
  /\ DiskDevice \in Devices \ Pollers /\ Delays[DiskDevice] = {}
  /\ {SECTORS_PER_TRACK, NUM_TRACKS, SEEK_TIME, ROTATION_TIME} \subseteq Nat \ {0}

VARIABLES lastSector, bufferInit,
  arrived       \* since when the head has been on its track (history)

diskVars == <<lastSector, bufferInit, arrived>>

Sectors == 0 .. SECTORS_PER_TRACK * NUM_TRACKS - 1

DiskInit == Init /\ lastSector = 0 /\ bufferInit = 0 /\ arrived = 0

Diff(a, b) == IF a > b THEN a - b ELSE b - a

(* Disk::TimeToSeek, and the `rotation` that it also gives: until the next *)
(* boundary of a sector.                                                   *)
TimeToSeek(newSector) ==
  Diff(newSector \div SECTORS_PER_TRACK, lastSector \div SECTORS_PER_TRACK) * SEEK_TIME

Rotation(newSector) ==
  LET over == (totalTicks + TimeToSeek(newSector)) % ROTATION_TIME
  IN  IF over > 0 THEN ROTATION_TIME - over ELSE 0

ModuloDiff(to, from) ==
  ((to % SECTORS_PER_TRACK) - (from % SECTORS_PER_TRACK) + SECTORS_PER_TRACK) % SECTORS_PER_TRACK

TimeAfter(newSector) == totalTicks + TimeToSeek(newSector) + Rotation(newSector)

(* The test of ComputeLatency: the sector has been read into the buffer. *)
InTrackBuffer(newSector, writing) ==
  /\ ~writing
  /\ TimeToSeek(newSector) = 0
  /\ (TimeAfter(newSector) - bufferInit) \div ROTATION_TIME
       > ModuloDiff(newSector, bufferInit \div ROTATION_TIME)

ComputeLatency(newSector, writing) ==
  IF InTrackBuffer(newSector, writing) THEN ROTATION_TIME
  ELSE TimeToSeek(newSector) + Rotation(newSector)
         + ModuloDiff(newSector, TimeAfter(newSector) \div ROTATION_TIME) * ROTATION_TIME
         + ROTATION_TIME

(* Mutant: the buffer is not discarded by a seek. *)
UpdateLast_Keep(newSector) ==
  /\ UNCHANGED bufferInit
  /\ arrived' = IF TimeToSeek(newSector) # 0 THEN totalTicks + TimeToSeek(newSector) ELSE arrived
  /\ lastSector' = newSector

UpdateLast(newSector) ==
  /\ bufferInit' = IF TimeToSeek(newSector) # 0 THEN TimeAfter(newSector) ELSE bufferInit
  /\ arrived' = IF TimeToSeek(newSector) # 0 THEN totalTicks + TimeToSeek(newSector) ELSE arrived
  /\ lastSector' = newSector

(* Disk::ReadRequest and WriteRequest. *)
DiskRequest(newSector, writing) ==
  /\ Request(DiskDevice, ComputeLatency(newSector, writing))
  /\ UpdateLast(newSector)

DiskNext ==
  \/ Next /\ UNCHANGED diskVars
  \/ \E s \in Sectors, w \in BOOLEAN : DiskRequest(s, w)

DiskSpec ==
  DiskInit /\ [][DiskNext]_<<vars, diskVars>>
    /\ WF_vars((CheckIfDue \/ EndTick \/ EndIdle) /\ UNCHANGED diskVars)

-----------------------------------------------------------------------------

(* The physical disk: a sector begins to pass under the head of its track  *)
(* at time t.                                                              *)
Passes(sector, t) ==
  /\ t % ROTATION_TIME = 0
  /\ (t \div ROTATION_TIME) % SECTORS_PER_TRACK = sector % SECTORS_PER_TRACK

(* Whatever is asked of the disk and when, the time ComputeLatency gives   *)
(* is that of a rotating disk: until the sector has passed for the first   *)
(* time after the seek, or, for a read "satisfied more quickly" (disk.cc)  *)
(* from the track buffer, a transfer of a sector that has passed whole     *)
(* since the head came to the track.                                       *)
LatenciesArePhysical ==
  ~Has(pending, DiskDevice) =>
    \A sector \in Sectors, writing \in BOOLEAN :
      LET reached == totalTicks + TimeToSeek(sector)
          due == totalTicks + ComputeLatency(sector, writing)
          passes == {t \in reached .. reached + (SECTORS_PER_TRACK + 1) * ROTATION_TIME :
                       Passes(sector, t)}
      IN  IF InTrackBuffer(sector, writing)
          THEN \E t \in arrived .. due - ROTATION_TIME : Passes(sector, t)
          ELSE due = Min(passes) + ROTATION_TIME
=============================================================================
