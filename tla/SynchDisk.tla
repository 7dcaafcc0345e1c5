------------------------------ MODULE SynchDisk ------------------------------
(***************************************************************************)
(* filesys/synch_disk.cc over machine/disk.cc: threads read and write      *)
(* sectors, one at a time.  The disk transfers the data when it is asked   *)
(* and interrupts later; how much later is the subject of module Disk.     *)
(***************************************************************************)
EXTENDS Driver

CONSTANTS Sectors, Data

VARIABLES
  sectors,       \* the UNIX file that holds the disk
  request,       \* request[t]: the arguments of the call t is in
  reply          \* reply[t]: the data, once they are transferred

diskVars == <<sectors, request, reply>>
synchDiskVars == <<vars, diskVars>>

Requests == [op : {"read"}, sector : Sectors]
              \cup [op : {"write"}, sector : Sectors, data : Data]

ASSUME DiskConstants == None \notin Data \cup Requests

DiskInit ==
  /\ Init
  /\ sectors \in [Sectors -> Data]
  /\ request = [t \in Threads |-> None]
  /\ reply = [t \in Threads |-> None]

(* ReadSector or WriteSector is called. *)
CallSector(t, r) ==
  /\ Call(t)
  /\ request' = [request EXCEPT ![t] = r]
  /\ UNCHANGED <<sectors, reply>>

(* Disk::ReadRequest. *)
ReadRequest(t) ==
  /\ Start(t)
  /\ request[t].op = "read"
  /\ reply' = [reply EXCEPT ![t] = sectors[request[t].sector]]
  /\ UNCHANGED <<sectors, request>>

(* Disk::WriteRequest. *)
WriteRequest(t) ==
  /\ Start(t)
  /\ request[t].op = "write"
  /\ sectors' = [sectors EXCEPT ![request[t].sector] = request[t].data]
  /\ reply' = [reply EXCEPT ![t] = request[t].data]
  /\ UNCHANGED request

(* Mutant: the lock is freed without waiting for the interrupt. *)
AwaitDone_Skipped(t) ==
  /\ At(t, "started")
  /\ Goto(t, "done")
  /\ UNCHANGED <<lockVars, semVars, active, diskVars>>

AwaitDone(t) == (Await(t) \/ Resume(t)) /\ UNCHANGED diskVars

AcquireDisk(t) == Grant(t) /\ UNCHANGED diskVars

ReturnSector(t) ==
  /\ Return(t)
  /\ request' = [request EXCEPT ![t] = None]
  /\ reply' = [reply EXCEPT ![t] = None]
  /\ UNCHANGED sectors

(* Mutant: the handler does not call V. *)
HandleInterrupt_NoV ==
  /\ active
  /\ active' = FALSE
  /\ UNCHANGED <<lockVars, semVars, pc, diskVars>>

(* Disk::HandleInterrupt and SynchDisk::RequestDone. *)
HandleInterrupt == Interrupt /\ UNCHANGED diskVars

DiskNext ==
  \/ \E t \in Threads :
       \/ \E r \in Requests : CallSector(t, r)
       \/ AcquireDisk(t) \/ ReadRequest(t) \/ WriteRequest(t)
       \/ AwaitDone(t) \/ ReturnSector(t)
  \/ HandleInterrupt

(* Threads that can go on do, and the disk answers. *)
DiskFairness ==
  /\ WF_synchDiskVars(\E t \in Threads : AcquireDisk(t))
  /\ WF_synchDiskVars(HandleInterrupt)
  /\ \A t \in Threads :
       WF_synchDiskVars(ReadRequest(t) \/ WriteRequest(t) \/ AwaitDone(t)
                          \/ ReturnSector(t))

DiskSpec == DiskInit /\ [][DiskNext]_synchDiskVars /\ DiskFairness

-----------------------------------------------------------------------------

(* The disk gets one request at a time: the assertions on `active` in      *)
(* disk.cc hold, for every thread about to make a request.                 *)
RequestsFindDiskIdle == \A t \in Threads : At(t, "acquired") => ~active

Store == INSTANCE SectorStore

(* Calls behave as if each took effect at once, and some call always gets  *)
(* through.                                                                *)
ImplementsSectorStore == Store!Spec
=============================================================================
