----------------------------- MODULE SectorStore -----------------------------
(***************************************************************************)
(* What SynchDisk promises (filesys/synch_disk.hh): each read or write of  *)
(* a sector takes effect at once at some moment of the call, and the call  *)
(* returns after it.                                                       *)
(***************************************************************************)
CONSTANTS Threads, Sectors, Data, None

VARIABLES
  sectors,       \* what each sector holds
  request,       \* request[t]: what t has asked for, or None
  reply          \* reply[t]: what t's request returns, None before

vars == <<sectors, request, reply>>

Requests == [op : {"read"}, sector : Sectors]
              \cup [op : {"write"}, sector : Sectors, data : Data]

Init ==
  /\ sectors \in [Sectors -> Data]
  /\ request = [t \in Threads |-> None]
  /\ reply = [t \in Threads |-> None]

Ask(t, r) ==
  /\ request[t] = None
  /\ request' = [request EXCEPT ![t] = r]
  /\ UNCHANGED <<sectors, reply>>

Perform(t) ==
  /\ request[t] # None
  /\ reply[t] = None
  /\ LET r == request[t]
     IN  IF r.op = "read"
         THEN /\ reply' = [reply EXCEPT ![t] = sectors[r.sector]]
              /\ UNCHANGED sectors
         ELSE /\ sectors' = [sectors EXCEPT ![r.sector] = r.data]
              /\ reply' = [reply EXCEPT ![t] = r.data]
  /\ UNCHANGED request

Return(t) ==
  /\ reply[t] # None
  /\ request' = [request EXCEPT ![t] = None]
  /\ reply' = [reply EXCEPT ![t] = None]
  /\ UNCHANGED sectors

Next ==
  \E t \in Threads : (\E r \in Requests : Ask(t, r)) \/ Perform(t) \/ Return(t)

(* Some request is performed, and one that was performed returns. *)
Fairness ==
  /\ WF_vars(\E t \in Threads : Perform(t))
  /\ \A t \in Threads : WF_vars(Return(t))

Safety == Init /\ [][Next]_vars

Spec == Safety /\ Fairness
=============================================================================
