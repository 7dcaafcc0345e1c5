------------------------------- MODULE MCSynch -------------------------------
(***************************************************************************)
(* The synchronisation primitives of threads/, on small instances.  In a   *)
(* behaviour the threads share one of:                                     *)
(*   - two semaphores, of initial values 0 and 1, up to two units each,    *)
(*     which three threads and an interrupt handler use;                   *)
(*   - a lock with the two conditions a channel binds to it and a lock     *)
(*     that is taken inside it, used by three threads of priorities 0, 1   *)
(*     and 2;                                                              *)
(*   - a channel, with two senders and three receivers among four threads. *)
(***************************************************************************)
EXTENDS MonitorClients, Channel, TLC

CONSTANTS t1, t2, t3, t4, acceso, interno, send, receive, d1, d2, d3, s0, s1

MCThreads == {t1, t2, t3}
MCLocks == {acceso, interno}
MCConditions == {send, receive}
MCPlain == {s0, s1}
MCSemaphores == MCLocks \cup {d1, d2, d3} \cup MCPlain
MCInitialValue == [s \in MCSemaphores |-> IF s \in MCLocks \cup {s1} THEN 1 ELSE 0]
MCPriority == (t1 :> 0) @@ (t2 :> 1) @@ (t3 :> 2)
MCRank == (acceso :> 0) @@ (interno :> 1)
MCLockOf == [c \in MCConditions |-> acceso]
MCaDormir == (t1 :> d1) @@ (t2 :> d2) @@ (t3 :> d3)

MCUsers == {t1, t2, t3, t4}
MCSenders == {t1, t2}
MCReceivers == {t2, t3, t4}

VARIABLE shared  \* what the threads share

SynchInit ==
  /\ shared \in {"semaphores", "monitor", "channel"}
  /\ CondInit
  /\ ChannelInit

SemaphoreSteps ==
  /\ shared = "semaphores"
  /\ \E s \in MCPlain :
       \/ \E t \in Threads : P(t, s) \/ ResumeP(t, s)
       \/ V(s)
  /\ UNCHANGED <<lockVars, condVars, channelVars, shared>>

MonitorSteps == shared = "monitor" /\ Next /\ UNCHANGED <<channelVars, shared>>

ChannelSteps == shared = "channel" /\ ChannelNext /\ UNCHANGED <<vars, shared>>

SynchSpec ==
  /\ SynchInit
  /\ [][SemaphoreSteps \/ MonitorSteps \/ ChannelSteps]_<<vars, channelVars, shared>>
  /\ Fairness
  /\ SemFairness

Mesa == INSTANCE Monitor
          WITH holder <- [l \in Locks |-> HolderOf(l)],
               waiting <- [t \in Threads |-> WaitsForLock(t)],
               sleeping <- [c \in Conditions |->
                              [i \in DOMAIN colaProcesosDormidos[c] |->
                                 ThreadOf(colaProcesosDormidos[c][i])]]

(* Wait, Signal and Broadcast implement Mesa condition variables: though   *)
(* Wait is four steps, releasing the lock and going to sleep is one, no    *)
(* Signal is lost or wakes two threads, and an awakened thread gets the    *)
(* lock when nobody has it.                                                *)
ImplementsMonitor == Mesa!Spec
=============================================================================
