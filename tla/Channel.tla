------------------------------- MODULE Channel -------------------------------
(***************************************************************************)
(* threads/channel.cc: messages between threads through a mailbox, a lock  *)
(* `Acceso` and two conditions, on which senders wait for their message to *)
(* be received and receivers wait for a message.                           *)
(*                                                                         *)
(* The lock and the conditions are those of module Monitor, which module   *)
(* MonitorClients shows lock.cc and condition.cc to implement.  The        *)
(* mailbox is only touched under the lock, so what a thread does between   *)
(* two operations of the monitor is one step.  The code's messages are     *)
(* ints; here they carry the sender too, which only properties look at.    *)
(***************************************************************************)
EXTENDS Naturals, Sequences, FiniteSets, Functions

CONSTANTS
  Users,         \* the threads that share the channel
  Senders,       \* the threads that call Send
  Receivers,     \* the threads that call Receive
  Messages,      \* the ints they send
  Acceso, BloqueanteSend, BloqueanteReceive,
  Null           \* the null pointer

(* The channel's two conditions are two objects, and no thread or lock is  *)
(* the null pointer.                                                       *)
ChannelConstants ==
  /\ Senders \subseteq Users /\ Receivers \subseteq Users
  /\ IsFiniteSet(Users)
  /\ BloqueanteSend # BloqueanteReceive
  /\ Null \notin Users /\ Null # Acceso

ASSUME ChannelAssumption == ChannelConstants

VARIABLES
  holder, waiting, sleeping,  \* the lock and the conditions (module Monitor)
  buzon,         \* the mailbox
  pc,            \* pc[t]: the operation t is in and how far it is
  mensaje,       \* mensaje[t]: the argument of the Send t is in
  b              \* b[t]: the local `b` of Send

MailConditions == {BloqueanteSend, BloqueanteReceive}

Mon == INSTANCE Monitor
         WITH Threads <- Users, None <- Null,
              Locks <- {Acceso}, Conditions <- MailConditions,
              LockOf <- [c \in MailConditions |-> Acceso]

monVars == <<holder, waiting, sleeping>>
channelVars == <<monVars, buzon, pc, mensaje, b>>

ChannelInit ==
  /\ Mon!Init
  /\ buzon = <<>>
  /\ pc = [t \in Users |-> "idle"]
  /\ mensaje = [t \in Users |-> Null]
  /\ b = [t \in Users |-> Null]

-----------------------------------------------------------------------------

AcquireAcceso(t) == Mon!Take(t, Acceso) \/ Mon!Block(t, Acceso)

(* Condition::Signal. *)
SignalMail(t, c) ==
  IF sleeping[c] = <<>> THEN UNCHANGED monVars ELSE Mon!Signal(t, c)

(* The thread is at `at` and runs inside the critical section. *)
InSection(t, at) ==
  /\ pc[t] = at
  /\ holder[Acceso] = t

(* A thread in Acquire, or awakened in Wait, gets the lock. *)
Grant(t) ==
  /\ Mon!Grant(t, Acceso)
  /\ UNCHANGED <<buzon, pc, mensaje, b>>

(* Channel::Send is called. *)
Send(t, m) ==
  /\ pc[t] = "idle"
  /\ AcquireAcceso(t)
  /\ pc' = [pc EXCEPT ![t] = "send"]
  /\ mensaje' = [mensaje EXCEPT ![t] = m]
  /\ UNCHANGED <<buzon, b>>

(* Mutant: Send awakens no receiver. *)
SendPut_NoSignal(t) ==
  /\ InSection(t, "send")
  /\ buzon' = Append(buzon, [msg |-> mensaje[t], from |-> t])
  /\ b' = [b EXCEPT ![t] = Head(buzon').msg]
  /\ pc' = [pc EXCEPT ![t] = "sent"]
  /\ UNCHANGED <<monVars, mensaje>>

(* Send puts the message, awakens a receiver and notes the oldest message. *)
SendPut(t) ==
  /\ InSection(t, "send")
  /\ buzon' = Append(buzon, [msg |-> mensaje[t], from |-> t])
  /\ SignalMail(t, BloqueanteReceive)
  /\ b' = [b EXCEPT ![t] = Head(buzon').msg]
  /\ pc' = [pc EXCEPT ![t] = "sent"]
  /\ UNCHANGED mensaje

(* The condition of Send's loop. *)
HeadIsNoted(t) == buzon # <<>> /\ Head(buzon).msg = b[t]

SendWait(t) ==
  /\ InSection(t, "sent")
  /\ HeadIsNoted(t)
  /\ Mon!Wait(t, BloqueanteSend)
  /\ UNCHANGED <<buzon, pc, mensaje, b>>

(* Mutant: Send may return while its loop condition holds. *)
SendReturn_Early(t) ==
  /\ InSection(t, "sent")
  /\ Mon!Release(t, Acceso)
  /\ pc' = [pc EXCEPT ![t] = "idle"]
  /\ mensaje' = [mensaje EXCEPT ![t] = Null]
  /\ b' = [b EXCEPT ![t] = Null]
  /\ UNCHANGED buzon

SendReturn(t) ==
  /\ InSection(t, "sent")
  /\ ~HeadIsNoted(t)
  /\ Mon!Release(t, Acceso)
  /\ pc' = [pc EXCEPT ![t] = "idle"]
  /\ mensaje' = [mensaje EXCEPT ![t] = Null]
  /\ b' = [b EXCEPT ![t] = Null]
  /\ UNCHANGED buzon

(* Channel::Receive is called. *)
Receive(t) ==
  /\ pc[t] = "idle"
  /\ AcquireAcceso(t)
  /\ pc' = [pc EXCEPT ![t] = "receive"]
  /\ UNCHANGED <<buzon, mensaje, b>>

ReceiveWait(t) ==
  /\ InSection(t, "receive")
  /\ buzon = <<>>
  /\ Mon!Wait(t, BloqueanteReceive)
  /\ UNCHANGED <<buzon, pc, mensaje, b>>

(* Receive takes the oldest message and awakens a sender. *)
ReceivePop(t) ==
  /\ InSection(t, "receive")
  /\ buzon # <<>>
  /\ buzon' = Tail(buzon)
  /\ SignalMail(t, BloqueanteSend)
  /\ pc' = [pc EXCEPT ![t] = "received"]
  /\ UNCHANGED <<mensaje, b>>

ReceiveReturn(t) ==
  /\ InSection(t, "received")
  /\ Mon!Release(t, Acceso)
  /\ pc' = [pc EXCEPT ![t] = "idle"]
  /\ UNCHANGED <<buzon, mensaje, b>>

ChannelNext ==
  \/ \E t \in Senders, m \in Messages : Send(t, m)
  \/ \E t \in Senders : SendPut(t) \/ SendWait(t) \/ SendReturn(t)
  \/ \E t \in Receivers :
       Receive(t) \/ ReceiveWait(t) \/ ReceivePop(t) \/ ReceiveReturn(t)
  \/ \E t \in Users : Grant(t)

(* A thread that is not waiting for the lock nor asleep goes on, and a     *)
(* free lock is granted (module Monitor).  Calls are never obliged.        *)
ChannelFairness ==
  /\ WF_channelVars(\E t \in Users : Grant(t))
  /\ \A t \in Senders : WF_channelVars(SendPut(t) \/ SendWait(t) \/ SendReturn(t))
  /\ \A t \in Receivers :
       WF_channelVars(ReceiveWait(t) \/ ReceivePop(t) \/ ReceiveReturn(t))

ChannelSafety == ChannelInit /\ [][ChannelNext]_channelVars

ChannelSpec == ChannelSafety /\ ChannelFairness

-----------------------------------------------------------------------------

Asleep(t, c) == t \in Range(sleeping[c])

(* The message of the Send t is in has not been received. *)
InMailbox(t) == \E i \in DOMAIN buzon : buzon[i].from = t

TypeOK ==
  /\ holder \in [{Acceso} -> Users \cup {Null}]
  /\ waiting \in [Users -> {Acceso, Null}]
  /\ sleeping \in [MailConditions -> Seq(Users)]
  /\ buzon \in Seq([msg : Messages, from : Senders])
  /\ pc \in [Users -> {"idle", "send", "sent", "receive", "received"}]
  /\ mensaje \in [Users -> Messages \cup {Null}]
  /\ b \in [Users -> Messages \cup {Null}]

(* Send returns only after a Receive has taken its own message, though it  *)
(* never looks for it: it compares the head with what the head was when it *)
(* was called, perhaps the message of another sender.                      *)
SendReturnsAfterReceipt ==
  \A t \in Senders : InMailbox(t) => pc[t] = "sent"

(* A message is not left in the mailbox while threads sleep in Receive:    *)
(* each message has an awake receiver on its way, even if a receiver that  *)
(* came later takes the message an earlier one was awakened for.           *)
MessagesHaveReceivers ==
  sleeping[BloqueanteReceive] # <<>> =>
    Len(buzon) <= Cardinality({t \in Receivers :
                    pc[t] = "receive" /\ ~Asleep(t, BloqueanteReceive)})
=============================================================================
