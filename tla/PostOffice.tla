------------------------------ MODULE PostOffice -----------------------------
(***************************************************************************)
(* network/post.cc over machine/network.cc: the way of a message from the  *)
(* threads that send on one machine to the mailboxes of another.  Sending  *)
(* follows module Driver, with a network that may lose the packet.  On the *)
(* other side the network polls its socket into a buffer of one packet,    *)
(* an interrupt awakens the postal worker, and the worker puts the message *)
(* into a mailbox, a list of module SynchList, where readers wait for it.  *)
(***************************************************************************)
EXTENDS Driver, Sequences, Functions

CONSTANTS
  Boxes,         \* the mailboxes of the receiving machine
  Readers,       \* the threads of that machine that receive messages
  ReadBox,       \* the mailbox they read
  PostalWorker,  \* the thread that fills the mailboxes
  MaxSent        \* bound: messages sent

ASSUME PostOfficeConstants ==
  /\ ReadBox \in Boxes
  /\ PostalWorker \notin Readers

VARIABLES
  mail,          \* mail[t]: the message t is sending
  wire,          \* the socket of the receiving machine
  inbox,         \* the packet buffer of its network, None when empty
  available,     \* the semaphore messageAvailable
  worker,        \* the postal worker: "wait", "awake", "put" or "putting"
  buffer,        \* the message it puts into its mailbox
  boxHolder, boxWaiting, boxSleeping,
  boxes,         \* boxes[b]: the messages in mailbox b
  boxPc, boxOn, boxItem,      \* the other variables of module SynchList
  received,      \* received[b]: the messages read from it (history)
  posted,        \* the packets the socket was given, in order (history)
  sent           \* the number of messages sent so far

hereVars == <<mail, sent>>
netVars == <<wire, inbox, available, posted>>
listVars == <<boxHolder, boxWaiting, boxSleeping, boxes, boxPc, boxOn, boxItem>>
boxVars == <<worker, buffer, listVars, received>>
allVars == <<vars, hereVars, netVars, boxVars>>

Messages == [to : Boxes, id : 0 .. MaxSent - 1]

Box == INSTANCE SynchList
         WITH Threads <- Readers \cup {PostalWorker}, Items <- Messages,
              Lists <- Boxes, MaxLength <- MaxSent,
              holder <- boxHolder, waiting <- boxWaiting, sleeping <- boxSleeping,
              list <- boxes, pc <- boxPc, on <- boxOn, item <- boxItem

PostInit ==
  /\ Init
  /\ mail = [t \in Threads |-> None]
  /\ sent = 0
  /\ wire = <<>>
  /\ inbox = None
  /\ available = 0
  /\ posted = <<>>
  /\ worker = "wait"
  /\ buffer = None
  /\ Box!Init
  /\ received = [b \in Boxes |-> <<>>]

-----------------------------------------------------------------------------

(* PostOffice::Send is called. *)
Send(t, to) ==
  /\ sent < MaxSent
  /\ Call(t)
  /\ mail' = [mail EXCEPT ![t] = [to |-> to, id |-> sent]]
  /\ sent' = sent + 1
  /\ UNCHANGED <<netVars, boxVars>>

(* Network::Send puts the packet into the socket, unless it is lost        *)
(* (`reliability` < 1).  The interrupt comes in both cases.                *)
NetworkSend(t) ==
  /\ Start(t)
  /\ \/ /\ wire' = Append(wire, mail[t])
        /\ posted' = Append(posted, mail[t])
     \/ UNCHANGED <<wire, posted>>
  /\ UNCHANGED <<hereVars, inbox, available, boxVars>>

(* The other steps of Send: Acquire, P and Release. *)
SendSteps(t) ==
  /\ Grant(t) \/ Await(t) \/ Resume(t) \/ Return(t)
  /\ UNCHANGED <<hereVars, netVars, boxVars>>

(* PostOffice::PacketSent: messageSent->V(). *)
PacketSent == Interrupt

(* Network::SendDone. *)
SendDone == PacketSent /\ UNCHANGED <<hereVars, netVars, boxVars>>

(* PostOffice::IncomingPacket: messageAvailable->V(). *)
IncomingPacket == available' = available + 1

(* Mutant: the poll does not look whether a packet is buffered. *)
CheckPktAvail_NoTest ==
  /\ wire # <<>>
  /\ inbox' = Head(wire)
  /\ wire' = Tail(wire)
  /\ IncomingPacket
  /\ UNCHANGED <<vars, hereVars, posted, boxVars>>

(* Mutant: the worker is not told of the packet. *)
CheckPktAvail_NoV ==
  /\ inbox = None /\ wire # <<>>
  /\ inbox' = Head(wire)
  /\ wire' = Tail(wire)
  /\ UNCHANGED <<vars, hereVars, available, posted, boxVars>>

(* Network::CheckPktAvail. *)
CheckPktAvail ==
  /\ inbox = None /\ wire # <<>>
  /\ inbox' = Head(wire)
  /\ wire' = Tail(wire)
  /\ IncomingPacket
  /\ UNCHANGED <<vars, hereVars, posted, boxVars>>

(* PostOffice::PostalDelivery: messageAvailable->P(), *)
WorkerP ==
  /\ worker = "wait"
  /\ available > 0
  /\ available' = available - 1
  /\ worker' = "awake"
  /\ UNCHANGED <<vars, hereVars, wire, inbox, posted, buffer, listVars, received>>

(* Network::Receive, *)
WorkerReceive ==
  /\ worker = "awake"
  /\ buffer' = inbox
  /\ inbox' = None
  /\ worker' = "put"
  /\ UNCHANGED <<vars, hereVars, wire, available, posted, listVars, received>>

(* and MailBox::Put, which calls Append. *)
Put ==
  /\ worker = "put"
  /\ Box!CallAppend(PostalWorker, buffer.to, buffer)
  /\ worker' = "putting"
  /\ UNCHANGED <<vars, hereVars, netVars, buffer, received>>

PutReturn ==
  /\ worker = "putting"
  /\ Box!AppendReturn(PostalWorker, buffer.to)
  /\ buffer' = None
  /\ worker' = "wait"
  /\ UNCHANGED <<vars, hereVars, netVars, received>>

(* PostOffice::Receive and MailBox::Get, which calls Pop. *)
Receive(t) ==
  /\ Box!CallPop(t, ReadBox)
  /\ UNCHANGED <<vars, hereVars, netVars, worker, buffer, received>>

Get(t, b) ==
  /\ Box!DoPop(t, b)
  /\ received' = [received EXCEPT ![b] = Append(@, Head(boxes[b]))]
  /\ UNCHANGED <<vars, hereVars, netVars, worker, buffer>>

(* The other steps of Append and Pop. *)
BoxSteps(t, b) ==
  /\ Box!DoAppend(t, b) \/ Box!PopWait(t, b) \/ Box!PopReturn(t, b)
  /\ UNCHANGED <<vars, hereVars, netVars, worker, buffer, received>>

BoxGrant(t, b) ==
  /\ Box!Grant(t, b)
  /\ UNCHANGED <<vars, hereVars, netVars, worker, buffer, received>>

WorkerSteps ==
  \/ WorkerP \/ WorkerReceive \/ Put \/ PutReturn
  \/ \E b \in Boxes : BoxSteps(PostalWorker, b)

Next ==
  \/ \E t \in Threads : (\E b \in Boxes : Send(t, b)) \/ NetworkSend(t) \/ SendSteps(t)
  \/ SendDone
  \/ CheckPktAvail
  \/ WorkerSteps
  \/ \E r \in Readers : Receive(r) \/ \E b \in Boxes : Get(r, b) \/ BoxSteps(r, b)
  \/ \E t \in Readers \cup {PostalWorker}, b \in Boxes : BoxGrant(t, b)

(* Threads that can go on do, the polls and interrupts keep coming, and    *)
(* readers read again.                                                     *)
Fairness ==
  /\ WF_allVars(\E t \in Threads : Grant(t) /\ SendSteps(t))
  /\ \A t \in Threads : WF_allVars(NetworkSend(t) \/ SendSteps(t))
  /\ WF_allVars(SendDone)
  /\ WF_allVars(CheckPktAvail)
  /\ WF_allVars(WorkerSteps)
  /\ \A r \in Readers :
       WF_allVars(Receive(r) \/ \E b \in Boxes : Get(r, b) \/ BoxSteps(r, b))
  /\ \A b \in Boxes :
       WF_allVars(\E t \in Readers \cup {PostalWorker} : BoxGrant(t, b))

Spec == PostInit /\ [][Next]_allVars /\ Fairness

-----------------------------------------------------------------------------

For(b, s) == SelectSeq(s, LAMBDA m : m.to = b)

One(m) == IF m = None THEN <<>> ELSE <<m>>

(* The message the worker has received and not yet put into its mailbox. *)
InHand ==
  IF worker = "put" \/ boxPc[PostalWorker] = "append" THEN <<buffer>> ELSE <<>>

(* Every packet given to the socket is on its way exactly once, in order:  *)
(* the packet buffer is not overwritten before the worker has emptied it,  *)
(* and the worker never finds it empty.                                    *)
MailIsKept ==
  /\ worker = "awake" => inbox # None
  /\ \A b \in Boxes :
       For(b, posted) = received[b] \o boxes[b]
                          \o For(b, InHand \o One(inbox) \o wire)

(* A packet the network did not lose gets to a reader, if its mailbox has  *)
(* some: no step on the way waits for another that waits for it, and        *)
(* messages to a mailbox nobody reads do not hold up the others.           *)
MailGetsThrough ==
  \A n \in 0 .. MaxSent - 1 :
    LET m == [to |-> ReadBox, id |-> n]
    IN  (m \in Range(posted)) ~> (m \in Range(received[m.to]))
=============================================================================
