---------------------------- MODULE ChannelProofs ----------------------------
(***************************************************************************)
(* threads/channel.cc, for any threads and messages: Send returns only     *)
(* after its message was taken, and no message waits for ever while        *)
(* receivers sleep.  Both follow from the order in which senders sleep and *)
(* from what modules Monitor and MonitorProofs say of the lock and the     *)
(* conditions.                                                             *)
(***************************************************************************)
EXTENDS Channel, QueueLemmas

Running(t) ==
  /\ waiting[t] = Null
  /\ ~Asleep(t, BloqueanteSend) /\ ~Asleep(t, BloqueanteReceive)

(* Who has the lock neither waits nor sleeps. *)
HolderRuns == \A t \in Users : holder[Acceso] = t => Running(t)

(* Who sleeps for a message is in Receive. *)
ReceiversSleep ==
  \A t \in Range(sleeping[BloqueanteReceive]) : t \in Receivers /\ pc[t] = "receive"

(* As in MonitorProofs: a thread sleeps on one condition, once, and does   *)
(* not wait for the lock while it sleeps.                                  *)
SleepersOnlySleep ==
  /\ \A c \in MailConditions : IsInjective(sleeping[c])
  /\ \A c \in MailConditions : \A t \in Range(sleeping[c]) : waiting[t] = Null
  /\ \A c, d \in MailConditions :
       c # d => Range(sleeping[c]) \cap Range(sleeping[d]) = {}

SendsHaveMessages == \A t \in Users : pc[t] = "send" => mensaje[t] \in Messages

(* The owner of a message waits for it: asleep, or, if the message is the  *)
(* newest, about to find that the head is the one it noted.                *)
OwnersWait ==
  \A i \in DOMAIN buzon :
    /\ pc[buzon[i].from] = "sent"
    /\ \/ Asleep(buzon[i].from, BloqueanteSend)
       \/ /\ i = Len(buzon)
          /\ holder[Acceso] = buzon[i].from
          /\ HeadIsNoted(buzon[i].from)

(* Senders sleep in the order of their messages. *)
SleepInOrder ==
  \A i, j \in DOMAIN buzon : \A p, q \in DOMAIN sleeping[BloqueanteSend] :
    /\ i < j
    /\ sleeping[BloqueanteSend][p] = buzon[i].from
    /\ sleeping[BloqueanteSend][q] = buzon[j].from
    => p < q

MailInv ==
  /\ TypeOK /\ SendsHaveMessages
  /\ SleepersOnlySleep /\ HolderRuns /\ ReceiversSleep
  /\ OwnersWait /\ SleepInOrder

-----------------------------------------------------------------------------

(* What thread t does. *)
Step(t) ==
  \/ /\ t \in Senders
     /\ \/ \E m \in Messages : Send(t, m)
        \/ SendPut(t) \/ SendWait(t) \/ SendReturn(t)
  \/ /\ t \in Receivers
     /\ Receive(t) \/ ReceiveWait(t) \/ ReceivePop(t) \/ ReceiveReturn(t)
  \/ Grant(t)

LEMMA StepsOfNext == ASSUME ChannelConstants, ChannelNext PROVE \E t \in Users : Step(t)
BY DEF ChannelConstants, ChannelNext, Step

(* A step of a thread in the channel is a step of that thread in the       *)
(* monitor, or leaves the monitor alone.                                   *)
LEMMA MonitorStepOf ==
  ASSUME NEW t \in Users, Step(t)
  PROVE  \/ Mon!Take(t, Acceso) \/ Mon!Block(t, Acceso)
         \/ Mon!Grant(t, Acceso) \/ Mon!Release(t, Acceso)
         \/ \E c \in MailConditions : Mon!Wait(t, c) \/ Mon!Signal(t, c)
         \/ UNCHANGED monVars
<1>1. BloqueanteSend \in MailConditions /\ BloqueanteReceive \in MailConditions
  BY DEF MailConditions
<1>. QED BY <1>1 DEF Step, Send, SendPut, SendWait, SendReturn, Receive, ReceiveWait,
           ReceivePop, ReceiveReturn, Grant, AcquireAcceso, SignalMail

-----------------------------------------------------------------------------

(* The operations, for the one lock and the two conditions there are. *)
LEMMA ActiveRuns == ASSUME NEW t PROVE Mon!Active(t) <=> Running(t)
BY DEF Mon!Active, Running, Asleep, MailConditions, Range, Mon!Range

LEMMA AcquireEffect ==
  ASSUME TypeOK, NEW t \in Users, AcquireAcceso(t)
  PROVE  /\ Running(t) /\ sleeping' = sleeping
         /\ \/ holder[Acceso] = Null /\ holder'[Acceso] = t /\ waiting' = waiting
            \/ /\ holder' = holder /\ holder[Acceso] # t
               /\ waiting' = [waiting EXCEPT ![t] = Acceso]
BY ActiveRuns DEF TypeOK, AcquireAcceso, Mon!Take, Mon!Block

LEMMA GrantEffect ==
  ASSUME TypeOK, NEW t \in Users, Mon!Grant(t, Acceso)
  PROVE  /\ waiting[t] = Acceso /\ holder[Acceso] = Null /\ holder'[Acceso] = t
         /\ waiting' = [waiting EXCEPT ![t] = Null] /\ sleeping' = sleeping
BY DEF TypeOK, Mon!Grant

LEMMA ReleaseEffect ==
  ASSUME TypeOK, NEW t \in Users, Mon!Release(t, Acceso)
  PROVE  /\ Running(t) /\ holder[Acceso] = t /\ holder'[Acceso] = Null
         /\ waiting' = waiting /\ sleeping' = sleeping
BY ActiveRuns DEF TypeOK, Mon!Release

LEMMA WaitEffect ==
  ASSUME TypeOK, NEW t \in Users, NEW c \in MailConditions, Mon!Wait(t, c)
  PROVE  /\ Running(t) /\ holder[Acceso] = t /\ holder'[Acceso] = Null
         /\ waiting' = waiting
         /\ sleeping' = [sleeping EXCEPT ![c] = Append(sleeping[c], t)]
BY ActiveRuns DEF TypeOK, Mon!Wait

(* A Signal awakens the thread that has slept longest, if there is one. *)
LEMMA SignalEffect ==
  ASSUME TypeOK, NEW t \in Users, NEW c \in MailConditions, SignalMail(t, c)
  PROVE  /\ holder' = holder
         /\ \/ sleeping[c] = <<>> /\ waiting' = waiting /\ sleeping' = sleeping
            \/ /\ sleeping[c] # <<>> /\ Running(t)
               /\ waiting' = [waiting EXCEPT ![Head(sleeping[c])] = Acceso]
               /\ sleeping' = [sleeping EXCEPT ![c] = Tail(sleeping[c])]
BY ActiveRuns DEF TypeOK, SignalMail, Mon!Signal, monVars

(* The queues of the two conditions. *)
LEMMA MailQueues ==
  ASSUME TypeOK, SleepersOnlySleep, NEW c \in MailConditions
  PROVE  /\ sleeping[c] \in Seq(Users) /\ IsInjective(sleeping[c])
         /\ \A t \in Range(sleeping[c]) : t \in Users /\ waiting[t] = Null
         /\ sleeping[c] # <<>> =>
              /\ Head(sleeping[c]) \in Range(sleeping[c])
              /\ IsInjective(Tail(sleeping[c]))
              /\ Range(Tail(sleeping[c])) = Range(sleeping[c]) \ {Head(sleeping[c])}
<1>1. sleeping[c] \in Seq(Users)
  BY DEF TypeOK
<1>2. IsInjective(sleeping[c])
  BY DEF SleepersOnlySleep
<1>3. \A t \in Range(sleeping[c]) : t \in Users
  BY <1>1, SeqLen DEF Range
<1>4. \A t \in Range(sleeping[c]) : waiting[t] = Null
  BY DEF SleepersOnlySleep
<1>. QED BY <1>1, <1>2, <1>3, <1>4, TailDistinct

(* The thread that has the lock goes on running: others only block on it,  *)
(* and Signal awakens a thread that slept.                                 *)
LEMMA HolderGoesOn ==
  ASSUME ChannelConstants, TypeOK, SleepersOnlySleep, HolderRuns,
         NEW t \in Users,
         \/ AcquireAcceso(t) \/ Mon!Grant(t, Acceso) \/ Mon!Release(t, Acceso)
         \/ \E c \in MailConditions : Mon!Wait(t, c) \/ SignalMail(t, c)
  PROVE  HolderRuns'
<1> USE DEF HolderRuns, Running, Asleep
<1>1. CASE AcquireAcceso(t)
  BY <1>1, AcquireEffect DEF TypeOK
<1>2. CASE Mon!Grant(t, Acceso)
  <2>1. t \notin Range(sleeping[BloqueanteSend]) /\ t \notin Range(sleeping[BloqueanteReceive])
    BY <1>2, GrantEffect, MailQueues DEF ChannelConstants, MailConditions
  <2>. QED BY <1>2, <2>1, GrantEffect DEF TypeOK
<1>3. CASE Mon!Release(t, Acceso)
  BY <1>3, ReleaseEffect DEF ChannelConstants
<1>4. ASSUME NEW c \in MailConditions, Mon!Wait(t, c) PROVE HolderRuns'
  BY <1>4, WaitEffect DEF ChannelConstants
<1>5. ASSUME NEW c \in MailConditions, SignalMail(t, c) PROVE HolderRuns'
  <2>1. CASE sleeping[c] = <<>>
    BY <1>5, <2>1, SignalEffect
  <2>2. CASE sleeping[c] # <<>>
    <3> DEFINE h == Head(sleeping[c])
    <3>1. /\ h \in Range(sleeping[c])
          /\ Range(Tail(sleeping[c])) \subseteq Range(sleeping[c])
      BY <2>2, MailQueues
    <3>2. /\ holder' = holder
          /\ waiting' = [waiting EXCEPT ![h] = Acceso]
          /\ sleeping' = [sleeping EXCEPT ![c] = Tail(sleeping[c])]
      BY <1>5, <2>2, SignalEffect
    <3>3. \A d \in MailConditions : Range(sleeping'[d]) \subseteq Range(sleeping[d])
      BY <3>1, <3>2 DEF TypeOK
    <3>4. BloqueanteSend \in MailConditions /\ BloqueanteReceive \in MailConditions
      BY DEF MailConditions
    <3> HIDE DEF h
    <3>5. ASSUME NEW u \in Users, holder'[Acceso] = u PROVE Running(u)'
      <4>1. Running(u) /\ u # h
        BY <3>1, <3>2, <3>5 DEF MailConditions
      <4>2. waiting'[u] = waiting[u]
        BY <4>1, <3>2 DEF TypeOK
      <4>. QED BY <4>1, <4>2, <3>3, <3>4
    <3>. QED BY <3>5
  <2>. QED BY <2>1, <2>2
<1>. QED BY <1>1, <1>2, <1>3, <1>4, <1>5

LEMMA HolderPart ==
  ASSUME ChannelConstants, TypeOK, SleepersOnlySleep, HolderRuns,
         NEW t \in Users, Step(t)
  PROVE  HolderRuns'
<1>1. BloqueanteSend \in MailConditions /\ BloqueanteReceive \in MailConditions
  BY DEF MailConditions
<1>. QED BY <1>1, HolderGoesOn DEF Step, Send, SendPut, SendWait, SendReturn,
           Receive, ReceiveWait, ReceivePop, ReceiveReturn, Grant

(* What the mailbox and the calls hold. *)
LEMMA MailTypes ==
  ASSUME ChannelConstants, TypeOK, SendsHaveMessages, NEW t \in Users, Step(t)
  PROVE  /\ buzon' \in Seq([msg : Messages, from : Senders])
         /\ pc' \in [Users -> {"idle", "send", "sent", "receive", "received"}]
         /\ mensaje' \in [Users -> Messages \cup {Null}]
         /\ b' \in [Users -> Messages \cup {Null}]
         /\ SendsHaveMessages'
<1> DEFINE Mail == [msg : Messages, from : Senders]
<1> USE DEF Step, Send, SendPut, SendWait, SendReturn,
            Receive, ReceiveWait, ReceivePop, ReceiveReturn, Grant
<1>1. ASSUME t \in Senders, SendPut(t)
      PROVE  buzon' \in Seq(Mail) /\ Head(buzon').msg \in Messages
  <2>1. [msg |-> mensaje[t], from |-> t] \in Mail
    BY <1>1 DEF SendsHaveMessages, InSection
  <2>2. buzon' \in Seq(Mail) /\ buzon' # <<>>
    BY <1>1, <2>1, SeqAppend DEF TypeOK
  <2>3. Head(buzon') \in Mail
    BY <2>2, SeqTail, Zenon
  <2>. QED BY <2>2, <2>3
<1>2. buzon' \in Seq(Mail)
  <2>1. CASE ReceivePop(t)
    BY <2>1, SeqTail DEF TypeOK
  <2>2. CASE buzon' = buzon
    BY <2>2 DEF TypeOK
  <2>. QED BY <1>1, <2>1, <2>2
<1>3. pc' \in [Users -> {"idle", "send", "sent", "receive", "received"}]
  BY Zenon DEF TypeOK
<1>4. mensaje' \in [Users -> Messages \cup {Null}]
  BY DEF TypeOK
<1>5. b' \in [Users -> Messages \cup {Null}]
  BY <1>1 DEF TypeOK
<1>6. SendsHaveMessages'
  BY DEF TypeOK, SendsHaveMessages, InSection
<1>. QED BY <1>2, <1>3, <1>4, <1>5, <1>6

-----------------------------------------------------------------------------

(* Only the thread that steps changes its place, and it is awake. *)
LEMMA OthersStay ==
  ASSUME TypeOK, HolderRuns, NEW t \in Users, Step(t)
  PROVE  /\ \A u \in Users : u # t => pc'[u] = pc[u] /\ b'[u] = b[u]
         /\ Running(t) \/ (pc' = pc /\ b' = b /\ sleeping' = sleeping)
<1>1. \A u \in Users : u # t => pc'[u] = pc[u] /\ b'[u] = b[u]
  BY DEF TypeOK, Step, Send, SendPut, SendWait, SendReturn,
         Receive, ReceiveWait, ReceivePop, ReceiveReturn, Grant
<1>2. CASE Grant(t)
  BY <1>1, <1>2, GrantEffect DEF Grant
<1>3. CASE AcquireAcceso(t)
  BY <1>1, <1>3, AcquireEffect
<1>4. CASE holder[Acceso] = t
  BY <1>1, <1>4 DEF HolderRuns
<1>5. Grant(t) \/ AcquireAcceso(t) \/ holder[Acceso] = t
  BY DEF Step, Send, SendPut, SendWait, SendReturn,
         Receive, ReceiveWait, ReceivePop, ReceiveReturn, InSection
<1>. QED BY <1>1, <1>2, <1>3, <1>4, <1>5

(* How the queues of sleepers change. *)
LEMMA QueuesChange ==
  ASSUME ChannelConstants, TypeOK, SleepersOnlySleep, HolderRuns,
         NEW t \in Users, Step(t)
  PROVE  LET s == sleeping[BloqueanteSend]
             r == sleeping[BloqueanteReceive]
         IN  /\ \/ sleeping'[BloqueanteSend] = s
                \/ SendWait(t) /\ sleeping'[BloqueanteSend] = Append(s, t)
                \/ ReceivePop(t) /\ s # <<>> /\ sleeping'[BloqueanteSend] = Tail(s)
             /\ \/ sleeping'[BloqueanteReceive] = r
                \/ ReceiveWait(t) /\ sleeping'[BloqueanteReceive] = Append(r, t)
                \/ SendPut(t) /\ r # <<>> /\ sleeping'[BloqueanteReceive] = Tail(r)
<1>1. /\ BloqueanteSend \in MailConditions /\ BloqueanteReceive \in MailConditions
      /\ BloqueanteSend # BloqueanteReceive
  BY DEF MailConditions, ChannelConstants
<1>2. CASE SendPut(t)
  BY <1>1, <1>2, SignalEffect DEF SendPut, TypeOK
<1>3. CASE ReceivePop(t)
  BY <1>1, <1>3, SignalEffect DEF ReceivePop, TypeOK
<1>4. CASE SendWait(t)
  BY <1>1, <1>4, WaitEffect DEF SendWait, TypeOK
<1>5. CASE ReceiveWait(t)
  BY <1>1, <1>5, WaitEffect DEF ReceiveWait, TypeOK
<1>6. CASE sleeping' = sleeping
  BY <1>6
<1>7. \/ SendPut(t) \/ ReceivePop(t) \/ SendWait(t) \/ ReceiveWait(t)
      \/ sleeping' = sleeping
  BY AcquireEffect, ReleaseEffect, GrantEffect
     DEF Step, Send, SendReturn, Receive, ReceiveReturn, Grant
<1>. QED BY <1>2, <1>3, <1>4, <1>5, <1>6, <1>7

LEMMA ReceiversPart ==
  ASSUME ChannelConstants, TypeOK, SleepersOnlySleep, HolderRuns, ReceiversSleep,
         NEW t \in Users, Step(t)
  PROVE  ReceiversSleep'
<1> DEFINE r == sleeping[BloqueanteReceive]
<1>1. BloqueanteReceive \in MailConditions
  BY DEF MailConditions
<1>2. /\ r \in Seq(Users) /\ IsInjective(r)
      /\ \A u \in Range(r) : u \in Users
      /\ r # <<>> => Range(Tail(r)) \subseteq Range(r)
  BY <1>1, MailQueues
<1>3. ASSUME NEW u \in Range(r)
      PROVE  u \in Receivers /\ pc'[u] = "receive"
  <2>1. u \in Receivers /\ pc[u] = "receive" /\ u \in Users
    BY <1>2 DEF ReceiversSleep
  <2>2. u # t \/ pc' = pc
    BY OthersStay DEF Running, Asleep
  <2>. QED BY <2>1, <2>2, OthersStay
<1>4. CASE Range(sleeping'[BloqueanteReceive]) \subseteq Range(r)
  BY <1>3, <1>4 DEF ReceiversSleep
<1>5. CASE ReceiveWait(t) /\ sleeping'[BloqueanteReceive] = Append(r, t)
  <2>1. pc' = pc /\ pc[t] = "receive" /\ ~Asleep(t, BloqueanteReceive)
    BY <1>5 DEF ReceiveWait, InSection, HolderRuns, Running
  <2>2. Range(sleeping'[BloqueanteReceive]) = Range(r) \cup {t}
    BY <1>2, <1>5, <2>1, AppendDistinct DEF Asleep
  <2>3. t \in Receivers
    BY <1>5, GrantEffect DEF ChannelConstants, Step, Send, SendPut, SendWait,
                             SendReturn, Grant, ReceiveWait, InSection
  <2>. QED BY <1>3, <2>1, <2>2, <2>3 DEF ReceiversSleep
<1>. QED BY <1>2, <1>4, <1>5, QueuesChange

-----------------------------------------------------------------------------

(* Messages and their owners. *)
LEMMA MailIndices ==
  ASSUME ChannelConstants, TypeOK
  PROVE  /\ DOMAIN buzon = 1 .. Len(buzon) /\ Len(buzon) \in Nat
         /\ \A i \in DOMAIN buzon : buzon[i].from \in Senders /\ buzon[i].from \in Users
         /\ \A c \in MailConditions :
              DOMAIN sleeping[c] = 1 .. Len(sleeping[c]) /\ Len(sleeping[c]) \in Nat
<1>1. DOMAIN buzon = 1 .. Len(buzon) /\ Len(buzon) \in Nat
  BY SeqLen DEF TypeOK
<1>2. \A i \in DOMAIN buzon : buzon[i] \in [msg : Messages, from : Senders]
  BY <1>1, SeqLen, Zenon DEF TypeOK
<1>3. \A c \in MailConditions :
        DOMAIN sleeping[c] = 1 .. Len(sleeping[c]) /\ Len(sleeping[c]) \in Nat
  BY SeqLen DEF TypeOK
<1>. QED BY <1>1, <1>2, <1>3 DEF ChannelConstants

(* While a thread is in the channel and not past its append, every owner   *)
(* sleeps.                                                                 *)
LEMMA OwnersSleep ==
  ASSUME OwnersWait, NEW t, holder[Acceso] = t, pc[t] # "sent"
  PROVE  \A i \in DOMAIN buzon : Asleep(buzon[i].from, BloqueanteSend)
BY DEF OwnersWait

(* The thread that sleeps longest in Send owns no message but the oldest. *)
LEMMA OldestFirst ==
  ASSUME ChannelConstants, TypeOK, OwnersWait, SleepInOrder,
         NEW t, holder[Acceso] = t, pc[t] # "sent",
         NEW i \in DOMAIN buzon, i # 1
  PROVE  buzon[i].from # Head(sleeping[BloqueanteSend])
<1> DEFINE s == sleeping[BloqueanteSend]
<1>1. BloqueanteSend \in MailConditions
  BY DEF MailConditions
<1>2. 1 \in DOMAIN buzon /\ 1 < i
  BY MailIndices
<1>3. Asleep(buzon[1].from, BloqueanteSend) /\ Asleep(buzon[i].from, BloqueanteSend)
  BY <1>2, OwnersSleep
<1>4. PICK q \in DOMAIN s : s[q] = buzon[1].from
  BY <1>3 DEF Asleep, Range
<1>5. 1 \in DOMAIN s /\ ~(q < 1) /\ s # <<>>
  BY <1>1, <1>4, MailIndices
<1>6. Head(s) = s[1]
  BY <1>1, <1>5, SeqTail DEF TypeOK
<1>. QED BY <1>2, <1>4, <1>5, <1>6 DEF SleepInOrder

LEMMA PutOwners ==
  ASSUME ChannelConstants, TypeOK, HolderRuns, OwnersWait, SleepInOrder,
         NEW t \in Senders, SendPut(t), sleeping'[BloqueanteSend] = sleeping[BloqueanteSend]
  PROVE  OwnersWait' /\ SleepInOrder'
<1> DEFINE n == Len(buzon)
<1>1. /\ t \in Users /\ holder[Acceso] = t /\ pc[t] = "send"
      /\ ~Asleep(t, BloqueanteSend)
  BY DEF ChannelConstants, SendPut, InSection, HolderRuns, Running
<1>2. holder' = holder
  BY <1>1, SignalEffect DEF SendPut, MailConditions
<1>3. /\ n \in Nat /\ DOMAIN buzon = 1 .. n /\ DOMAIN buzon' = 1 .. n + 1
      /\ Len(buzon') = n + 1
      /\ buzon'[n + 1].from = t
      /\ \A i \in 1 .. n : buzon'[i] = buzon[i]
  BY MailIndices, SeqAppend DEF SendPut, TypeOK
<1>4. /\ pc'[t] = "sent" /\ HeadIsNoted(t)'
      /\ \A u \in Users : u # t => pc'[u] = pc[u]
  <2>1. pc'[t] = "sent" /\ \A u \in Users : u # t => pc'[u] = pc[u]
    BY <1>1 DEF SendPut, TypeOK
  <2>2. b'[t] = Head(buzon').msg
    BY <1>1 DEF SendPut, TypeOK
  <2>3. buzon' # <<>>
    BY <1>3
  <2>. QED BY <2>1, <2>2, <2>3 DEF HeadIsNoted
<1>5. ASSUME NEW i \in 1 .. n
      PROVE  /\ pc'[buzon'[i].from] = "sent" /\ buzon'[i].from = buzon[i].from
             /\ Asleep(buzon[i].from, BloqueanteSend)'
             /\ buzon'[i].from # t
  <2>1. pc[buzon[i].from] = "sent" /\ buzon[i].from \in Users
    BY <1>3, MailIndices DEF OwnersWait
  <2>2. Asleep(buzon[i].from, BloqueanteSend)
    BY <1>1, <1>3, OwnersSleep
  <2>. QED BY <1>1, <1>3, <1>4, <2>1, <2>2 DEF Asleep
<1>6. OwnersWait'
  BY <1>1, <1>2, <1>3, <1>4, <1>5 DEF OwnersWait
<1>7. SleepInOrder'
  <2> SUFFICES ASSUME NEW i \in DOMAIN buzon', NEW j \in DOMAIN buzon',
                      NEW p \in DOMAIN sleeping[BloqueanteSend],
                      NEW q \in DOMAIN sleeping[BloqueanteSend], i < j,
                      sleeping[BloqueanteSend][p] = buzon'[i].from,
                      sleeping[BloqueanteSend][q] = buzon'[j].from
               PROVE  p < q
    BY DEF SleepInOrder
  <2>1. sleeping[BloqueanteSend][q] # t
    BY <1>1 DEF Asleep, Range
  <2>2. i \in DOMAIN buzon /\ j \in DOMAIN buzon
    BY <1>3, <2>1
  <2>. QED BY <1>3, <1>5, <2>2 DEF SleepInOrder
<1>. QED BY <1>6, <1>7

LEMMA WaitOwners ==
  ASSUME ChannelConstants, TypeOK, SleepersOnlySleep, HolderRuns,
         OwnersWait, SleepInOrder,
         NEW t \in Senders, SendWait(t),
         sleeping'[BloqueanteSend] = Append(sleeping[BloqueanteSend], t)
  PROVE  OwnersWait' /\ SleepInOrder'
<1> DEFINE s == sleeping[BloqueanteSend]
           r == sleeping'[BloqueanteSend]
           k == Len(s)
<1>1. /\ t \in Users /\ holder[Acceso] = t /\ ~Asleep(t, BloqueanteSend)
      /\ buzon' = buzon /\ pc' = pc
  BY DEF ChannelConstants, SendWait, InSection, HolderRuns, Running
<1>2. /\ BloqueanteSend \in MailConditions
      /\ s \in Seq(Users) /\ IsInjective(s)
      /\ k \in Nat /\ DOMAIN s = 1 .. k
  BY MailQueues, MailIndices DEF MailConditions
<1>3. Range(r) = Range(s) \cup {t}
  BY <1>1, <1>2, AppendDistinct DEF Asleep
<1>4. /\ DOMAIN r = 1 .. k + 1 /\ r[k + 1] = t
      /\ \A p \in 1 .. k : r[p] = s[p]
  BY <1>1, <1>2, SeqAppend
<1>5. OwnersWait'
  BY <1>1, <1>3 DEF OwnersWait, Asleep
<1>6. \A i \in DOMAIN buzon : buzon[i].from = t => i = Len(buzon)
  BY <1>1 DEF OwnersWait
<1>7. SleepInOrder'
  <2> SUFFICES ASSUME NEW i \in DOMAIN buzon, NEW j \in DOMAIN buzon,
                      NEW p \in DOMAIN r, NEW q \in DOMAIN r, i < j,
                      r[p] = buzon[i].from, r[q] = buzon[j].from
               PROVE  p < q
    BY <1>1 DEF SleepInOrder
  <2>1. r[p] # t
    BY <1>6, MailIndices
  <2>2. p \in 1 .. k /\ r[p] = s[p]
    BY <1>2, <1>4, <2>1
  <2>3. CASE q = k + 1
    BY <1>2, <2>2, <2>3
  <2>4. CASE q \in 1 .. k
    BY <1>2, <1>4, <2>2, <2>4, Zenon DEF SleepInOrder
  <2>. QED BY <1>2, <1>4, <2>3, <2>4
<1>. QED BY <1>5, <1>7

LEMMA PopOwners ==
  ASSUME ChannelConstants, TypeOK, SleepersOnlySleep, OwnersWait, SleepInOrder,
         NEW t \in Receivers, ReceivePop(t),
         \/ sleeping'[BloqueanteSend] = sleeping[BloqueanteSend]
         \/ /\ sleeping[BloqueanteSend] # <<>>
            /\ sleeping'[BloqueanteSend] = Tail(sleeping[BloqueanteSend])
  PROVE  OwnersWait' /\ SleepInOrder'
<1> DEFINE s == sleeping[BloqueanteSend]
           r == sleeping'[BloqueanteSend]
           n == Len(buzon)
<1>1. /\ t \in Users /\ holder[Acceso] = t /\ pc[t] = "receive"
      /\ \A u \in Users : u # t => pc'[u] = pc[u]
  BY DEF ChannelConstants, ReceivePop, InSection, TypeOK
<1>2. /\ n \in Nat /\ DOMAIN buzon = 1 .. n /\ DOMAIN buzon' = 1 .. n - 1
      /\ \A i \in 1 .. n - 1 : buzon'[i] = buzon[i + 1]
  <2>1. buzon \in Seq([msg : Messages, from : Senders]) /\ buzon # <<>> /\ buzon' = Tail(buzon)
    BY DEF ReceivePop, TypeOK
  <2>2. /\ buzon' \in Seq([msg : Messages, from : Senders])
        /\ Len(buzon') = n - 1
        /\ \A i \in 1 .. Len(buzon') : buzon'[i] = buzon[i + 1]
    BY <2>1, SeqTail
  <2>3. DOMAIN buzon' = 1 .. Len(buzon')
    BY <2>2, SeqLen
  <2>. QED BY <2>2, <2>3, MailIndices
<1>3. /\ BloqueanteSend \in MailConditions
      /\ s \in Seq(Users) /\ Len(s) \in Nat /\ DOMAIN s = 1 .. Len(s)
      /\ s # <<>> => Range(Tail(s)) = Range(s) \ {Head(s)}
  BY MailQueues, MailIndices DEF MailConditions
<1>4. ASSUME NEW i \in DOMAIN buzon'
      PROVE  pc'[buzon'[i].from] = "sent" /\ Asleep(buzon[i].from, BloqueanteSend)'
  <2> DEFINE u == buzon[i + 1].from
  <2>1. i + 1 \in DOMAIN buzon /\ i + 1 # 1 /\ buzon'[i].from = u
    BY <1>2
  <2>2. pc[u] = "sent" /\ u \in Users /\ u \in Range(s)
    BY <1>1, <2>1, OwnersSleep, MailIndices DEF OwnersWait, Asleep
  <2>3. u # Head(s)
    BY <1>1, <2>1, OldestFirst
  <2>4. u \in Range(r)
    BY <1>3, <2>2, <2>3
  <2>. QED BY <1>1, <2>1, <2>2, <2>4 DEF Asleep
<1>5. OwnersWait'
  BY <1>4 DEF OwnersWait
<1>6. PICK d \in {0, 1} : \A p \in DOMAIN r : p \in Int /\ p + d \in DOMAIN s /\ r[p] = s[p + d]
  <2>1. CASE r = s
    BY <1>3, <2>1
  <2>2. CASE s # <<>> /\ r = Tail(s)
    <3>1. /\ r \in Seq(Users) /\ Len(r) = Len(s) - 1
          /\ \A p \in 1 .. Len(r) : r[p] = s[p + 1]
      BY <1>3, <2>2, SeqTail
    <3>2. DOMAIN r = 1 .. Len(r)
      BY <3>1, SeqLen
    <3>. QED BY <1>3, <3>1, <3>2
  <2>. QED BY <2>1, <2>2
<1>7. SleepInOrder'
  <2> SUFFICES ASSUME NEW i \in DOMAIN buzon', NEW j \in DOMAIN buzon',
                      NEW p \in DOMAIN r, NEW q \in DOMAIN r, i < j,
                      r[p] = buzon'[i].from, r[q] = buzon'[j].from
               PROVE  p < q
    BY DEF SleepInOrder
  <2>1. /\ i + 1 \in DOMAIN buzon /\ j + 1 \in DOMAIN buzon /\ i + 1 < j + 1
        /\ s[p + d] = buzon[i + 1].from /\ s[q + d] = buzon[j + 1].from
    BY <1>2, <1>6
  <2>2. p + d < q + d
    BY <1>6, <2>1 DEF SleepInOrder
  <2>. QED BY <1>6, <2>2
<1>. QED BY <1>5, <1>7

(* The other steps leave the mailbox and the senders' queue alone, and are *)
(* not taken by the owner of a message.                                    *)
LEMMA OtherOwners ==
  ASSUME ChannelConstants, TypeOK, HolderRuns, OwnersWait, SleepInOrder,
         NEW t \in Users, NEW m,
         \/ Send(t, m) \/ SendReturn(t) \/ Grant(t)
         \/ Receive(t) \/ ReceiveWait(t) \/ ReceiveReturn(t),
         sleeping'[BloqueanteSend] = sleeping[BloqueanteSend]
  PROVE  OwnersWait' /\ SleepInOrder'
<1>1. buzon' = buzon
  BY DEF Send, SendReturn, Grant, Receive, ReceiveWait, ReceiveReturn
<1>2. SleepInOrder'
  BY <1>1 DEF SleepInOrder
<1>3. \/ /\ AcquireAcceso(t) /\ pc[t] = "idle"
         /\ \A u \in Users : u # t => pc'[u] = pc[u] /\ b'[u] = b[u]
      \/ Mon!Grant(t, Acceso) /\ pc' = pc
      \/ /\ holder[Acceso] = t /\ ~(pc[t] = "sent" /\ HeadIsNoted(t))
         /\ \A u \in Users : u # t => pc'[u] = pc[u]
  BY DEF TypeOK, Send, SendReturn, Grant, Receive, ReceiveWait, ReceiveReturn, InSection
<1>4. ASSUME NEW i \in DOMAIN buzon
      PROVE  /\ pc'[buzon[i].from] = "sent"
             /\ \/ Asleep(buzon[i].from, BloqueanteSend)'
                \/ /\ i = Len(buzon)
                   /\ holder'[Acceso] = buzon[i].from
                   /\ HeadIsNoted(buzon[i].from)'
  <2> DEFINE u == buzon[i].from
  <2>1. /\ u \in Users /\ pc[u] = "sent"
        /\ \/ Asleep(u, BloqueanteSend)
           \/ i = Len(buzon) /\ holder[Acceso] = u /\ HeadIsNoted(u)
    BY MailIndices DEF OwnersWait
  <2> HIDE DEF u
  <2>2. CASE AcquireAcceso(t) /\ pc[t] = "idle"
             /\ \A v \in Users : v # t => pc'[v] = pc[v] /\ b'[v] = b[v]
    <3>1. u # t /\ pc'[u] = "sent" /\ b'[u] = b[u]
      BY <2>1, <2>2
    <3>2. CASE Asleep(u, BloqueanteSend)
      BY <1>1, <3>1, <3>2 DEF Asleep, u
    <3>3. CASE i = Len(buzon) /\ holder[Acceso] = u /\ HeadIsNoted(u)
      <4>1. holder' = holder
        BY <2>1, <2>2, <3>3, AcquireEffect DEF ChannelConstants
      <4>. QED BY <1>1, <3>1, <3>3, <4>1 DEF HeadIsNoted, u
    <3>. QED BY <2>1, <3>2, <3>3
  <2>3. CASE Mon!Grant(t, Acceso) /\ pc' = pc
    <3>1. Asleep(u, BloqueanteSend)
      BY <2>1, <2>3, GrantEffect DEF ChannelConstants
    <3>. QED BY <1>1, <2>1, <2>3, <3>1 DEF Asleep, u
  <2>4. CASE /\ holder[Acceso] = t /\ ~(pc[t] = "sent" /\ HeadIsNoted(t))
             /\ \A v \in Users : v # t => pc'[v] = pc[v]
    <3>1. Asleep(u, BloqueanteSend) /\ u # t
      BY <2>1, <2>4 DEF HolderRuns, Running
    <3>. QED BY <1>1, <2>1, <2>4, <3>1 DEF Asleep, u
  <2>. QED BY <1>3, <2>2, <2>3, <2>4
<1>5. OwnersWait'
  BY <1>1, <1>4 DEF OwnersWait
<1>. QED BY <1>2, <1>5

LEMMA OwnersPart ==
  ASSUME ChannelConstants, MailInv, NEW t \in Users, Step(t)
  PROVE  OwnersWait' /\ SleepInOrder'
<1> USE DEF MailInv
<1>1. CASE t \in Senders /\ SendPut(t)
  BY <1>1, QueuesChange, PutOwners, Zenon DEF SendPut, SendWait, ReceivePop, InSection
<1>2. CASE t \in Senders /\ SendWait(t)
  <2>1. sleeping'[BloqueanteSend] = Append(sleeping[BloqueanteSend], t)
    BY <1>2, WaitEffect DEF SendWait, MailConditions, TypeOK
  <2>. QED BY <1>2, <2>1, WaitOwners
<1>3. CASE t \in Receivers /\ ReceivePop(t)
  BY <1>3, QueuesChange, PopOwners, Zenon DEF ReceivePop, SendWait, InSection
<1>4. ASSUME NEW m,
             \/ Send(t, m) \/ SendReturn(t) \/ Grant(t)
             \/ Receive(t) \/ ReceiveWait(t) \/ ReceiveReturn(t)
      PROVE  OwnersWait' /\ SleepInOrder'
  <2>1. ~SendWait(t) /\ ~ReceivePop(t)
    BY <1>4, GrantEffect DEF ChannelConstants, Send, SendReturn, Receive, ReceiveWait,
                ReceiveReturn, SendWait, ReceivePop, InSection, Grant
  <2>2. sleeping'[BloqueanteSend] = sleeping[BloqueanteSend]
    BY <2>1, QueuesChange
  <2>. QED BY <1>4, <2>2, OtherOwners
<1>. QED BY <1>1, <1>2, <1>3, <1>4 DEF Step

-----------------------------------------------------------------------------

LEMMA MailInit == ChannelConstants /\ ChannelInit => MailInv /\ MessagesHaveReceivers
<1> SUFFICES ASSUME ChannelConstants, ChannelInit PROVE MailInv /\ MessagesHaveReceivers
  OBVIOUS
<1>1. /\ holder = [l \in {Acceso} |-> Null]
      /\ waiting = [t \in Users |-> Null]
      /\ sleeping = [c \in MailConditions |-> <<>>]
  BY DEF ChannelInit, Mon!Init
<1>2. BloqueanteSend \in MailConditions /\ BloqueanteReceive \in MailConditions
  BY DEF MailConditions
<1>3. TypeOK /\ SendsHaveMessages
  BY <1>1, SeqEmpty DEF ChannelInit, TypeOK, SendsHaveMessages
<1>4. SleepersOnlySleep
  <2>1. \A c \in MailConditions : Range(sleeping[c]) = {} /\ IsInjective(sleeping[c])
    BY <1>1 DEF Range, IsInjective
  <2>. QED BY <2>1 DEF SleepersOnlySleep
<1>5. HolderRuns
  BY <1>1 DEF HolderRuns, ChannelConstants
<1>6. Range(sleeping[BloqueanteReceive]) = {}
  BY <1>1, <1>2 DEF Range
<1>7. ReceiversSleep
  BY <1>6 DEF ReceiversSleep
<1>8. OwnersWait /\ SleepInOrder
  BY DEF ChannelInit, OwnersWait, SleepInOrder
<1>9. MessagesHaveReceivers
  BY <1>1, <1>2 DEF MessagesHaveReceivers
<1>. QED BY <1>3, <1>4, <1>5, <1>7, <1>8, <1>9 DEF MailInv

-----------------------------------------------------------------------------

INSTANCE FiniteSetTheorems

(* The receivers on their way to the mailbox. *)
OnTheWay == {t \in Receivers : pc[t] = "receive" /\ ~Asleep(t, BloqueanteReceive)}

LEMMA OnTheWayIsFinite ==
  ASSUME ChannelConstants
  PROVE  /\ IsFiniteSet(OnTheWay) /\ Cardinality(OnTheWay) \in Nat
         /\ IsFiniteSet(OnTheWay') /\ Cardinality(OnTheWay') \in Nat
<1>1. OnTheWay \in SUBSET Users /\ OnTheWay' \in SUBSET Users
  BY DEF OnTheWay, ChannelConstants
<1>2. IsFiniteSet(OnTheWay) /\ IsFiniteSet(OnTheWay')
  BY <1>1, FS_Subset DEF ChannelConstants
<1>. QED BY <1>2, FS_CardinalityType

(* A put adds a message and awakens a receiver, a pop takes a message and  *)
(* a receiver away, and no other step takes a receiver off its way while   *)
(* there are messages.                                                     *)
LEMMA ReceiversCome ==
  ASSUME ChannelConstants, MailInv, MessagesHaveReceivers, NEW t \in Users, Step(t)
  PROVE  MessagesHaveReceivers'
<1> DEFINE r == sleeping[BloqueanteReceive]
           W == OnTheWay
<1> SUFFICES ASSUME sleeping'[BloqueanteReceive] # <<>>
             PROVE  Len(buzon') <= Cardinality(OnTheWay')
  BY DEF MessagesHaveReceivers, OnTheWay
<1>1. r # <<>> => Len(buzon) <= Cardinality(W)
  BY DEF MessagesHaveReceivers, OnTheWay
<1>2. Len(buzon) \in Nat /\ BloqueanteReceive \in MailConditions
  BY MailIndices DEF MailInv, MailConditions
<1>3. CASE SendPut(t)
  <2>1. Len(buzon') = Len(buzon) + 1
    BY <1>3, SeqAppend DEF SendPut, MailInv, TypeOK
  <2>2. r # <<>> /\ sleeping'[BloqueanteReceive] = Tail(r)
    BY <1>2, <1>3, SignalEffect DEF SendPut, MailInv, TypeOK
  <2>3. Head(r) \in Range(r) /\ Range(Tail(r)) = Range(r) \ {Head(r)}
    BY <1>2, <2>2, MailQueues DEF MailInv
  <2>4. Head(r) \in Receivers /\ Head(r) \notin W
    BY <2>3 DEF MailInv, ReceiversSleep, OnTheWay, Asleep
  <2>6. pc'[Head(r)] = "receive"
    <3>1. pc[Head(r)] = "receive" /\ Head(r) # t /\ Head(r) \in Users
      BY <1>3, <2>3, <2>4 DEF MailInv, ReceiversSleep, SendPut, InSection, ChannelConstants
    <3>. QED BY <1>3, <3>1 DEF SendPut, MailInv, TypeOK
  <2>7. ASSUME NEW u \in W PROVE u \in OnTheWay'
    <3>1. u \in Receivers /\ u \in Users /\ pc[u] = "receive" /\ u \notin Range(r) /\ u # t
      BY <1>3 DEF OnTheWay, Asleep, SendPut, InSection, ChannelConstants
    <3>2. pc'[u] = "receive"
      BY <1>3, <3>1 DEF SendPut, MailInv, TypeOK
    <3>. QED BY <2>2, <2>3, <3>1, <3>2 DEF OnTheWay, Asleep
  <2>8. W \cup {Head(r)} \in SUBSET OnTheWay'
    BY <2>2, <2>3, <2>4, <2>6, <2>7 DEF OnTheWay, Asleep
  <2>9. Cardinality(W) + 1 <= Cardinality(OnTheWay')
    BY <2>4, <2>8, OnTheWayIsFinite, FS_AddElement, FS_Subset
  <2>. QED BY <1>1, <1>2, <2>1, <2>2, <2>9, OnTheWayIsFinite
<1>4. CASE ReceiveWait(t)
  BY <1>4, OnTheWayIsFinite DEF ReceiveWait
<1>5. CASE t \in Receivers /\ ReceivePop(t)
  <2>1. Len(buzon') = Len(buzon) - 1
    BY <1>5, SeqTail DEF ReceivePop, MailInv, TypeOK
  <2>2. sleeping'[BloqueanteReceive] = r
    BY <1>5, QueuesChange, Zenon DEF MailInv, ReceivePop, ReceiveWait, SendPut, InSection
  <2>3. t \in W
    BY <1>5 DEF OnTheWay, ReceivePop, InSection, MailInv, HolderRuns, Running
  <2>4. W \ {t} \in SUBSET OnTheWay'
    BY <1>5, <2>2 DEF OnTheWay, Asleep, ReceivePop, MailInv, TypeOK, ChannelConstants
  <2>5. Cardinality(W) - 1 <= Cardinality(OnTheWay')
    <3>1. Cardinality(W \ {t}) = Cardinality(W) - 1
      BY <2>3, OnTheWayIsFinite, FS_RemoveElement, Zenon
    <3>2. Cardinality(W \ {t}) <= Cardinality(OnTheWay')
      BY <2>4, OnTheWayIsFinite, FS_Subset
    <3>. QED BY <3>1, <3>2
  <2>. QED BY <1>1, <1>2, <2>1, <2>2, <2>5, OnTheWayIsFinite
<1>6. CASE ~SendPut(t) /\ ~ReceiveWait(t) /\ ~(t \in Receivers /\ ReceivePop(t))
  <2>1. sleeping'[BloqueanteReceive] = r
    BY <1>6, QueuesChange DEF MailInv
  <2>2. buzon' = buzon
    BY <1>6 DEF Step, Send, SendWait, SendReturn, Receive, ReceiveReturn, Grant
  <2>3. pc' = pc \/ pc[t] # "receive"
    BY <1>6 DEF Step, Send, SendWait, SendReturn, Receive, ReceiveReturn, Grant, InSection
  <2>4. \A u \in Users : u # t => pc'[u] = pc[u]
    BY OthersStay DEF MailInv
  <2>5. W \in SUBSET OnTheWay'
    BY <2>1, <2>3, <2>4 DEF OnTheWay, Asleep, ChannelConstants
  <2>6. Cardinality(W) <= Cardinality(OnTheWay')
    BY <2>5, OnTheWayIsFinite, FS_Subset
  <2>. QED BY <1>1, <1>2, <2>1, <2>2, <2>6, OnTheWayIsFinite
<1>. QED BY <1>3, <1>4, <1>5, <1>6

-----------------------------------------------------------------------------

MP == INSTANCE MonitorProofs
         WITH Threads <- Users, None <- Null,
              Locks <- {Acceso}, Conditions <- MailConditions,
              LockOf <- [c \in MailConditions |-> Acceso]

(* The channel as a client of the monitor. *)
LEMMA MailConstants == ChannelConstants => MP!MonitorConstants
BY DEF ChannelConstants, MP!MonitorConstants

LEMMA SameSleepers ==
  /\ MP!SleepersOnlySleep <=> SleepersOnlySleep
  /\ MP!SleepersOnlySleep' <=> SleepersOnlySleep'
BY DEF MP!SleepersOnlySleep, SleepersOnlySleep,
       MP!IsInjective, IsInjective, MP!Range, Range

LEMMA MailMonitor == TypeOK /\ SleepersOnlySleep => MP!MonitorInv
BY SameSleepers DEF TypeOK, MP!MonitorInv, MP!MonitorTypes

LEMMA SameOperations ==
  ASSUME NEW t \in Users
  PROVE  /\ Mon!Take(t, Acceso) => MP!Take(t, Acceso)
         /\ Mon!Block(t, Acceso) => MP!Block(t, Acceso)
         /\ Mon!Grant(t, Acceso) => MP!Grant(t, Acceso)
         /\ Mon!Release(t, Acceso) => MP!Release(t, Acceso)
         /\ \A c \in MailConditions : Mon!Wait(t, c) => MP!Wait(t, c)
         /\ \A c \in MailConditions : Mon!Signal(t, c) => MP!Signal(t, c)
<1>1. Mon!Active(t) <=> MP!Active(t)
  BY DEF Mon!Active, MP!Active, Mon!Range, MP!Range
<1>2. Mon!Take(t, Acceso) => MP!Take(t, Acceso)
  BY <1>1 DEF Mon!Take, MP!Take
<1>3. Mon!Block(t, Acceso) => MP!Block(t, Acceso)
  BY <1>1 DEF Mon!Block, MP!Block
<1>4. Mon!Grant(t, Acceso) => MP!Grant(t, Acceso)
  BY DEF Mon!Grant, MP!Grant
<1>5. Mon!Release(t, Acceso) => MP!Release(t, Acceso)
  BY <1>1 DEF Mon!Release, MP!Release
<1>6. \A c \in MailConditions : Mon!Wait(t, c) => MP!Wait(t, c)
  BY <1>1 DEF Mon!Wait, MP!Wait
<1>7. \A c \in MailConditions : Mon!Signal(t, c) => MP!Signal(t, c)
  BY <1>1 DEF Mon!Signal, MP!Signal
<1>. QED BY <1>2, <1>3, <1>4, <1>5, <1>6, <1>7

(* The monitor's part of a step: its types, its sleepers and its holder. *)
LEMMA MonitorPart ==
  ASSUME ChannelConstants, TypeOK, SleepersOnlySleep, NEW t \in Users, Step(t)
  PROVE  /\ holder' \in [{Acceso} -> Users \cup {Null}]
         /\ waiting' \in [Users -> {Acceso, Null}]
         /\ sleeping' \in [MailConditions -> Seq(Users)]
         /\ SleepersOnlySleep'
<1>1. MP!Next \/ UNCHANGED monVars
  BY MonitorStepOf, SameOperations DEF MP!Next
<1>2. [MP!Next]_MP!vars
  BY <1>1 DEF MP!vars, monVars
<1>3. MP!MonitorInv'
  BY <1>2, MailConstants, MailMonitor, MP!MonitorNext
<1>. QED BY <1>3, SameSleepers DEF MP!MonitorInv, MP!MonitorTypes

LEMMA MailNext ==
  ASSUME ChannelConstants, MailInv, MessagesHaveReceivers, [ChannelNext]_channelVars
  PROVE  MailInv' /\ MessagesHaveReceivers'
<1>1. CASE UNCHANGED channelVars
  <2>1. SleepersOnlySleep'
    BY <1>1 DEF MailInv, channelVars, monVars, SleepersOnlySleep
  <2>2. (TypeOK /\ SendsHaveMessages /\ HolderRuns)'
    BY <1>1 DEF MailInv, channelVars, monVars, TypeOK, SendsHaveMessages, HolderRuns, Running, Asleep
  <2>3. (ReceiversSleep /\ OwnersWait /\ SleepInOrder)'
    BY <1>1 DEF MailInv, channelVars, monVars, ReceiversSleep, OwnersWait, SleepInOrder,
                Asleep, HeadIsNoted
  <2>4. MessagesHaveReceivers'
    BY <1>1 DEF channelVars, monVars, MessagesHaveReceivers, Asleep
  <2>. QED BY <2>1, <2>2, <2>3, <2>4 DEF MailInv
<1>2. CASE ChannelNext
  <2>1. PICK t \in Users : Step(t)
    BY <1>2, StepsOfNext
  <2>2. TypeOK' /\ SendsHaveMessages'
    BY <2>1, MailTypes, MonitorPart, Zenon DEF MailInv, TypeOK
  <2>3. SleepersOnlySleep'
    BY <2>1, MonitorPart DEF MailInv
  <2>4. HolderRuns' /\ ReceiversSleep'
    BY <2>1, HolderPart, ReceiversPart DEF MailInv
  <2>5. OwnersWait' /\ SleepInOrder'
    BY <2>1, OwnersPart
  <2>6. MessagesHaveReceivers'
    BY <2>1, ReceiversCome
  <2>. QED BY <2>2, <2>3, <2>4, <2>5, <2>6 DEF MailInv
<1>. QED BY <1>1, <1>2

(* Channel::Send returns only after a Receive has taken its message: for   *)
(* any number of senders and receivers, and whatever equal messages make   *)
(* the head look like the one a sender noted (threads/channel.cc, the loop *)
(* of Send).                                                               *)
THEOREM SendWaitsForReceipt == ChannelSafety => []SendReturnsAfterReceipt
<1>1. ChannelInit => MailInv /\ MessagesHaveReceivers
  BY MailInit, ChannelAssumption
<1>2. MailInv /\ MessagesHaveReceivers /\ [ChannelNext]_channelVars
        => (MailInv /\ MessagesHaveReceivers)'
  BY MailNext, ChannelAssumption
<1>3. MailInv => SendReturnsAfterReceipt
  BY DEF MailInv, OwnersWait, SendReturnsAfterReceipt, InMailbox
<1>. QED BY <1>1, <1>2, <1>3, PTL DEF ChannelSafety

(* Each message has an awake receiver on its way, as long as receivers     *)
(* sleep: the one Signal per Send of threads/channel.cc is enough.         *)
THEOREM ReceiversAreAwakened == ChannelSafety => []MessagesHaveReceivers
<1>1. ChannelInit => MailInv /\ MessagesHaveReceivers
  BY MailInit, ChannelAssumption
<1>2. MailInv /\ MessagesHaveReceivers /\ [ChannelNext]_channelVars
        => (MailInv /\ MessagesHaveReceivers)'
  BY MailNext, ChannelAssumption
<1>. QED BY <1>1, <1>2, PTL DEF ChannelSafety

(* The channel keeps to the rules of its lock and its conditions: it is a  *)
(* client of module Monitor, which condition.cc and lock.cc implement.     *)
THEOREM ChannelUsesMonitor == ChannelSafety => Mon!Safety
<1>1. ChannelInit => Mon!Init
  BY DEF ChannelInit
<1>2. [ChannelNext]_channelVars => [Mon!Next]_Mon!vars
  <2>1. CASE UNCHANGED channelVars
    BY <2>1 DEF channelVars, monVars, Mon!vars
  <2>2. CASE ChannelNext
    <3>1. PICK t \in Users : Step(t)
      BY <2>2, StepsOfNext, ChannelAssumption
    <3>. QED BY <3>1, MonitorStepOf, ChannelAssumption DEF Mon!Next, Mon!vars, monVars
  <2>. QED BY <2>1, <2>2
<1>. QED BY <1>1, <1>2, PTL DEF ChannelSafety, Mon!Safety
=============================================================================
