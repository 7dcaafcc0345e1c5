--------------------------- MODULE SchedulerProofs ---------------------------
(***************************************************************************)
(* Proofs about threads/scheduler.cc, for any threads with any priorities: *)
(* the ready lists lose nobody and a deleted thread is never run again.    *)
(***************************************************************************)
EXTENDS Scheduler, QueueLemmas, WellFoundedInduction

(* The ready lists as a whole: what FindNextToRun must preserve. *)
ThreadElements == [item : TCBs, key : 0 .. IntMax]
ThreadLists == [Queues -> Seq(ThreadElements)]

Distinct(q) == \A m, n \in DOMAIN q : q[m].item = q[n].item => m = n

(* A thread is at one place of one list. *)
Once(lists) ==
  /\ \A i \in Queues : Distinct(lists[i])
  /\ \A i, j \in Queues : \A t \in TCBs :
       Has(lists[i], t) /\ Has(lists[j], t) => i = j

Statuses == {"JUST_CREATED", "RUNNING", "READY", "BLOCKED"}
Doings == {"code", "asleep", "sending", "receiving", "received", "finished"}

SchedulerTypes ==
  /\ currentThread \in TCBs
  /\ idle \in BOOLEAN /\ halted \in BOOLEAN
  /\ status \in [TCBs -> Statuses]
  /\ preassignedQueue \in [TCBs -> Queues]
  /\ started \subseteq TCBs
  /\ threadToBeDestroyed \in TCBs \cup {NULL}
  /\ destroyed \subseteq TCBs
  /\ doing \in [TCBs -> Doings]
  /\ joining \in [TCBs -> TCBs \cup {NULL}]
  /\ buzon \in [TCBs -> BOOLEAN]

(* The lists hold READY threads only. *)
ListsAreReady(lists, st) ==
  /\ lists \in ThreadLists
  /\ Once(lists)
  /\ \A t \in TCBs : On(lists, t) => st[t] = "READY"

(* A thread that waits for a wakeup, for its value to be taken, or for     *)
(* nothing any more is BLOCKED.                                            *)
WaitersAreBlocked ==
  \A t \in TCBs :
    /\ doing[t] \in {"asleep", "finished"} \/ buzon[t] => status[t] = "BLOCKED"
    /\ buzon[t] => doing[t] = "sending"
    /\ joining[t] # NULL <=> doing[t] \in {"receiving", "received"}

CPUIsRunning == ~idle /\ ~halted => status[currentThread] = "RUNNING"

CarcassIsFinished ==
  threadToBeDestroyed # NULL => doing[threadToBeDestroyed] = "finished"

Gone ==
  \A t \in destroyed :
    doing[t] = "finished" /\ t # threadToBeDestroyed /\ t # currentThread

SchedulerInv ==
  /\ SchedulerTypes
  /\ ListsAreReady(readyList, status)
  /\ WaitersAreBlocked
  /\ CPUIsRunning
  /\ CarcassIsFinished
  /\ Gone

-----------------------------------------------------------------------------

(* A set of positions has a first one. *)
LEMMA FirstPosition ==
  ASSUME NEW S \in SUBSET Nat, S # {}
  PROVE  Min(S) \in S
<1> DEFINE Less == OpToRel(<, Nat)
<1>1. IsWellFoundedOn(Less, Nat)
  BY NatLessThanWellFounded, Zenon
<1>2. \A x, y \in S : <<y, x>> \notin Less => x <= y
  BY DEF OpToRel
<1> HIDE DEF Less
<1>3. PICK x \in S : \A y \in S : ~(<<y, x>> \in Less)
  BY <1>1, WFMin, Zenon
<1>4. \A y \in S : x <= y
  BY <1>2, <1>3, Zenon
<1>. QED BY <1>4, Zenon DEF Min

(* Where SortedInsert puts the element. *)
LEMMA InsertPlace ==
  ASSUME NEW E, NEW q \in Seq(E), NEW x, NEW k, Element(x, k) \in E
  PROVE  LET r == SortedInsert(q, x, k)
         IN  /\ r \in Seq(E) /\ Len(r) = Len(q) + 1
             /\ \E p \in 1 .. Len(q) + 1 : \A i \in 1 .. Len(q) + 1 :
                  r[i] = IF i < p THEN q[i] ELSE IF i = p THEN Element(x, k) ELSE q[i - 1]
<1> DEFINE bigger == {i \in DOMAIN q : k < q[i].key}
           place == IF bigger = {} THEN Len(q) + 1 ELSE Min(bigger)
           e == Element(x, k)
<1>1. place \in 1 .. Len(q) + 1
  <2>1. Len(q) \in Nat /\ DOMAIN q = 1 .. Len(q)
    BY SeqLen
  <2>2. bigger \in SUBSET Nat /\ bigger \in SUBSET (1 .. Len(q))
    BY <2>1
  <2>3. bigger # {} => Min(bigger) \in bigger
    BY <2>2, FirstPosition, Zenon
  <2>4. CASE bigger = {}
    BY <2>1, <2>4
  <2>5. CASE bigger # {}
    <3>1. place = Min(bigger)
      BY <2>5, Zenon
    <3>2. place \in 1 .. Len(q)
      BY <2>2, <2>3, <2>5, <3>1, Zenon
    <3> HIDE DEF place
    <3>. QED BY <2>1, <3>2
  <2>. QED BY <2>4, <2>5, Zenon
<1>2. SortedInsert(q, x, k) = SubSeq(q, 1, place - 1) \o <<e>> \o SubSeq(q, place, Len(q))
  BY Zenon DEF SortedInsert
<1>3. e \in E
  OBVIOUS
<1> HIDE DEF place, e
<1> DEFINE a == SubSeq(q, 1, place - 1)
           b == SubSeq(q, place, Len(q))
           r == (a \o <<e>>) \o b
           n == Len(q)
<1>4. /\ a \in Seq(E) /\ Len(a) = place - 1
      /\ \A i \in 1 .. place - 1 : a[i] = q[i]
  BY <1>1
<1>5. /\ b \in Seq(E) /\ Len(b) = n + 1 - place
      /\ \A i \in 1 .. n + 1 - place : b[i] = q[place + i - 1]
  BY <1>1
<1>6. <<e>> \in Seq(E) /\ Len(<<e>>) = 1 /\ <<e>>[1] = e
  BY <1>3
<1>7. n \in Nat /\ place \in Nat /\ 1 <= place /\ place <= n + 1
  BY <1>1, SeqLen
<1> HIDE DEF a, b, n
<1>8. /\ a \o <<e>> \in Seq(E) /\ Len(a \o <<e>>) = place
      /\ \A i \in 1 .. place - 1 : (a \o <<e>>)[i] = a[i]
      /\ (a \o <<e>>)[place] = e
  BY <1>1, <1>4, <1>6, <1>7
<1> DEFINE c == a \o <<e>>
<1> HIDE DEF c
<1>9. /\ r \in Seq(E) /\ Len(r) = n + 1
      /\ \A i \in 1 .. place : r[i] = c[i]
      /\ \A i \in 1 .. n + 1 - place : r[place + i] = b[i]
  <2>1. c \in Seq(E) /\ Len(c) = place /\ r = c \o b
    BY <1>8, Zenon DEF c
  <2>2. /\ c \o b \in Seq(E) /\ Len(c \o b) = Len(c) + Len(b)
        /\ \A i \in 1 .. Len(c) : (c \o b)[i] = c[i]
        /\ \A i \in 1 .. Len(b) : (c \o b)[Len(c) + i] = b[i]
    <3>1. c \in Seq(E)
      BY <2>1
    <3>2. b \in Seq(E)
      BY <1>5
    <3>. QED BY <3>1, <3>2
  <2> HIDE DEF r
  <2>3. place + (n + 1 - place) = n + 1
    BY <1>7
  <2>. QED BY <1>5, <2>1, <2>2, <2>3, Zenon
<1>10. ASSUME NEW i \in 1 .. n + 1
       PROVE  r[i] = IF i < place THEN q[i] ELSE IF i = place THEN e ELSE q[i - 1]
  <2> HIDE DEF r
  <2>1. CASE i < place
    BY <1>4, <1>7, <1>8, <1>9, <2>1 DEF c
  <2>2. CASE i = place
    BY <1>7, <1>8, <1>9, <2>2 DEF c
  <2>3. CASE i > place
    <3>1. i - place \in 1 .. n + 1 - place /\ place + (i - place) = i
      BY <1>7, <2>3
    <3>2. r[i] = b[i - place] /\ b[i - place] = q[place + (i - place) - 1]
      BY <1>5, <1>9, <3>1 DEF n
    <3>3. place + (i - place) - 1 = i - 1 /\ ~(i < place) /\ i # place
      BY <1>7, <2>3
    <3>. QED BY <3>2, <3>3
  <2>. QED BY <1>7, <2>1, <2>2, <2>3
<1>11. r = SortedInsert(q, x, k)
  BY <1>2 DEF a, b
<1> HIDE DEF r
<1>. QED BY <1>1, <1>9, <1>10, <1>11 DEF n, e


(* What SortedInsert adds to a list of threads, *)
LEMMA InsertItems ==
  ASSUME NEW q \in Seq(ThreadElements), NEW t \in TCBs, NEW k \in 0 .. IntMax
  PROVE  LET r == SortedInsert(q, t, k)
         IN  /\ r \in Seq(ThreadElements)
             /\ \A u : Has(r, u) <=> Has(q, u) \/ u = t
             /\ Distinct(q) /\ ~Has(q, t) => Distinct(r)
<1> DEFINE r == SortedInsert(q, t, k)
           e == Element(t, k)
           n == Len(q)
<1>1. e \in ThreadElements /\ e.item = t
  BY DEF Element, ThreadElements
<1>2. r \in Seq(ThreadElements) /\ Len(r) = n + 1
  BY <1>1, InsertPlace
<1>3. PICK p \in 1 .. n + 1 : \A i \in 1 .. n + 1 :
        r[i] = IF i < p THEN q[i] ELSE IF i = p THEN e ELSE q[i - 1]
  BY <1>1, InsertPlace
<1>4. n \in Nat /\ DOMAIN q = 1 .. n /\ DOMAIN r = 1 .. n + 1
  BY <1>2, SeqLen
<1> HIDE DEF r, e, n
<1>5. \A i \in 1 .. n : \E j \in 1 .. n + 1 : r[j] = q[i]
  <2> TAKE i \in 1 .. n
  <2>1. CASE i < p
    BY <1>3, <1>4, <2>1
  <2>2. CASE ~(i < p)
    <3>1. i + 1 \in 1 .. n + 1 /\ ~(i + 1 < p) /\ i + 1 # p /\ (i + 1) - 1 = i
      BY <1>4, <2>2
    <3>2. r[i + 1] = q[i]
      BY <1>3, <3>1
    <3>. QED BY <3>1, <3>2, Zenon
  <2>. QED BY <2>1, <2>2, Zenon
<1>6. r[p] = e
  BY <1>3, <1>4
<1>7. \A i \in 1 .. n + 1 : i # p => \E j \in 1 .. n : r[i] = q[j]
  <2> SUFFICES ASSUME NEW i \in 1 .. n + 1, i # p PROVE \E j \in 1 .. n : r[i] = q[j]
    OBVIOUS
  <2>1. CASE i < p
    BY <1>3, <1>4, <2>1
  <2>2. CASE ~(i < p)
    <3>1. i - 1 \in 1 .. n
      BY <1>4, <2>2
    <3>. QED BY <1>3, <2>2, <3>1
  <2>. QED BY <2>1, <2>2, Zenon
<1>8. \A u : Has(r, u) <=> Has(q, u) \/ u = t
  <2>1. \A u : Has(r, u) <=> \E i \in 1 .. n + 1 : r[i].item = u
    BY <1>4 DEF Has
  <2>2. \A u : Has(q, u) <=> \E i \in 1 .. n : q[i].item = u
    BY <1>4 DEF Has
  <2>3. ASSUME NEW i \in 1 .. n + 1 PROVE Has(q, r[i].item) \/ r[i].item = t
    <3>1. CASE i = p
      BY <1>1, <1>6, <3>1
    <3>2. CASE i # p
      <4>1. PICK j \in 1 .. n : r[i] = q[j]
        BY <1>7, <3>2, Zenon
      <4>2. r[i].item = q[j].item
        BY <4>1
      <4>. QED BY <2>2, <4>2, Zenon
    <3>. QED BY <3>1, <3>2, Zenon
  <2>4. ASSUME NEW i \in 1 .. n PROVE Has(r, q[i].item)
    <3>1. PICK j \in 1 .. n + 1 : r[j] = q[i]
      BY <1>5, Zenon
    <3>2. r[j].item = q[i].item
      BY <3>1
    <3>. QED BY <2>1, <3>2, Zenon
  <2>5. Has(r, t)
    <3>1. r[p].item = t
      BY <1>1, <1>6
    <3>. QED BY <2>1, <3>1, Zenon
  <2>. QED BY <2>1, <2>2, <2>3, <2>4, <2>5, Zenon
<1>9. Distinct(q) /\ ~Has(q, t) => Distinct(r)
  <2> SUFFICES ASSUME Distinct(q), ~Has(q, t),
                      NEW i \in 1 .. n + 1, NEW j \in 1 .. n + 1, r[i].item = r[j].item
               PROVE  i = j
    BY <1>4, Zenon DEF Distinct
  <2> DEFINE Source(x) == IF x < p THEN x ELSE x - 1
  <2>1. \A x \in 1 .. n + 1 : x # p => Source(x) \in 1 .. n /\ r[x] = q[Source(x)]
    BY <1>3, <1>4
  <2>2. \A x \in 1 .. n + 1 : x # p => r[x].item # t
    BY <1>4, <2>1, Zenon DEF Has
  <2>3. CASE i = p \/ j = p
    BY <1>1, <1>6, <2>2, <2>3, Zenon
  <2>4. CASE i # p /\ j # p
    <3>1. Source(i) = Source(j)
      <4> HIDE DEF Source
      <4>. QED BY <1>4, <2>1, <2>4 DEF Distinct
    <3>. QED BY <1>3, <1>4, <2>4, <3>1
  <2>. QED BY <2>3, <2>4, Zenon
<1>. QED BY <1>2, <1>8, <1>9 DEF r

(* and what SortedPop takes off it. *)
LEMMA PopItems ==
  ASSUME NEW q \in Seq(ThreadElements), q # <<>>
  PROVE  /\ Head(q).item \in TCBs /\ Head(q).key \in 0 .. IntMax
         /\ SortedPop(q) \in Seq(ThreadElements)
         /\ \A u : Has(q, u) <=> Has(SortedPop(q), u) \/ u = Head(q).item
         /\ Distinct(q) => Distinct(SortedPop(q)) /\ ~Has(SortedPop(q), Head(q).item)
<1> DEFINE r == Tail(q)
           n == Len(q)
<1>1. /\ Head(q) = q[1] /\ Head(q) \in ThreadElements
      /\ r \in Seq(ThreadElements) /\ Len(r) = n - 1
      /\ \A i \in 1 .. Len(r) : r[i] = q[i + 1]
  BY SeqTail
<1>2. n \in Nat \ {0} /\ DOMAIN q = 1 .. n /\ DOMAIN r = 1 .. n - 1
  BY <1>1, SeqLen, SeqEmpty
<1> HIDE DEF r, n
<1>3. \A i \in 1 .. n - 1 : i + 1 \in 1 .. n /\ i + 1 # 1 /\ r[i] = q[i + 1]
  BY <1>1, <1>2
<1>4. \A i \in 1 .. n : i # 1 => i - 1 \in 1 .. n - 1 /\ r[i - 1] = q[i]
  BY <1>1, <1>2
<1>5. 1 \in 1 .. n
  BY <1>2
<1>6. \A u : Has(q, u) <=> Has(r, u) \/ u = Head(q).item
  <2>1. \A u : Has(r, u) <=> \E i \in 1 .. n - 1 : r[i].item = u
    BY <1>2 DEF Has
  <2>2. \A u : Has(q, u) <=> \E i \in 1 .. n : q[i].item = u
    BY <1>2 DEF Has
  <2>3. ASSUME NEW i \in 1 .. n PROVE Has(r, q[i].item) \/ q[i].item = Head(q).item
    BY <1>1, <1>4, <2>1
  <2>4. ASSUME NEW i \in 1 .. n - 1 PROVE Has(q, r[i].item)
    BY <1>3, <2>2
  <2>5. Has(q, Head(q).item)
    BY <1>1, <1>5, <2>2
  <2>. QED BY <2>1, <2>2, <2>3, <2>4, <2>5, Zenon
<1>7. Distinct(q) => Distinct(r) /\ ~Has(r, Head(q).item)
  <2> SUFFICES ASSUME Distinct(q) PROVE Distinct(r) /\ ~Has(r, Head(q).item)
    OBVIOUS
  <2>1. ~Has(r, Head(q).item)
    <3>1. \A i \in 1 .. n : q[i].item = q[1].item => i = 1
      BY <1>2, <1>5 DEF Distinct
    <3>2. \A i \in 1 .. n - 1 : r[i].item # q[1].item
      BY <1>3, <3>1
    <3>. QED BY <1>1, <1>2, <3>2 DEF Has
  <2>2. ASSUME NEW i \in 1 .. n - 1, NEW j \in 1 .. n - 1, r[i].item = r[j].item
        PROVE  i = j
    <3>0. /\ i + 1 \in DOMAIN q /\ j + 1 \in DOMAIN q
          /\ q[i + 1].item = q[j + 1].item
      BY <1>2, <1>3, <2>2, Zenon
    <3>1. i + 1 = j + 1
      BY <3>0, Zenon DEF Distinct
    <3>. QED BY <3>1
  <2>. QED BY <1>2, <2>1, <2>2, Zenon DEF Distinct
<1>8. Head(q).item \in TCBs /\ Head(q).key \in 0 .. IntMax
  BY <1>1 DEF ThreadElements
<1>. QED BY <1>1, <1>6, <1>7, <1>8, Zenon DEF r, SortedPop

(* An insertion into one of the ready lists, *)
LEMMA ListsInsert ==
  ASSUME NEW lists \in ThreadLists, NEW i \in Queues, NEW t \in TCBs, NEW k \in 0 .. IntMax
  PROVE  LET after == PutBack(lists, i, t, k)
         IN  /\ after \in ThreadLists
             /\ \A u \in TCBs : On(after, u) <=> On(lists, u) \/ u = t
             /\ Once(lists) /\ ~On(lists, t) => Once(after)
<1> DEFINE r == SortedInsert(lists[i], t, k)
           after == PutBack(lists, i, t, k)
<1>1. lists[i] \in Seq(ThreadElements)
  BY DEF ThreadLists
<1>2. /\ r \in Seq(ThreadElements)
      /\ \A u : Has(r, u) <=> Has(lists[i], u) \/ u = t
      /\ Distinct(lists[i]) /\ ~Has(lists[i], t) => Distinct(r)
  BY <1>1, InsertItems
<1> HIDE DEF r
<1>3. /\ after \in ThreadLists /\ after[i] = r
      /\ \A j \in Queues : j # i => after[j] = lists[j]
  BY <1>2 DEF ThreadLists, r, PutBack
<1> HIDE DEF after
<1>4. \A u : Has(after[i], u) <=> Has(lists[i], u) \/ u = t
  BY <1>2, <1>3
<1>5. \A j \in Queues, u \in TCBs : j # i => (Has(after[j], u) <=> Has(lists[j], u))
  BY <1>3
<1>6. \A u \in TCBs : On(after, u) <=> On(lists, u) \/ u = t
  BY <1>4, <1>5, Zenon DEF On
<1>7. Once(lists) /\ ~On(lists, t) => Once(after)
  <2> SUFFICES ASSUME Once(lists), ~On(lists, t) PROVE Once(after)
    OBVIOUS
  <2>1. Distinct(after[i])
    BY <1>2, <1>3 DEF Once, On
  <2>2. \A j \in Queues : j # i => Distinct(after[j])
    BY <1>3 DEF Once
  <2>3. \A j \in Queues : ~Has(lists[j], t)
    BY DEF On
  <2>4. ASSUME NEW j \in Queues, NEW l \in Queues, NEW u \in TCBs,
               Has(after[j], u), Has(after[l], u)
        PROVE  j = l
    <3>1. CASE u = t
      BY <1>5, <2>3, <2>4, <3>1, Zenon
    <3>2. CASE u # t
      <4>1. Has(lists[j], u) /\ Has(lists[l], u)
        BY <1>4, <1>5, <2>4, <3>2, Zenon
      <4>. QED BY <4>1, Zenon DEF Once
    <3>. QED BY <3>1, <3>2, Zenon
  <2>. QED BY <2>1, <2>2, <2>4, Zenon DEF Once
<1>. QED BY <1>3, <1>6, <1>7, Zenon DEF after

(* and the removal of a head. *)
LEMMA ListsPop ==
  ASSUME NEW lists \in ThreadLists, NEW i \in Queues, lists[i] # <<>>
  PROVE  LET head == Head(lists[i])
             after == [lists EXCEPT ![i] = SortedPop(@)]
         IN  /\ head.item \in TCBs /\ head.key \in 0 .. IntMax
             /\ after \in ThreadLists
             /\ \A u \in TCBs : On(lists, u) <=> On(after, u) \/ u = head.item
             /\ Once(lists) => Once(after) /\ ~On(after, head.item)
<1> DEFINE r == SortedPop(lists[i])
           h == Head(lists[i])
           after == [lists EXCEPT ![i] = SortedPop(@)]
<1>1. lists[i] \in Seq(ThreadElements)
  BY DEF ThreadLists
<1>2. /\ h.item \in TCBs /\ h.key \in 0 .. IntMax
      /\ r \in Seq(ThreadElements)
      /\ \A u : Has(lists[i], u) <=> Has(r, u) \/ u = h.item
      /\ Distinct(lists[i]) => Distinct(r) /\ ~Has(r, h.item)
  BY <1>1, PopItems
<1> HIDE DEF r, h
<1>3. /\ after \in ThreadLists /\ after[i] = r
      /\ \A j \in Queues : j # i => after[j] = lists[j]
  BY <1>2 DEF ThreadLists, r
<1> HIDE DEF after
<1>4. \A u : Has(lists[i], u) <=> Has(after[i], u) \/ u = h.item
  BY <1>2, <1>3
<1>5. \A j \in Queues, u \in TCBs : j # i => (Has(after[j], u) <=> Has(lists[j], u))
  BY <1>3
<1>6. \A u \in TCBs : On(lists, u) <=> On(after, u) \/ u = h.item
  BY <1>4, <1>5, Zenon DEF On
<1>7. Once(lists) => Once(after) /\ ~On(after, h.item)
  <2> SUFFICES ASSUME Once(lists) PROVE Once(after) /\ ~On(after, h.item)
    OBVIOUS
  <2>1. Distinct(after[i]) /\ ~Has(after[i], h.item)
    BY <1>2, <1>3 DEF Once
  <2>2. \A j \in Queues : j # i => Distinct(after[j])
    BY <1>3 DEF Once
  <2>3. ASSUME NEW j \in Queues, NEW l \in Queues, NEW u \in TCBs,
               Has(after[j], u), Has(after[l], u)
        PROVE  j = l
    BY <1>4, <1>5, <2>3, Zenon DEF Once
  <2>4. \A j \in Queues : j # i => ~Has(after[j], h.item)
    BY <1>2, <1>4, <1>5, Zenon DEF Once
  <2>. QED BY <2>1, <2>2, <2>3, <2>4, Zenon DEF Once, On
<1>. QED BY <1>2, <1>3, <1>6, <1>7, Zenon DEF after, h

(* The scan of the lists, part of the way: the thread that is kept is not  *)
(* on the lists.                                                           *)
Scanned(s) ==
  /\ s \in [lists : ThreadLists, thread : TCBs \cup {NULL}, best : -1 .. IntMax,
            queue : Queues]
  /\ s.thread = NULL <=> s.best = -1
  /\ Once(s.lists)
  /\ ~On(s.lists, s.thread)

(* The threads the scan still knows. *)
Known(s, t) == On(s.lists, t) \/ s.thread = t

(* A turn of the scan loses nobody and duplicates nobody, and keeps a      *)
(* thread if the list has one.                                             *)
LEMMA TurnFacts ==
  ASSUME NEW s, Scanned(s), NEW i \in Queues
  PROVE  LET n == Turn(s, i)
         IN  /\ Scanned(n)
             /\ \A t \in TCBs : Known(n, t) <=> Known(s, t)
             /\ s.thread # NULL \/ s.lists[i] # <<>> => n.thread # NULL
             /\ s.lists[i] = <<>> => n = s
<1> DEFINE head == Head(s.lists[i])
           popped == [s.lists EXCEPT ![i] = SortedPop(@)]
           n == Turn(s, i)
<1>0. /\ s.lists \in ThreadLists /\ s.thread \in TCBs \cup {NULL}
      /\ s.best \in -1 .. IntMax /\ s.queue \in Queues
      /\ Once(s.lists) /\ ~On(s.lists, s.thread)
      /\ s.thread = NULL <=> s.best = -1
  BY DEF Scanned
<1>1. CASE s.lists[i] = <<>>
  <2>1. n = s
    BY <1>1 DEF Turn
  <2>. QED BY <1>1, <2>1
<1>2. CASE s.lists[i] # <<>>
  <2>1. /\ head.item \in TCBs /\ head.key \in 0 .. IntMax
        /\ popped \in ThreadLists
        /\ \A u \in TCBs : On(s.lists, u) <=> On(popped, u) \/ u = head.item
        /\ Once(popped) /\ ~On(popped, head.item)
    BY <1>0, <1>2, ListsPop, Zenon
  <2>2. n = IF head.key > s.best
            THEN [lists  |-> IF s.best = -1 THEN popped
                             ELSE PutBack(popped, s.queue, s.thread, s.best),
                  thread |-> head.item, best |-> head.key, queue |-> i]
            ELSE [s EXCEPT !.lists = PutBack(popped, i, head.item, head.key)]
    BY <1>2 DEF Turn
  <2>3. NULL \notin TCBs /\ IntMax \in Nat
    BY SchedulerConstants
  <2> HIDE DEF head, popped, n
  <2>4. CASE head.key > s.best /\ s.best = -1
    <3>1. n = [lists |-> popped, thread |-> head.item, best |-> head.key, queue |-> i]
      BY <2>2, <2>4
    <3>2. n.lists = popped /\ n.thread = head.item /\ n.best = head.key /\ s.thread = NULL
      BY <1>0, <2>4, <3>1
    <3>3. Scanned(n)
      BY <2>1, <2>3, <3>1 DEF Scanned
    <3>4. \A t \in TCBs : Known(n, t) <=> Known(s, t)
      BY <2>1, <2>3, <3>2 DEF Known
    <3>. QED BY <1>2, <2>1, <2>3, <3>2, <3>3, <3>4 DEF n
  <2>5. CASE head.key > s.best /\ s.best # -1
    <3> DEFINE back == PutBack(popped, s.queue, s.thread, s.best)
    <3>1. n = [lists |-> back, thread |-> head.item, best |-> head.key, queue |-> i]
      BY <2>2, <2>5
    <3>2. s.thread \in TCBs /\ s.best \in 0 .. IntMax /\ ~On(popped, s.thread)
          /\ s.thread # head.item
      BY <1>0, <2>1, <2>3, <2>5
    <3>3. /\ back \in ThreadLists
          /\ \A u \in TCBs : On(back, u) <=> On(popped, u) \/ u = s.thread
          /\ Once(back)
      BY <1>0, <2>1, <3>2, ListsInsert
    <3> HIDE DEF back
    <3>4. n.lists = back /\ n.thread = head.item /\ n.best = head.key
      BY <3>1
    <3>5. Scanned(n)
      BY <2>1, <2>3, <3>1, <3>2, <3>3 DEF Scanned
    <3>6. \A t \in TCBs : Known(n, t) <=> Known(s, t)
      BY <2>1, <3>3, <3>4 DEF Known
    <3>. QED BY <1>2, <2>1, <2>3, <3>4, <3>5, <3>6 DEF n
  <2>6. CASE ~(head.key > s.best)
    <3> DEFINE back == PutBack(popped, i, head.item, head.key)
    <3>1. n = [s EXCEPT !.lists = back]
      BY <2>2, <2>6
    <3>2. s.best # -1 /\ s.thread \in TCBs
      BY <1>0, <2>1, <2>3, <2>6
    <3>3. /\ back \in ThreadLists
          /\ \A u \in TCBs : On(back, u) <=> On(popped, u) \/ u = head.item
          /\ Once(back)
      BY <2>1, ListsInsert
    <3> HIDE DEF back
    <3>4. n.lists = back /\ n.thread = s.thread /\ n.best = s.best
      BY <3>1 DEF Scanned
    <3>5. \A u \in TCBs : On(back, u) <=> On(s.lists, u)
      BY <2>1, <3>3
    <3>6. Scanned(n)
      BY <1>0, <3>1, <3>2, <3>3, <3>4, <3>5 DEF Scanned
    <3>7. \A t \in TCBs : Known(n, t) <=> Known(s, t)
      BY <3>4, <3>5 DEF Known
    <3>. QED BY <1>2, <2>3, <3>2, <3>4, <3>6, <3>7 DEF n
  <2>. QED BY <2>4, <2>5, <2>6, Zenon DEF n
<1>. QED BY <1>1, <1>2, Zenon

(* FindNextToRun returns a thread if there is one on the lists, and takes  *)
(* that thread and no other off them.                                      *)
LEMMA FindFacts ==
  ASSUME NEW lists \in ThreadLists, Once(lists)
  PROVE  LET f == FindNextToRun(lists)
         IN  /\ f.lists \in ThreadLists /\ Once(f.lists)
             /\ f.thread \in TCBs \cup {NULL}
             /\ ~On(f.lists, f.thread)
             /\ \A t \in TCBs : On(lists, t) <=> On(f.lists, t) \/ f.thread = t
             /\ f.thread = NULL => \A t \in TCBs : ~On(lists, t)
<1> DEFINE s == [lists |-> lists, thread |-> NULL, best |-> -1, queue |-> 0]
           a == Turn(s, 0)
           f == Turn(a, 1)
<1>1. 0 \in Queues /\ 1 \in Queues /\ \A i \in Queues : i = 0 \/ i = 1
  BY DEF Queues, AMOUNT_OF_LISTS
<1>2. ~On(lists, NULL)
  <2>1. \A i \in Queues : \A n \in DOMAIN lists[i] : lists[i][n].item \in TCBs
    <3> TAKE i \in Queues
    <3>1. lists[i] \in Seq(ThreadElements)
      BY DEF ThreadLists
    <3>2. \A n \in DOMAIN lists[i] : lists[i][n] \in ThreadElements
      BY <3>1, SeqLen
    <3>. QED BY <3>2 DEF ThreadElements
  <2>. QED BY <2>1, SchedulerConstants DEF On, Has
<1>3. Scanned(s)
  BY <1>1, <1>2, SchedulerConstants DEF Scanned
<1>4. s.lists = lists /\ s.thread = NULL
  OBVIOUS
<1> HIDE DEF s
<1>5. /\ Scanned(a)
      /\ \A t \in TCBs : Known(a, t) <=> Known(s, t)
      /\ s.lists[0] # <<>> => a.thread # NULL
      /\ s.lists[0] = <<>> => a = s
  BY <1>1, <1>3, TurnFacts
<1> HIDE DEF a
<1>6. /\ Scanned(f)
      /\ \A t \in TCBs : Known(f, t) <=> Known(a, t)
      /\ a.thread # NULL \/ a.lists[1] # <<>> => f.thread # NULL
  BY <1>1, <1>5, TurnFacts
<1> HIDE DEF f
<1>7. f = FindNextToRun(lists)
  BY DEF f, a, s, FindNextToRun
<1>8. \A t \in TCBs : On(lists, t) <=> On(f.lists, t) \/ f.thread = t
  BY <1>4, <1>5, <1>6, SchedulerConstants DEF Known
<1>9. f.thread = NULL => \A t \in TCBs : ~On(lists, t)
  <2> SUFFICES ASSUME f.thread = NULL PROVE \A t \in TCBs : ~On(lists, t)
    OBVIOUS
  <2>1. lists[0] = <<>> /\ lists[1] = <<>>
    BY <1>4, <1>5, <1>6
  <2>. QED BY <1>1, <2>1 DEF On, Has
<1>10. /\ f.lists \in ThreadLists /\ Once(f.lists)
       /\ f.thread \in TCBs \cup {NULL} /\ ~On(f.lists, f.thread)
  BY <1>6 DEF Scanned
<1>. QED BY <1>7, <1>8, <1>9, <1>10, Zenon

(* Scheduler::Run to a thread that is neither the carcass nor deleted. *)
LEMMA RunFacts ==
  ASSUME NEW next \in TCBs, NEW carcass \in TCBs \cup {NULL}, Run(next, carcass),
         destroyed \subseteq TCBs, started \subseteq TCBs,
         next # carcass, next \notin destroyed, carcass \notin destroyed
  PROVE  /\ currentThread' = next
         /\ started' \subseteq TCBs
         /\ destroyed' \subseteq TCBs
         /\ threadToBeDestroyed' \in {carcass, NULL}
         /\ \A t \in destroyed' : /\ t \in destroyed \/ t = carcass
                                  /\ t # threadToBeDestroyed' /\ t # next
BY SchedulerConstants DEF Run

(* The step gives the CPU to the thread FindNextToRun took off the lists,  *)
(* with the statuses st before, and leaves nobody behind.                  *)
LEMMA DispatchFacts ==
  ASSUME NEW lists, NEW st \in [TCBs -> Statuses], ListsAreReady(lists, st)
  PROVE  LET f == FindNextToRun(lists)
         IN  /\ f.thread \in TCBs \cup {NULL}
             /\ f.thread # NULL =>
                  /\ st[f.thread] = "READY"
                  /\ ListsAreReady(f.lists, [st EXCEPT ![f.thread] = "RUNNING"])
             /\ f.thread = NULL => ListsAreReady(f.lists, st)
             /\ ~On(f.lists, f.thread)
             /\ \A t \in TCBs : On(lists, t) <=> On(f.lists, t) \/ f.thread = t
<1> DEFINE f == FindNextToRun(lists)
<1>1. /\ f.lists \in ThreadLists /\ Once(f.lists)
      /\ f.thread \in TCBs \cup {NULL}
      /\ ~On(f.lists, f.thread)
      /\ \A t \in TCBs : On(lists, t) <=> On(f.lists, t) \/ f.thread = t
  BY FindFacts DEF ListsAreReady
<1> HIDE DEF f
<1>2. \A t \in TCBs : On(f.lists, t) => st[t] = "READY" /\ t # f.thread
  BY <1>1 DEF ListsAreReady
<1>3. f.thread # NULL => st[f.thread] = "READY"
  BY <1>1 DEF ListsAreReady
<1>4. f.thread # NULL =>
        \A t \in TCBs : On(f.lists, t) => [st EXCEPT ![f.thread] = "RUNNING"][t] = "READY"
  BY <1>1, <1>2
<1>. QED BY <1>1, <1>2, <1>3, <1>4, Zenon DEF f, ListsAreReady

(* Making a BLOCKED or a new thread READY. *)
LEMMA ReadyFacts ==
  ASSUME NEW lists, NEW st \in [TCBs -> Statuses], ListsAreReady(lists, st),
         NEW t \in TCBs, st[t] # "READY", NEW i \in Queues
  PROVE  LET after == Insert(lists, t, i)
         IN  /\ ListsAreReady(after, [st EXCEPT ![t] = "READY"])
             /\ \A u \in TCBs : On(after, u) <=> On(lists, u) \/ u = t
<1> DEFINE after == Insert(lists, t, i)
<1>1. IntMax - Priority[t] \in 0 .. IntMax
  BY SchedulerConstants
<1>2. ~On(lists, t) /\ lists \in ThreadLists /\ Once(lists)
  BY DEF ListsAreReady
<1>3. after = PutBack(lists, i, t, IntMax - Priority[t])
  BY DEF Insert, PutBack
<1>4. /\ after \in ThreadLists /\ Once(after)
      /\ \A u \in TCBs : On(after, u) <=> On(lists, u) \/ u = t
  BY <1>1, <1>2, <1>3, ListsInsert
<1> HIDE DEF after
<1>5. \A u \in TCBs : On(after, u) => [st EXCEPT ![t] = "READY"][u] = "READY"
  BY <1>4 DEF ListsAreReady
<1>. QED BY <1>4, <1>5, Zenon DEF after, ListsAreReady

(* The statuses of a step that goes to sleep: t is BLOCKED, and the others *)
(* keep their status but for the one that gets the CPU.                    *)
LEMMA SleepFacts ==
  ASSUME SchedulerTypes, NEW t \in TCBs, NEW lists, NEW st \in [TCBs -> Statuses],
         ListsAreReady(lists, st), st[t] # "READY",
         NEW carcass \in TCBs \cup {NULL}, carcass \notin destroyed,
         carcass # NULL => st[carcass] # "READY",
         \A u \in destroyed : st[u] # "READY" /\ u # currentThread,
         NEW on \in BOOLEAN, currentThread = t, ~idle, ~halted,
         Sleep(t, lists, st, carcass, on)
  PROVE  /\ currentThread' \in TCBs /\ idle' \in BOOLEAN /\ halted' \in BOOLEAN
         /\ status' \in [TCBs -> Statuses]
         /\ preassignedQueue' \in [TCBs -> Queues]
         /\ started' \subseteq TCBs
         /\ threadToBeDestroyed' \in {carcass, NULL}
         /\ destroyed' \subseteq TCBs
         /\ ListsAreReady(readyList', status')
         /\ ~idle' /\ ~halted' => status'[currentThread'] = "RUNNING"
         /\ status'[t] = "BLOCKED"
         /\ \A u \in TCBs : st[u] = "BLOCKED" => status'[u] = "BLOCKED"
         /\ \A u \in TCBs : status'[u] = "READY" => st[u] = "READY"
         /\ \A u \in TCBs : On(lists, u) => On(readyList', u) \/ status'[u] # "READY"
         /\ \A u \in destroyed' : /\ u \in destroyed \/ u = carcass
                                  /\ u # threadToBeDestroyed' /\ u # currentThread'
<1> DEFINE f == FindNextToRun(lists)
           blocked == [st EXCEPT ![t] = "BLOCKED"]
<1>1. blocked \in [TCBs -> Statuses] /\ blocked[t] = "BLOCKED"
      /\ \A u \in TCBs : u # t => blocked[u] = st[u]
  BY DEF Statuses
<1>2. preassignedQueue' \in [TCBs -> Queues] /\ readyList' = f.lists
  BY DEF Sleep, SchedulerTypes, Queues, AMOUNT_OF_LISTS
<1>3. IF f.thread = NULL
      THEN /\ idle' = ~on /\ halted' = on /\ status' = blocked
           /\ threadToBeDestroyed' = carcass
           /\ UNCHANGED <<currentThread, started, destroyed>>
      ELSE /\ status' = [blocked EXCEPT ![f.thread] = "RUNNING"]
           /\ Run(f.thread, carcass)
           /\ UNCHANGED <<idle, halted>>
  BY Zenon DEF Sleep
<1> HIDE DEF blocked
<1>4. ListsAreReady(lists, blocked)
  BY <1>1 DEF ListsAreReady
<1>5. /\ f.thread \in TCBs \cup {NULL}
      /\ f.thread # NULL =>
           /\ blocked[f.thread] = "READY"
           /\ ListsAreReady(f.lists, [blocked EXCEPT ![f.thread] = "RUNNING"])
      /\ f.thread = NULL => ListsAreReady(f.lists, blocked)
      /\ \A u \in TCBs : On(lists, u) <=> On(f.lists, u) \/ f.thread = u
  BY <1>1, <1>4, DispatchFacts, Zenon
<1> HIDE DEF f
<1>6. CASE f.thread = NULL
  <2>1. /\ idle' = ~on /\ halted' = on /\ status' = blocked
        /\ threadToBeDestroyed' = carcass
        /\ currentThread' = currentThread /\ started' = started /\ destroyed' = destroyed
    BY <1>3, <1>6
  <2>2. \A u \in TCBs : On(lists, u) => On(readyList', u)
    BY <1>2, <1>5, <1>6, SchedulerConstants
  <2>3. ListsAreReady(readyList', status')
    BY <1>2, <1>5, <1>6, <2>1, Zenon
  <2>. QED BY <1>1, <1>2, <2>1, <2>2, <2>3, Zenon DEF SchedulerTypes
<1>7. CASE f.thread # NULL
  <2>1. /\ status' = [blocked EXCEPT ![f.thread] = "RUNNING"]
        /\ Run(f.thread, carcass)
        /\ idle' = idle /\ halted' = halted
    BY <1>3, <1>7, Zenon
  <2>2. f.thread \in TCBs /\ f.thread # t /\ st[f.thread] = "READY"
    BY <1>1, <1>5, <1>7, Zenon
  <2>3. f.thread # carcass /\ f.thread \notin destroyed
    BY <2>2, SchedulerConstants, Zenon
  <2>4. /\ currentThread' = f.thread
        /\ started' \subseteq TCBs
        /\ destroyed' \subseteq TCBs
        /\ threadToBeDestroyed' \in {carcass, NULL}
        /\ \A u \in destroyed' : /\ u \in destroyed \/ u = carcass
                                 /\ u # threadToBeDestroyed' /\ u # f.thread
    BY <2>1, <2>2, <2>3, RunFacts, Zenon DEF SchedulerTypes
  <2>5. /\ status' \in [TCBs -> Statuses]
        /\ status'[f.thread] = "RUNNING"
        /\ \A u \in TCBs : u # f.thread => status'[u] = blocked[u]
    BY <1>1, <2>1, <2>2 DEF Statuses
  <2>6. ListsAreReady(readyList', status')
    BY <1>2, <1>5, <1>7, <2>1, Zenon
  <2>7. \A u \in TCBs : On(lists, u) => On(readyList', u) \/ status'[u] # "READY"
    BY <1>2, <1>5, <2>5, Zenon
  <2>8. /\ status'[t] = "BLOCKED"
        /\ \A u \in TCBs : st[u] = "BLOCKED" => status'[u] = "BLOCKED"
        /\ \A u \in TCBs : status'[u] = "READY" => st[u] = "READY"
    BY <1>1, <2>2, <2>5
  <2>. QED BY <1>2, <2>1, <2>2, <2>4, <2>5, <2>6, <2>7, <2>8, Zenon DEF SchedulerTypes
<1>. QED BY <1>6, <1>7, Zenon

-----------------------------------------------------------------------------

(* The step takes no READY thread off the lists. *)
NobodyIsDropped ==
  \A u \in TCBs : status'[u] = "READY" /\ ~On(readyList', u)
                    => status[u] = "READY" /\ ~On(readyList, u)

LEMMA SchedulerStarts == SchedulerInit => SchedulerInv
<1> SUFFICES ASSUME SchedulerInit PROVE SchedulerInv
  OBVIOUS
<1> USE DEF SchedulerInit
<1>1. SchedulerTypes
  <2>1. /\ currentThread \in TCBs /\ started \subseteq TCBs /\ destroyed \subseteq TCBs
        /\ threadToBeDestroyed \in TCBs \cup {NULL}
        /\ joining \in [TCBs -> TCBs \cup {NULL}]
    BY SchedulerConstants
  <2>2. /\ status \in [TCBs -> Statuses]
        /\ doing \in [TCBs -> Doings]
    BY DEF Statuses, Doings
  <2>3. preassignedQueue \in [TCBs -> Queues]
    BY DEF Queues, AMOUNT_OF_LISTS
  <2>4. idle \in BOOLEAN /\ halted \in BOOLEAN /\ buzon \in [TCBs -> BOOLEAN]
    BY Zenon
  <2>. QED BY <2>1, <2>2, <2>3, <2>4, Zenon DEF SchedulerTypes
<1>2. \A i \in Queues : readyList[i] = <<>> /\ \A t : ~Has(readyList[i], t)
  BY DEF Has
<1>3. readyList \in ThreadLists
  BY SeqEmpty DEF ThreadLists
<1>4. Once(readyList)
  BY <1>2 DEF Once, Distinct
<1>5. \A t \in TCBs : ~On(readyList, t)
  BY <1>2 DEF On
<1>6. WaitersAreBlocked /\ CPUIsRunning /\ CarcassIsFinished /\ Gone
  BY SchedulerConstants DEF WaitersAreBlocked, CPUIsRunning, CarcassIsFinished, Gone
<1>. QED BY <1>1, <1>3, <1>4, <1>5, <1>6, Zenon DEF SchedulerInv, ListsAreReady

(* The thread that takes a step is RUNNING, and the carcass and the        *)
(* deleted threads are BLOCKED.                                            *)
LEMMA ExecutingThread ==
  ASSUME SchedulerInv, NEW t \in TCBs, NEW at, Executes(t, at)
  PROVE  /\ currentThread = t /\ ~idle /\ ~halted
         /\ status[t] = "RUNNING" /\ t # threadToBeDestroyed
         /\ t \notin destroyed /\ doing[t] = at /\ ~buzon[t]
         /\ doing[t] # "finished" /\ doing[t] # "asleep"
BY SchedulerConstants
   DEF SchedulerInv, CPUIsRunning, Executes, Gone, CarcassIsFinished,
       WaitersAreBlocked, SchedulerTypes

LEMMA GoneAreBlocked ==
  ASSUME SchedulerInv
  PROVE  /\ \A u \in destroyed : u \in TCBs /\ status[u] = "BLOCKED"
         /\ threadToBeDestroyed # NULL => status[threadToBeDestroyed] = "BLOCKED"
         /\ threadToBeDestroyed \notin destroyed
BY SchedulerConstants
   DEF SchedulerInv, Gone, CarcassIsFinished, WaitersAreBlocked, SchedulerTypes

(* The lists and the statuses of a step, at the Sleep it ends with. *)
Consistent(lists, st) ==
  /\ st \in [TCBs -> Statuses]
  /\ ListsAreReady(lists, st)
  /\ \A u \in TCBs : doing[u] \in {"asleep", "finished"} \/ buzon[u]
                       => st[u] = "BLOCKED"

(* The thread goes on to what it does next. *)
Goes(t, to) ==
  /\ to \in Doings
  /\ doing' = [doing EXCEPT ![t] = to]
  /\ joining' \in [TCBs -> TCBs \cup {NULL}] /\ buzon' \in [TCBs -> BOOLEAN]
  /\ \A u \in TCBs : u # t => joining'[u] = joining[u] /\ buzon'[u] = buzon[u]
  /\ buzon'[t] => to = "sending"
  /\ joining'[t] # NULL <=> to \in {"receiving", "received"}

(* A step that ends in Sleep, with the lists and the statuses it has made. *)
LEMMA AfterSleep ==
  ASSUME SchedulerInv, NEW t \in TCBs, NEW at, Executes(t, at),
         NEW lists, NEW st, Consistent(lists, st), st[t] = "RUNNING",
         NEW to, Goes(t, to),
         NEW carcass,
         carcass = threadToBeDestroyed \/ (carcass = t /\ to = "finished"),
         NEW on \in BOOLEAN, Sleep(t, lists, st, carcass, on)
  PROVE  /\ SchedulerInv'
         /\ \A u \in TCBs : status'[u] = "READY" => st[u] = "READY"
         /\ \A u \in TCBs : On(lists, u) => On(readyList', u) \/ status'[u] # "READY"
<1>0. /\ SchedulerTypes
      /\ currentThread = t /\ ~idle /\ ~halted /\ t \notin destroyed
      /\ doing[t] # "finished"
  BY ExecutingThread, Zenon DEF SchedulerInv
<1> USE DEF Consistent, Goes
<1>1. /\ carcass \in TCBs \cup {NULL} /\ carcass \notin destroyed
      /\ carcass # NULL => st[carcass] # "READY"
      /\ \A u \in destroyed : st[u] # "READY" /\ u # currentThread
  BY <1>0, GoneAreBlocked, Zenon DEF SchedulerInv, SchedulerTypes, Gone, CarcassIsFinished
<1>2. /\ currentThread' \in TCBs /\ idle' \in BOOLEAN /\ halted' \in BOOLEAN
      /\ status' \in [TCBs -> Statuses]
      /\ preassignedQueue' \in [TCBs -> Queues]
      /\ started' \subseteq TCBs
      /\ threadToBeDestroyed' \in {carcass, NULL}
      /\ destroyed' \subseteq TCBs
      /\ ListsAreReady(readyList', status')
      /\ ~idle' /\ ~halted' => status'[currentThread'] = "RUNNING"
      /\ status'[t] = "BLOCKED"
      /\ \A u \in TCBs : st[u] = "BLOCKED" => status'[u] = "BLOCKED"
      /\ \A u \in TCBs : status'[u] = "READY" => st[u] = "READY"
      /\ \A u \in TCBs : On(lists, u) => On(readyList', u) \/ status'[u] # "READY"
      /\ \A u \in destroyed' : /\ u \in destroyed \/ u = carcass
                               /\ u # threadToBeDestroyed' /\ u # currentThread'
  <2>1. st[t] # "READY"
    BY Zenon
  <2>2. st \in [TCBs -> Statuses] /\ ListsAreReady(lists, st)
    BY Zenon
  <2> HIDE DEF Consistent, Goes
  <2>. QED BY <1>0, <1>1, <2>1, <2>2, SleepFacts
<1>3. /\ doing' \in [TCBs -> Doings] /\ doing'[t] = to
      /\ \A u \in TCBs : u # t => doing'[u] = doing[u]
  BY <1>0 DEF SchedulerTypes
<1>4. SchedulerTypes'
  BY <1>1, <1>2, <1>3, ZenonT(30) DEF SchedulerTypes
<1>5. WaitersAreBlocked'
  <2> SUFFICES ASSUME NEW u \in TCBs
      PROVE /\ doing'[u] \in {"asleep", "finished"} \/ buzon'[u] => status'[u] = "BLOCKED"
            /\ buzon'[u] => doing'[u] = "sending"
            /\ joining'[u] # NULL <=> doing'[u] \in {"receiving", "received"}
    BY Zenon DEF WaitersAreBlocked
  <2>1. CASE u = t
    BY <1>2, <1>3, <2>1, Zenon
  <2>2. CASE u # t
    <3>1. /\ doing'[u] = doing[u] /\ joining'[u] = joining[u] /\ buzon'[u] = buzon[u]
          /\ doing[u] \in {"asleep", "finished"} \/ buzon[u] => status'[u] = "BLOCKED"
      BY <1>2, <1>3, <2>2, Zenon
    <3>2. /\ buzon[u] => doing[u] = "sending"
          /\ joining[u] # NULL <=> doing[u] \in {"receiving", "received"}
      BY Zenon DEF SchedulerInv, WaitersAreBlocked
    <3>. QED BY <3>1, <3>2, Zenon
  <2>. QED BY <2>1, <2>2, Zenon
<1>6. carcass # NULL => doing'[carcass] = "finished"
  BY <1>0, <1>1, <1>3, Zenon DEF SchedulerInv, CarcassIsFinished
<1>7. CarcassIsFinished'
  BY <1>2, <1>6, Zenon DEF CarcassIsFinished
<1>8. \A u \in destroyed : doing'[u] = "finished"
  BY <1>0, <1>3, Zenon DEF SchedulerInv, Gone, SchedulerTypes
<1>9. \A u \in destroyed' : doing'[u] = "finished"
  <2> SUFFICES ASSUME NEW u \in destroyed' PROVE doing'[u] = "finished"
    BY Zenon
  <2>1. u \in TCBs /\ (u \in destroyed \/ u = carcass)
    BY <1>2, Zenon
  <2>. QED BY <1>6, <1>8, <2>1, SchedulerConstants, ZenonT(30)
<1>10. Gone'
  BY <1>2, <1>9, Zenon DEF Gone
<1>11. CPUIsRunning'
  BY <1>2, Zenon DEF CPUIsRunning
<1>12. ListsAreReady(readyList, status)'
  BY <1>2, Zenon
<1>. QED BY <1>2, <1>4, <1>5, <1>7, <1>10, <1>11, <1>12, Zenon DEF SchedulerInv

(* A thread that slept or was just created becomes READY, by the step of   *)
(* whoever has the CPU.                                                    *)
LEMMA AfterReady ==
  ASSUME SchedulerInv, NEW u \in TCBs,
         status[u] \in {"BLOCKED", "JUST_CREATED"},
         status' = [status EXCEPT ![u] = "READY"],
         readyList' = Insert(readyList, u, preassignedQueue[u]),
         UNCHANGED <<currentThread, idle, halted, preassignedQueue, started,
                     threadToBeDestroyed, destroyed>>
  PROVE  /\ status' \in [TCBs -> Statuses]
         /\ status'[u] = "READY"
         /\ \A v \in TCBs : v # u => status'[v] = status[v]
         /\ ListsAreReady(readyList, status)'
         /\ CPUIsRunning'
         /\ NobodyIsDropped
<1>1. preassignedQueue[u] \in Queues /\ status \in [TCBs -> Statuses]
      /\ status[u] # "READY" /\ ListsAreReady(readyList, status)
  BY DEF SchedulerInv, SchedulerTypes
<1>2. /\ ListsAreReady(readyList', status')
      /\ \A v \in TCBs : On(readyList', v) <=> On(readyList, v) \/ v = u
  BY <1>1, ReadyFacts, Zenon
<1>3. /\ status' \in [TCBs -> Statuses]
      /\ status'[u] = "READY"
      /\ \A v \in TCBs : v # u => status'[v] = status[v]
  BY <1>1 DEF Statuses
<1>4. NobodyIsDropped
  BY <1>2, <1>3, Zenon DEF NobodyIsDropped
<1>5. CPUIsRunning'
  BY <1>3, Zenon DEF SchedulerInv, CPUIsRunning, SchedulerTypes
<1>. QED BY <1>2, <1>3, <1>4, <1>5, Zenon

(* Thread::Yield, from the lists given. *)
LEMMA AfterYield ==
  ASSUME SchedulerInv, NEW t \in TCBs, NEW at, Executes(t, at),
         NEW lists, ListsAreReady(lists, status), YieldFrom(t, lists)
  PROVE  /\ currentThread' \in TCBs /\ idle' \in BOOLEAN /\ halted' \in BOOLEAN
         /\ status' \in [TCBs -> Statuses]
         /\ preassignedQueue' \in [TCBs -> Queues]
         /\ started' \subseteq TCBs
         /\ threadToBeDestroyed' \in {threadToBeDestroyed, NULL}
         /\ destroyed' \subseteq TCBs
         /\ ListsAreReady(readyList, status)'
         /\ CPUIsRunning'
         /\ \A u \in TCBs : status[u] = "BLOCKED" => status'[u] = "BLOCKED"
         /\ \A u \in TCBs : status'[u] = "READY" /\ ~On(readyList', u)
                              => status[u] = "READY" /\ ~On(lists, u)
         /\ \A u \in destroyed' : /\ u \in destroyed \/ u = threadToBeDestroyed
                                  /\ u # threadToBeDestroyed' /\ u # currentThread'
<1> DEFINE f == FindNextToRun(lists)
<1>0. /\ SchedulerTypes /\ Gone
      /\ currentThread = t /\ ~idle /\ ~halted /\ status[t] = "RUNNING"
  BY ExecutingThread, Zenon DEF SchedulerInv
<1>1. 1 \in Queues
  BY DEF Queues, AMOUNT_OF_LISTS
<1>2. preassignedQueue' \in [TCBs -> Queues] /\ idle' = idle /\ halted' = halted
  BY <1>0, <1>1 DEF YieldFrom, SchedulerTypes
<1>3. IF f.thread = NULL
      THEN /\ readyList' = f.lists
           /\ UNCHANGED <<currentThread, status, started, threadToBeDestroyed, destroyed>>
      ELSE /\ readyList' = Insert(f.lists, t, 1)
           /\ status' = [status EXCEPT ![t] = "READY", ![f.thread] = "RUNNING"]
           /\ Run(f.thread, threadToBeDestroyed)
  BY Zenon DEF YieldFrom
<1>4. status \in [TCBs -> Statuses]
  BY <1>0 DEF SchedulerTypes
<1>5. /\ f.thread \in TCBs \cup {NULL}
      /\ f.thread # NULL =>
           /\ status[f.thread] = "READY"
           /\ ListsAreReady(f.lists, [status EXCEPT ![f.thread] = "RUNNING"])
      /\ f.thread = NULL => ListsAreReady(f.lists, status)
      /\ ~On(f.lists, f.thread)
      /\ \A u \in TCBs : On(lists, u) <=> On(f.lists, u) \/ f.thread = u
  BY <1>4, DispatchFacts, Zenon
<1> HIDE DEF f
<1>6. CASE f.thread = NULL
  <2>1. /\ readyList' = f.lists /\ status' = status
        /\ currentThread' = currentThread /\ started' = started
        /\ threadToBeDestroyed' = threadToBeDestroyed /\ destroyed' = destroyed
    BY <1>3, <1>6
  <2>2. ListsAreReady(readyList', status') /\ CPUIsRunning'
    BY <1>0, <1>2, <1>5, <1>6, <2>1 DEF CPUIsRunning
  <2>3. \A u \in TCBs : On(lists, u) => On(readyList', u)
    BY <1>5, <1>6, <2>1, SchedulerConstants
  <2>4. \A u \in destroyed' : /\ u \in destroyed
                              /\ u # threadToBeDestroyed' /\ u # currentThread'
    BY <1>0, <2>1, Zenon DEF Gone
  <2>5. /\ currentThread' \in TCBs /\ idle' \in BOOLEAN /\ halted' \in BOOLEAN
        /\ status' \in [TCBs -> Statuses] /\ started' \subseteq TCBs
        /\ destroyed' \subseteq TCBs
    BY <1>0, <1>2, <2>1 DEF SchedulerTypes
  <2>6. \A u \in TCBs : status'[u] = status[u]
    BY <2>1
  <2>7. threadToBeDestroyed' \in {threadToBeDestroyed, NULL}
    BY <2>1
  <2>. QED BY <1>2, <2>2, <2>3, <2>4, <2>5, <2>6, <2>7, Zenon
<1>7. CASE f.thread # NULL
  <2> DEFINE running == [status EXCEPT ![f.thread] = "RUNNING"]
  <2>1. /\ readyList' = Insert(f.lists, t, 1)
        /\ status' = [status EXCEPT ![t] = "READY", ![f.thread] = "RUNNING"]
        /\ Run(f.thread, threadToBeDestroyed)
    BY <1>3, <1>7
  <2>2. f.thread \in TCBs /\ f.thread # t /\ status[f.thread] = "READY"
    BY <1>0, <1>5, <1>7
  <2>3. /\ f.thread # threadToBeDestroyed /\ f.thread \notin destroyed
        /\ threadToBeDestroyed \notin destroyed
    BY <2>2, GoneAreBlocked, SchedulerConstants, Zenon
  <2>4. /\ currentThread' = f.thread
        /\ started' \subseteq TCBs
        /\ destroyed' \subseteq TCBs
        /\ threadToBeDestroyed' \in {threadToBeDestroyed, NULL}
        /\ \A u \in destroyed' : /\ u \in destroyed \/ u = threadToBeDestroyed
                                 /\ u # threadToBeDestroyed' /\ u # f.thread
    BY <1>0, <2>1, <2>2, <2>3, RunFacts DEF SchedulerTypes
  <2>5. /\ running \in [TCBs -> Statuses] /\ running[t] = "RUNNING"
        /\ status' = [running EXCEPT ![t] = "READY"]
    BY <1>0, <1>4, <2>1, <2>2, Zenon DEF Statuses
  <2>6. /\ status' \in [TCBs -> Statuses]
        /\ status'[t] = "READY" /\ status'[f.thread] = "RUNNING"
        /\ \A u \in TCBs : u # t /\ u # f.thread => status'[u] = status[u]
    BY <1>4, <2>1, <2>2 DEF Statuses
  <2>7. ListsAreReady(f.lists, running)
    BY <1>5, <1>7
  <2> HIDE DEF running
  <2>8. /\ ListsAreReady(readyList', status')
        /\ \A u \in TCBs : On(readyList', u) <=> On(f.lists, u) \/ u = t
    <3>1. running[t] # "READY"
      BY <2>5
    <3>2. /\ ListsAreReady(Insert(f.lists, t, 1), [running EXCEPT ![t] = "READY"])
          /\ \A u \in TCBs : On(Insert(f.lists, t, 1), u) <=> On(f.lists, u) \/ u = t
      BY <1>1, <2>5, <2>7, <3>1, ReadyFacts, Zenon
    <3>3. readyList' = Insert(f.lists, t, 1) /\ status' = [running EXCEPT ![t] = "READY"]
      BY <2>1, <2>5, Zenon
    <3>. QED BY <3>2, <3>3
  <2>9. \A u \in TCBs : status[u] = "BLOCKED" => status'[u] = "BLOCKED"
    BY <1>0, <2>2, <2>6, Zenon
  <2>10. \A u \in TCBs : status'[u] = "READY" /\ ~On(readyList', u)
                           => status[u] = "READY" /\ ~On(lists, u)
    BY <1>5, <2>6, <2>8, Zenon
  <2>11. CPUIsRunning'
    BY <2>4, <2>6, Zenon DEF CPUIsRunning
  <2>12. idle' \in BOOLEAN /\ halted' \in BOOLEAN
    BY <1>0, <1>2 DEF SchedulerTypes
  <2>. QED BY <1>2, <2>2, <2>4, <2>6, <2>8, <2>9, <2>10, <2>11, <2>12, Zenon
<1>. QED BY <1>6, <1>7, Zenon

-----------------------------------------------------------------------------

(* The parts of the invariant about what the threads are doing, when no    *)
(* thread is nearer to its end.                                            *)
LEMMA SameDoings ==
  ASSUME SchedulerInv,
         status' \in [TCBs -> Statuses],
         currentThread' \in TCBs, idle' \in BOOLEAN, halted' \in BOOLEAN,
         preassignedQueue' \in [TCBs -> Queues], started' \subseteq TCBs,
         destroyed' \subseteq TCBs,
         threadToBeDestroyed' \in {threadToBeDestroyed, NULL},
         \A u \in destroyed' : /\ u \in destroyed \/ u = threadToBeDestroyed
                               /\ u # threadToBeDestroyed' /\ u # currentThread',
         doing' \in [TCBs -> Doings], joining' \in [TCBs -> TCBs \cup {NULL}],
         buzon' \in [TCBs -> BOOLEAN],
         \A u \in TCBs : doing[u] = "finished" => doing'[u] = "finished",
         \A u \in TCBs :
           /\ doing'[u] \in {"asleep", "finished"} \/ buzon'[u] => status'[u] = "BLOCKED"
           /\ buzon'[u] => doing'[u] = "sending"
           /\ joining'[u] # NULL <=> doing'[u] \in {"receiving", "received"},
         ListsAreReady(readyList, status)', CPUIsRunning'
  PROVE  SchedulerInv'
<1>1. SchedulerTypes'
  BY Zenon DEF SchedulerInv, SchedulerTypes
<1>2. WaitersAreBlocked'
  BY Zenon DEF WaitersAreBlocked
<1>3. CarcassIsFinished'
  BY SchedulerConstants, Zenon DEF SchedulerInv, SchedulerTypes, CarcassIsFinished
<1>4. \A u \in destroyed' : doing[u] = "finished" /\ u \in TCBs
  BY SchedulerConstants, Zenon DEF SchedulerInv, CarcassIsFinished, Gone
<1>5. Gone'
  BY <1>4, Zenon DEF Gone
<1>. QED BY <1>1, <1>2, <1>3, <1>5, Zenon DEF SchedulerInv

(* What the other lemmas need of the invariant before the step. *)
LEMMA BeforeStep ==
  ASSUME SchedulerInv
  PROVE  /\ currentThread \in TCBs /\ idle \in BOOLEAN /\ halted \in BOOLEAN
         /\ status \in [TCBs -> Statuses]
         /\ preassignedQueue \in [TCBs -> Queues] /\ started \subseteq TCBs
         /\ destroyed \subseteq TCBs
         /\ doing \in [TCBs -> Doings] /\ joining \in [TCBs -> TCBs \cup {NULL}]
         /\ buzon \in [TCBs -> BOOLEAN]
         /\ \A u \in destroyed : u # threadToBeDestroyed /\ u # currentThread
         /\ ListsAreReady(readyList, status)
         /\ \A u \in TCBs :
              /\ doing[u] \in {"asleep", "finished"} \/ buzon[u] => status[u] = "BLOCKED"
              /\ buzon[u] => doing[u] = "sending"
              /\ joining[u] # NULL <=> doing[u] \in {"receiving", "received"}
BY Zenon DEF SchedulerInv, SchedulerTypes, WaitersAreBlocked, Gone

(* A step that makes a thread READY and keeps the CPU. *)
LEMMA ReadyInv ==
  ASSUME SchedulerInv, NEW u \in TCBs,
         status[u] \in {"BLOCKED", "JUST_CREATED"},
         status' = [status EXCEPT ![u] = "READY"],
         readyList' = Insert(readyList, u, preassignedQueue[u]),
         UNCHANGED <<currentThread, idle, halted, preassignedQueue, started,
                     threadToBeDestroyed, destroyed>>,
         doing' \in [TCBs -> Doings], joining' \in [TCBs -> TCBs \cup {NULL}],
         buzon' \in [TCBs -> BOOLEAN],
         \A v \in TCBs : doing[v] = "finished" => doing'[v] = "finished",
         doing'[u] \notin {"asleep", "finished"}, ~buzon'[u],
         \A v \in TCBs :
           /\ v # u /\ (doing'[v] \in {"asleep", "finished"} \/ buzon'[v])
                => status[v] = "BLOCKED"
           /\ buzon'[v] => doing'[v] = "sending"
           /\ joining'[v] # NULL <=> doing'[v] \in {"receiving", "received"}
  PROVE  SchedulerInv' /\ NobodyIsDropped
<1>1. /\ status' \in [TCBs -> Statuses]
      /\ status'[u] = "READY"
      /\ \A v \in TCBs : v # u => status'[v] = status[v]
      /\ ListsAreReady(readyList, status)'
      /\ CPUIsRunning'
      /\ NobodyIsDropped
  BY AfterReady, Zenon
<1>2. /\ currentThread' \in TCBs /\ idle' \in BOOLEAN /\ halted' \in BOOLEAN
      /\ preassignedQueue' \in [TCBs -> Queues] /\ started' \subseteq TCBs
      /\ destroyed' \subseteq TCBs
      /\ threadToBeDestroyed' \in {threadToBeDestroyed, NULL}
      /\ \A v \in destroyed' : /\ v \in destroyed \/ v = threadToBeDestroyed
                               /\ v # threadToBeDestroyed' /\ v # currentThread'
  BY BeforeStep, Zenon
<1>3. \A v \in TCBs :
        /\ doing'[v] \in {"asleep", "finished"} \/ buzon'[v] => status'[v] = "BLOCKED"
        /\ buzon'[v] => doing'[v] = "sending"
        /\ joining'[v] # NULL <=> doing'[v] \in {"receiving", "received"}
  BY <1>1, Zenon
<1>4. SchedulerInv'
  BY <1>1, <1>2, <1>3, SameDoings, Zenon
<1>. QED BY <1>1, <1>4, Zenon

LEMMA ForkInv ==
  ASSUME SchedulerInv, NEW t \in TCBs, NEW u \in TCBs, Fork(t, u)
  PROVE  SchedulerInv' /\ NobodyIsDropped
<1>1. /\ status[u] \in {"BLOCKED", "JUST_CREATED"} /\ status[u] # "BLOCKED"
      /\ status' = [status EXCEPT ![u] = "READY"]
      /\ readyList' = Insert(readyList, u, preassignedQueue[u])
      /\ UNCHANGED <<currentThread, idle, halted, preassignedQueue, started,
                     threadToBeDestroyed, destroyed>>
      /\ doing' = doing /\ joining' = joining /\ buzon' = buzon
  BY DEF Fork
<1>2. /\ doing' \in [TCBs -> Doings] /\ joining' \in [TCBs -> TCBs \cup {NULL}]
      /\ buzon' \in [TCBs -> BOOLEAN]
  BY <1>1, BeforeStep, Zenon
<1>3. /\ doing'[u] \notin {"asleep", "finished"} /\ ~buzon'[u]
      /\ \A v \in TCBs : doing[v] = "finished" => doing'[v] = "finished"
      /\ \A v \in TCBs :
           /\ v # u /\ (doing'[v] \in {"asleep", "finished"} \/ buzon'[v])
                => status[v] = "BLOCKED"
           /\ buzon'[v] => doing'[v] = "sending"
           /\ joining'[v] # NULL <=> doing'[v] \in {"receiving", "received"}
  BY <1>1, BeforeStep, Zenon
<1>. QED BY <1>1, <1>2, <1>3, ReadyInv, Zenon

LEMMA WakeupInv ==
  ASSUME SchedulerInv, NEW u \in TCBs, Wakeup(u)
  PROVE  SchedulerInv' /\ NobodyIsDropped
<1>1. /\ status[u] \in {"BLOCKED", "JUST_CREATED"} /\ doing[u] = "asleep"
      /\ status' = [status EXCEPT ![u] = "READY"]
      /\ readyList' = Insert(readyList, u, preassignedQueue[u])
      /\ UNCHANGED <<currentThread, idle, halted, preassignedQueue, started,
                     threadToBeDestroyed, destroyed>>
      /\ doing' = [doing EXCEPT ![u] = "code"] /\ joining' = joining /\ buzon' = buzon
  BY BeforeStep, Zenon DEF Wakeup
<1>2. /\ doing' \in [TCBs -> Doings] /\ doing'[u] = "code"
      /\ \A v \in TCBs : v # u => doing'[v] = doing[v]
  BY <1>1, BeforeStep, Zenon DEF Doings
<1>3. /\ joining' \in [TCBs -> TCBs \cup {NULL}] /\ buzon' \in [TCBs -> BOOLEAN]
  BY <1>1, BeforeStep, Zenon
<1>4. /\ doing'[u] \notin {"asleep", "finished"} /\ ~buzon'[u]
      /\ \A v \in TCBs : doing[v] = "finished" => doing'[v] = "finished"
      /\ \A v \in TCBs :
           /\ v # u /\ (doing'[v] \in {"asleep", "finished"} \/ buzon'[v])
                => status[v] = "BLOCKED"
           /\ buzon'[v] => doing'[v] = "sending"
           /\ joining'[v] # NULL <=> doing'[v] \in {"receiving", "received"}
  BY <1>1, <1>2, BeforeStep, ZenonT(30)
<1>. QED BY <1>1, <1>2, <1>3, <1>4, ReadyInv, Zenon

(* A Sleep straight from the lists as they are. *)
LEMMA SleepInv ==
  ASSUME SchedulerInv, NEW t \in TCBs, NEW at, Executes(t, at),
         NEW to, Goes(t, to),
         NEW carcass,
         carcass = threadToBeDestroyed \/ (carcass = t /\ to = "finished"),
         NEW on \in BOOLEAN, Sleep(t, readyList, status, carcass, on)
  PROVE  SchedulerInv' /\ NobodyIsDropped
<1>1. Consistent(readyList, status)
  BY BeforeStep, Zenon DEF Consistent
<1>2. status[t] = "RUNNING"
  BY ExecutingThread, Zenon
<1>3. /\ SchedulerInv'
      /\ \A u \in TCBs : status'[u] = "READY" => status[u] = "READY"
      /\ \A u \in TCBs : On(readyList, u) => On(readyList', u) \/ status'[u] # "READY"
  BY <1>1, <1>2, AfterSleep, Zenon
<1>. QED BY <1>3, Zenon DEF NobodyIsDropped

LEMMA BlockInv ==
  ASSUME SchedulerInv, NEW t \in TCBs, Block(t)
  PROVE  SchedulerInv' /\ NobodyIsDropped
<1>1. /\ Executes(t, "code") /\ doing' = [doing EXCEPT ![t] = "asleep"]
      /\ Sleep(t, readyList, status, threadToBeDestroyed, FALSE)
      /\ joining' = joining /\ buzon' = buzon
  BY Zenon DEF Block
<1>2. doing[t] = "code" /\ ~buzon[t]
  BY <1>1, ExecutingThread, Zenon
<1>3. /\ joining' \in [TCBs -> TCBs \cup {NULL}] /\ buzon' \in [TCBs -> BOOLEAN]
  BY <1>1, BeforeStep, Zenon
<1>4. /\ "asleep" \in Doings /\ FALSE \in BOOLEAN
      /\ ~buzon'[t] /\ ~(joining'[t] # NULL) /\ "asleep" \notin {"receiving", "received"}
  BY <1>1, <1>2, BeforeStep, Zenon DEF Doings
<1>5. \A u \in TCBs : u # t => joining'[u] = joining[u] /\ buzon'[u] = buzon[u]
  BY <1>1, Zenon
<1>6. Goes(t, "asleep")
  BY <1>1, <1>3, <1>4, <1>5, Zenon DEF Goes
<1>. QED BY <1>1, <1>4, <1>6, SleepInv, Zenon

(* The last Sleep of Finish. *)
LEMMA FinishInv ==
  ASSUME SchedulerInv, NEW t \in TCBs, FinishDetached(t) \/ FinishSent(t)
  PROVE  SchedulerInv' /\ NobodyIsDropped
<1> DEFINE on == tId[t] = 0
<1>1. PICK at \in {"code", "sending"} : Executes(t, at)
  BY DEF FinishDetached, FinishSent
<1>2. /\ doing' = [doing EXCEPT ![t] = "finished"]
      /\ Sleep(t, readyList, status, t, on)
      /\ joining' = joining /\ buzon' = buzon
  BY DEF FinishDetached, FinishSent
<1>3. doing[t] = at /\ ~buzon[t]
  BY <1>1, ExecutingThread, Zenon
<1>4. /\ joining' \in [TCBs -> TCBs \cup {NULL}] /\ buzon' \in [TCBs -> BOOLEAN]
  BY <1>2, BeforeStep, Zenon
<1>5. on \in BOOLEAN
  BY Zenon
<1> HIDE DEF on
<1>6. /\ "finished" \in Doings
      /\ ~buzon'[t] /\ ~(joining'[t] # NULL) /\ "finished" \notin {"receiving", "received"}
  BY <1>1, <1>2, <1>3, BeforeStep, Zenon DEF Doings
<1>7. \A u \in TCBs : u # t => joining'[u] = joining[u] /\ buzon'[u] = buzon[u]
  BY <1>2, Zenon
<1>8. Goes(t, "finished")
  BY <1>2, <1>4, <1>6, <1>7, Zenon DEF Goes
<1>. QED BY <1>1, <1>2, <1>5, <1>8, SleepInv, Zenon

LEMMA FinishJoinableInv ==
  ASSUME SchedulerInv, NEW t \in TCBs, FinishJoinable(t)
  PROVE  SchedulerInv' /\ NobodyIsDropped
<1>1. /\ Executes(t, "code") /\ doing' = [doing EXCEPT ![t] = "sending"]
      /\ joining' = joining /\ buzon' = [buzon EXCEPT ![t] = TRUE]
  BY DEF FinishJoinable
<1>2. doing[t] = "code" /\ ~buzon[t] /\ status[t] = "RUNNING"
  BY <1>1, ExecutingThread, Zenon
<1>3. joining' \in [TCBs -> TCBs \cup {NULL}] /\ buzon' \in [TCBs -> BOOLEAN]
  BY <1>1, BeforeStep, Zenon
<1>4. /\ "sending" \in Doings /\ FALSE \in BOOLEAN
      /\ ~(joining'[t] # NULL) /\ "sending" \notin {"receiving", "received"}
  BY <1>1, <1>2, BeforeStep, Zenon DEF Doings
<1>5. \A u \in TCBs : u # t => joining'[u] = joining[u] /\ buzon'[u] = buzon[u]
  BY <1>1, BeforeStep
<1>0. Goes(t, "sending")
  BY <1>1, <1>3, <1>4, <1>5, Zenon DEF Goes
<1>6. CASE Receivers(t) = {}
  <2>1. Sleep(t, readyList, status, threadToBeDestroyed, FALSE)
    BY <1>6, Zenon DEF FinishJoinable
  <2>. QED BY <1>0, <1>1, <1>4, <2>1, SleepInv, Zenon
<1>7. CASE Receivers(t) # {}
  <2>1. PICK j \in Receivers(t) :
          Sleep(t, Insert(readyList, j, preassignedQueue[j]),
                [status EXCEPT ![j] = "READY"], threadToBeDestroyed, FALSE)
    BY <1>7, Zenon DEF FinishJoinable
  <2> DEFINE lists == Insert(readyList, j, preassignedQueue[j])
             st == [status EXCEPT ![j] = "READY"]
  <2>2. j \in TCBs /\ status[j] = "BLOCKED" /\ joining[j] = t
    BY DEF Receivers
  <2>3. preassignedQueue[j] \in Queues /\ status[j] # "READY" /\ j # t
    BY <1>2, <2>2, BeforeStep, Zenon
  <2>4. doing[j] \in {"receiving", "received"} /\ ~buzon[j]
    BY <2>2, BeforeStep, SchedulerConstants, Zenon
  <2>5. status \in [TCBs -> Statuses] /\ ListsAreReady(readyList, status)
    BY BeforeStep, Zenon
  <2>6. /\ ListsAreReady(lists, st)
        /\ \A u \in TCBs : On(lists, u) <=> On(readyList, u) \/ u = j
    BY <2>2, <2>3, <2>5, ReadyFacts, ZenonT(30)
  <2>7. st \in [TCBs -> Statuses] /\ st[t] = "RUNNING" /\ st[j] = "READY"
        /\ \A u \in TCBs : u # j => st[u] = status[u]
    BY <1>2, <2>2, <2>3, <2>5 DEF Statuses
  <2>8. Sleep(t, lists, st, threadToBeDestroyed, FALSE)
    BY <2>1, Zenon
  <2> HIDE DEF lists, st
  <2>9. Consistent(lists, st)
    BY <2>4, <2>6, <2>7, BeforeStep, Zenon DEF Consistent
  <2>10. /\ SchedulerInv'
         /\ \A u \in TCBs : status'[u] = "READY" => st[u] = "READY"
         /\ \A u \in TCBs : On(lists, u) => On(readyList', u) \/ status'[u] # "READY"
    BY <1>0, <1>1, <1>4, <2>7, <2>8, <2>9, AfterSleep, Zenon
  <2>11. NobodyIsDropped
    BY <2>6, <2>7, <2>10, Zenon DEF NobodyIsDropped
  <2>. QED BY <2>10, <2>11, Zenon
<1>. QED BY <1>6, <1>7, Zenon

(* Receive takes the value and makes the sender READY, or sleeps. *)
LEMMA ReceiveStep ==
  ASSUME SchedulerInv, NEW t \in TCBs, NEW u \in TCBs,
         NEW at \in {"code", "receiving"}, Executes(t, at),
         joining' = [joining EXCEPT ![t] = u], Receive(t, u)
  PROVE  SchedulerInv' /\ NobodyIsDropped
<1>0. doing[t] = at /\ ~buzon[t] /\ status[t] = "RUNNING"
  BY ExecutingThread, Zenon
<1>1. /\ joining' \in [TCBs -> TCBs \cup {NULL}] /\ joining'[t] # NULL
      /\ \A v \in TCBs : v # t => joining'[v] = joining[v]
  BY BeforeStep, SchedulerConstants, Zenon
<1>2. CASE buzon[u]
  <2>1. /\ status' = [status EXCEPT ![u] = "READY"]
        /\ readyList' = Insert(readyList, u, preassignedQueue[u])
        /\ UNCHANGED <<currentThread, idle, halted, preassignedQueue, started,
                       threadToBeDestroyed, destroyed>>
    BY <1>2, Zenon DEF Receive
  <2>2. doing' = [doing EXCEPT ![t] = "received"] /\ buzon' = [buzon EXCEPT ![u] = FALSE]
    BY <1>2 DEF Receive
  <2>3. status[u] = "BLOCKED" /\ doing[u] = "sending" /\ u # t
    BY <1>0, <1>2, BeforeStep, Zenon
  <2>4. /\ doing' \in [TCBs -> Doings] /\ doing'[t] = "received"
        /\ \A v \in TCBs : v # t => doing'[v] = doing[v]
    BY <2>2, BeforeStep, Zenon DEF Doings
  <2>5. /\ buzon' \in [TCBs -> BOOLEAN] /\ ~buzon'[u]
        /\ \A v \in TCBs : v # u => buzon'[v] = buzon[v]
    BY <2>2, BeforeStep, Zenon
  <2>6. status[u] \in {"BLOCKED", "JUST_CREATED"}
    BY <2>3
  <2>7. doing'[u] \notin {"asleep", "finished"}
    BY <2>3, <2>4
  <2>8. \A v \in TCBs : doing[v] = "finished" => doing'[v] = "finished"
    BY <1>0, <2>4
  <2>9. \A v \in TCBs :
          /\ v # u /\ (doing'[v] \in {"asleep", "finished"} \/ buzon'[v])
               => status[v] = "BLOCKED"
          /\ buzon'[v] => doing'[v] = "sending"
          /\ joining'[v] # NULL <=> doing'[v] \in {"receiving", "received"}
    <3> TAKE v \in TCBs
    <3>1. CASE v = t
      BY <1>0, <1>1, <2>3, <2>4, <2>5, <3>1, Zenon
    <3>2. CASE v # t
      BY <1>1, <2>4, <2>5, <3>2, BeforeStep, ZenonT(30)
    <3>. QED BY <3>1, <3>2, Zenon
  <2>. QED BY <1>1, <2>1, <2>4, <2>5, <2>6, <2>7, <2>8, <2>9, ReadyInv, Zenon
<1>3. CASE ~buzon[u]
  <2>1. Sleep(t, readyList, status, threadToBeDestroyed, FALSE)
    BY <1>3, Zenon DEF Receive
  <2>2. doing' = [doing EXCEPT ![t] = "receiving"] /\ buzon' = buzon
    BY <1>3 DEF Receive
  <2>3. buzon' \in [TCBs -> BOOLEAN] /\ ~buzon'[t]
        /\ \A v \in TCBs : buzon'[v] = buzon[v]
    BY <1>0, <2>2, BeforeStep, Zenon
  <2>4. "receiving" \in Doings /\ FALSE \in BOOLEAN
    BY DEF Doings
  <2>5. Goes(t, "receiving")
    BY <1>1, <2>2, <2>3, <2>4, Zenon DEF Goes
  <2>. QED BY <2>1, <2>4, <2>5, SleepInv, Zenon
<1>. QED BY <1>2, <1>3, Zenon

LEMMA JoinInv ==
  ASSUME SchedulerInv, NEW t \in TCBs, NEW u \in TCBs, Join(t, u)
  PROVE  SchedulerInv' /\ NobodyIsDropped
<1>1. Executes(t, "code") /\ joining' = [joining EXCEPT ![t] = u] /\ Receive(t, u)
  BY DEF Join
<1>. QED BY <1>1, ReceiveStep, Zenon

LEMMA JoinResumeInv ==
  ASSUME SchedulerInv, NEW t \in TCBs, JoinResume(t)
  PROVE  SchedulerInv' /\ NobodyIsDropped
<1>1. Executes(t, "receiving") /\ joining' = joining /\ Receive(t, joining[t])
  BY DEF JoinResume
<1>2. joining[t] \in TCBs
  BY <1>1, BeforeStep DEF Executes
<1>3. joining' = [joining EXCEPT ![t] = joining[t]]
  BY <1>1, BeforeStep
<1>. QED BY <1>1, <1>2, <1>3, ReceiveStep, Zenon

LEMMA YieldInv ==
  ASSUME SchedulerInv, NEW t \in TCBs, Yield(t)
  PROVE  SchedulerInv' /\ NobodyIsDropped
<1>1. PICK at : Executes(t, at)
  BY Zenon DEF Yield
<1>2. YieldFrom(t, readyList) /\ doing' = doing /\ joining' = joining /\ buzon' = buzon
  BY DEF Yield
<1>3. ListsAreReady(readyList, status)
  BY BeforeStep, Zenon
<1>4. /\ currentThread' \in TCBs /\ idle' \in BOOLEAN /\ halted' \in BOOLEAN
      /\ status' \in [TCBs -> Statuses]
      /\ preassignedQueue' \in [TCBs -> Queues]
      /\ started' \subseteq TCBs
      /\ threadToBeDestroyed' \in {threadToBeDestroyed, NULL}
      /\ destroyed' \subseteq TCBs
      /\ ListsAreReady(readyList, status)'
      /\ CPUIsRunning'
      /\ \A u \in TCBs : status[u] = "BLOCKED" => status'[u] = "BLOCKED"
      /\ NobodyIsDropped
      /\ \A u \in destroyed' : /\ u \in destroyed \/ u = threadToBeDestroyed
                               /\ u # threadToBeDestroyed' /\ u # currentThread'
  BY <1>1, <1>2, <1>3, AfterYield, Zenon DEF NobodyIsDropped
<1>5. /\ doing' \in [TCBs -> Doings] /\ joining' \in [TCBs -> TCBs \cup {NULL}]
      /\ buzon' \in [TCBs -> BOOLEAN]
      /\ \A u \in TCBs : doing[u] = "finished" => doing'[u] = "finished"
  BY <1>2, BeforeStep, Zenon
<1>6. \A u \in TCBs :
        /\ doing'[u] \in {"asleep", "finished"} \/ buzon'[u] => status'[u] = "BLOCKED"
        /\ buzon'[u] => doing'[u] = "sending"
        /\ joining'[u] # NULL <=> doing'[u] \in {"receiving", "received"}
  BY <1>2, <1>4, BeforeStep, Zenon
<1>7. SchedulerInv'
  BY <1>4, <1>5, <1>6, SameDoings, Zenon
<1>. QED BY <1>4, <1>7, Zenon

LEMMA LeaveIdleInv ==
  ASSUME SchedulerInv, LeaveIdle
  PROVE  SchedulerInv' /\ NobodyIsDropped
<1> DEFINE f == FindNextToRun(readyList)
<1>1. /\ f.thread # NULL /\ idle' = FALSE /\ halted' = halted
      /\ readyList' = f.lists
      /\ status' = [status EXCEPT ![f.thread] = "RUNNING"]
      /\ Run(f.thread, threadToBeDestroyed)
      /\ preassignedQueue' = preassignedQueue
      /\ doing' = doing /\ joining' = joining /\ buzon' = buzon
  BY DEF LeaveIdle
<1>2. status \in [TCBs -> Statuses] /\ ListsAreReady(readyList, status)
  BY BeforeStep, Zenon
<1>3. /\ f.thread \in TCBs \cup {NULL}
      /\ f.thread # NULL =>
           /\ status[f.thread] = "READY"
           /\ ListsAreReady(f.lists, [status EXCEPT ![f.thread] = "RUNNING"])
      /\ \A u \in TCBs : On(readyList, u) <=> On(f.lists, u) \/ f.thread = u
  BY <1>2, DispatchFacts, Zenon
<1> HIDE DEF f
<1>4. f.thread \in TCBs /\ status[f.thread] = "READY"
  BY <1>1, <1>3
<1>5. /\ f.thread # threadToBeDestroyed /\ f.thread \notin destroyed
      /\ threadToBeDestroyed \notin destroyed
      /\ threadToBeDestroyed \in TCBs \cup {NULL}
  BY <1>4, GoneAreBlocked, SchedulerConstants, Zenon DEF SchedulerInv, SchedulerTypes
<1>6. /\ currentThread' = f.thread
      /\ started' \subseteq TCBs
      /\ destroyed' \subseteq TCBs
      /\ threadToBeDestroyed' \in {threadToBeDestroyed, NULL}
      /\ \A u \in destroyed' : /\ u \in destroyed \/ u = threadToBeDestroyed
                               /\ u # threadToBeDestroyed' /\ u # f.thread
  BY <1>1, <1>4, <1>5, RunFacts, BeforeStep, Zenon
<1>7. /\ status' \in [TCBs -> Statuses]
      /\ status'[f.thread] = "RUNNING"
      /\ \A u \in TCBs : u # f.thread => status'[u] = status[u]
  BY <1>1, <1>2, <1>4 DEF Statuses
<1>8. ListsAreReady(readyList, status)'
  BY <1>1, <1>3
<1>9. CPUIsRunning'
  BY <1>6, <1>7 DEF CPUIsRunning
<1>10. NobodyIsDropped
  BY <1>1, <1>3, <1>7, Zenon DEF NobodyIsDropped
<1>11. /\ idle' \in BOOLEAN /\ halted' \in BOOLEAN
       /\ preassignedQueue' \in [TCBs -> Queues]
       /\ doing' \in [TCBs -> Doings] /\ joining' \in [TCBs -> TCBs \cup {NULL}]
       /\ buzon' \in [TCBs -> BOOLEAN]
       /\ \A u \in TCBs : doing[u] = "finished" => doing'[u] = "finished"
  BY <1>1, BeforeStep, Zenon
<1>12. \A u \in TCBs :
         /\ doing'[u] \in {"asleep", "finished"} \/ buzon'[u] => status'[u] = "BLOCKED"
         /\ buzon'[u] => doing'[u] = "sending"
         /\ joining'[u] # NULL <=> doing'[u] \in {"receiving", "received"}
  BY <1>1, <1>4, <1>7, BeforeStep, ZenonT(30)
<1>13. currentThread' \in TCBs
       /\ \A u \in destroyed' : /\ u \in destroyed \/ u = threadToBeDestroyed
                                /\ u # threadToBeDestroyed' /\ u # currentThread'
  BY <1>4, <1>6, Zenon
<1>14. SchedulerInv'
  BY <1>6, <1>7, <1>8, <1>9, <1>11, <1>12, <1>13, SameDoings, Zenon
<1>. QED BY <1>10, <1>14, Zenon

(* The end of Join takes a thread off the lists; the invariant holds of    *)
(* the lists without it.                                                   *)
LEMMA JoinReturnInv ==
  ASSUME SchedulerInv, NEW t \in TCBs, JoinReturn(t)
  PROVE  SchedulerInv'
<1> DEFINE f == FindNextToRun(readyList)
<1>1. /\ Executes(t, "received")
      /\ doing' = [doing EXCEPT ![t] = "code"]
      /\ joining' = [joining EXCEPT ![t] = NULL]
      /\ buzon' = buzon
      /\ \/ YieldFrom(t, f.lists)
         \/ /\ readyList' = f.lists
            /\ UNCHANGED <<currentThread, idle, halted, status, preassignedQueue,
                           started, threadToBeDestroyed, destroyed>>
  BY Zenon DEF JoinReturn
<1>2. doing[t] = "received" /\ ~buzon[t]
  BY <1>1, ExecutingThread, Zenon
<1>3. ListsAreReady(f.lists, status)
  <2>1. readyList \in ThreadLists /\ Once(readyList)
        /\ \A u \in TCBs : On(readyList, u) => status[u] = "READY"
    BY BeforeStep, Zenon DEF ListsAreReady
  <2>2. /\ f.lists \in ThreadLists /\ Once(f.lists)
        /\ \A u \in TCBs : On(readyList, u) <=> On(f.lists, u) \/ f.thread = u
    BY <2>1, FindFacts, Zenon
  <2>. QED BY <2>1, <2>2, Zenon DEF ListsAreReady
<1> HIDE DEF f
<1>4. /\ currentThread' \in TCBs /\ idle' \in BOOLEAN /\ halted' \in BOOLEAN
      /\ status' \in [TCBs -> Statuses]
      /\ preassignedQueue' \in [TCBs -> Queues]
      /\ started' \subseteq TCBs
      /\ threadToBeDestroyed' \in {threadToBeDestroyed, NULL}
      /\ destroyed' \subseteq TCBs
      /\ ListsAreReady(readyList, status)'
      /\ CPUIsRunning'
      /\ \A u \in TCBs : status[u] = "BLOCKED" => status'[u] = "BLOCKED"
      /\ \A u \in destroyed' : /\ u \in destroyed \/ u = threadToBeDestroyed
                               /\ u # threadToBeDestroyed' /\ u # currentThread'
  <2>1. CASE YieldFrom(t, f.lists)
    BY <1>1, <1>3, <2>1, AfterYield, Zenon
  <2>2. CASE /\ readyList' = f.lists
             /\ UNCHANGED <<currentThread, idle, halted, status, preassignedQueue,
                            started, threadToBeDestroyed, destroyed>>
    <3>1. /\ readyList' = f.lists /\ currentThread' = currentThread /\ idle' = idle
          /\ halted' = halted /\ status' = status /\ started' = started
          /\ preassignedQueue' = preassignedQueue
          /\ threadToBeDestroyed' = threadToBeDestroyed /\ destroyed' = destroyed
      BY <2>2
    <3>2. CPUIsRunning'
      BY <3>1 DEF SchedulerInv, CPUIsRunning
    <3>3. ListsAreReady(readyList, status)'
      BY <1>3, <3>1
    <3>4. threadToBeDestroyed' \in {threadToBeDestroyed, NULL}
      BY <3>1
    <3>5. \A u \in destroyed' : /\ u \in destroyed \/ u = threadToBeDestroyed
                                /\ u # threadToBeDestroyed' /\ u # currentThread'
      BY <3>1, BeforeStep, Zenon
    <3>6. /\ currentThread' \in TCBs /\ idle' \in BOOLEAN /\ halted' \in BOOLEAN
          /\ status' \in [TCBs -> Statuses]
          /\ preassignedQueue' \in [TCBs -> Queues]
          /\ started' \subseteq TCBs /\ destroyed' \subseteq TCBs
          /\ \A u \in TCBs : status[u] = "BLOCKED" => status'[u] = "BLOCKED"
      BY <3>1, BeforeStep, Zenon
    <3>. QED BY <3>2, <3>3, <3>4, <3>5, <3>6, Zenon
  <2>. QED BY <1>1, <2>1, <2>2, Zenon
<1>5. /\ doing' \in [TCBs -> Doings] /\ doing'[t] = "code"
      /\ \A u \in TCBs : u # t => doing'[u] = doing[u]
  BY <1>1, BeforeStep, Zenon DEF Doings
<1>6. /\ joining' \in [TCBs -> TCBs \cup {NULL}] /\ joining'[t] = NULL
      /\ \A u \in TCBs : u # t => joining'[u] = joining[u]
  BY <1>1, BeforeStep, Zenon
<1>7. /\ buzon' \in [TCBs -> BOOLEAN] /\ ~buzon'[t]
      /\ \A u \in TCBs : buzon'[u] = buzon[u]
  BY <1>1, <1>2, BeforeStep, Zenon
<1>8. \A u \in TCBs : doing[u] = "finished" => doing'[u] = "finished"
  BY <1>2, <1>5, Zenon
<1>9. \A u \in TCBs :
        /\ doing'[u] \in {"asleep", "finished"} \/ buzon'[u] => status'[u] = "BLOCKED"
        /\ buzon'[u] => doing'[u] = "sending"
        /\ joining'[u] # NULL <=> doing'[u] \in {"receiving", "received"}
  <2> TAKE u \in TCBs
  <2>1. CASE u = t
    BY <1>5, <1>6, <1>7, <2>1, Zenon
  <2>2. CASE u # t
    BY <1>4, <1>5, <1>6, <1>7, <2>2, BeforeStep, ZenonT(30)
  <2>. QED BY <2>1, <2>2, Zenon
<1>. QED BY <1>4, <1>5, <1>6, <1>7, <1>8, <1>9, SameDoings, Zenon

LEMMA SchedulerSteps ==
  SchedulerInv /\ [SchedulerNext]_schedulerVars => SchedulerInv'
<1> SUFFICES ASSUME SchedulerInv, [SchedulerNext]_schedulerVars PROVE SchedulerInv'
  OBVIOUS
<1>1. ASSUME NEW t \in TCBs, NEW u \in TCBs, Fork(t, u) \/ Join(t, u)
      PROVE  SchedulerInv'
  BY <1>1, ForkInv, JoinInv, Zenon
<1>2. ASSUME NEW t \in TCBs, Yield(t) \/ Block(t) \/ Wakeup(t)
      PROVE  SchedulerInv'
  BY <1>2, YieldInv, BlockInv, WakeupInv, Zenon
<1>3. ASSUME NEW t \in TCBs, FinishDetached(t) \/ FinishJoinable(t) \/ FinishSent(t)
      PROVE  SchedulerInv'
  BY <1>3, FinishInv, FinishJoinableInv, Zenon
<1>4. ASSUME NEW t \in TCBs, JoinResume(t) \/ JoinReturn(t)
      PROVE  SchedulerInv'
  BY <1>4, JoinResumeInv, JoinReturnInv, Zenon
<1>5. CASE LeaveIdle
  BY <1>5, LeaveIdleInv, Zenon
<1>6. CASE UNCHANGED schedulerVars
  BY <1>6, Zenon DEF schedulerVars, cpuVars, SchedulerInv, SchedulerTypes, WaitersAreBlocked,
              CPUIsRunning, CarcassIsFinished, Gone
<1>. QED BY <1>1, <1>2, <1>3, <1>4, <1>5, <1>6, Zenon DEF SchedulerNext

(* Every step but the end of Join keeps the READY threads on the lists. *)
LEMMA StepsKeepThreads ==
  ASSUME SchedulerInv, SchedulerNext
  PROVE  NobodyIsDropped \/ \E t \in TCBs : JoinReturn(t)
<1>1. ASSUME NEW t \in TCBs, NEW u \in TCBs, Fork(t, u) \/ Join(t, u)
      PROVE  NobodyIsDropped
  BY <1>1, ForkInv, JoinInv, Zenon
<1>2. ASSUME NEW t \in TCBs, Yield(t) \/ Block(t) \/ Wakeup(t)
      PROVE  NobodyIsDropped
  BY <1>2, YieldInv, BlockInv, WakeupInv, Zenon
<1>3. ASSUME NEW t \in TCBs, FinishDetached(t) \/ FinishJoinable(t) \/ FinishSent(t)
      PROVE  NobodyIsDropped
  BY <1>3, FinishInv, FinishJoinableInv, Zenon
<1>4. ASSUME NEW t \in TCBs, JoinResume(t)
      PROVE  NobodyIsDropped
  BY <1>4, JoinResumeInv, Zenon
<1>5. CASE LeaveIdle
  BY <1>5, LeaveIdleInv, Zenon
<1>. QED BY <1>1, <1>2, <1>3, <1>4, <1>5, Zenon DEF SchedulerNext

(* However many threads fork, join, finish, sleep and yield, a thread that *)
(* Scheduler::Run deletes has finished and never comes back: it is not the *)
(* current one, not the next carcass, and on no ready list.                *)
THEOREM DeletedThreadsAreGone == SchedulerSpec => []DestroyedThreadsAreGone
<1>1. SchedulerInit => SchedulerInv
  BY SchedulerStarts
<1>2. SchedulerInv /\ [SchedulerNext]_schedulerVars => SchedulerInv'
  BY SchedulerSteps
<1>3. SchedulerInv => DestroyedThreadsAreGone
  <2> SUFFICES ASSUME SchedulerInv, NEW t \in destroyed
               PROVE  /\ doing[t] = "finished" /\ t # threadToBeDestroyed
                      /\ t # currentThread /\ ~On(readyList, t)
    BY DEF DestroyedThreadsAreGone
  <2>1. t \in TCBs /\ status[t] = "BLOCKED"
    BY GoneAreBlocked
  <2>2. ~On(readyList, t)
    BY <2>1 DEF SchedulerInv, ListsAreReady
  <2>. QED BY <2>2 DEF SchedulerInv, Gone
<1>. QED BY <1>1, <1>2, <1>3, PTL DEF SchedulerSpec

(* FindNextToRun loses nobody: for any threads and priorities, only the    *)
(* end of Thread::Join leaves a READY thread off the lists.                *)
THEOREM ReadyThreadsAreKept == SchedulerSpec => OnlyJoinDropsThreads
<1>1. SchedulerInit => SchedulerInv
  BY SchedulerStarts
<1>2. SchedulerInv /\ [SchedulerNext]_schedulerVars => SchedulerInv'
  BY SchedulerSteps
<1>3. SchedulerInv /\ [SchedulerNext]_schedulerVars
        => [\A t \in TCBs :
              /\ status'[t] = "READY" /\ ~On(readyList', t)
              /\ status[t] = "READY" => On(readyList, t)
              => \E j \in TCBs : doing[j] = "received" /\ doing'[j] = "code"]_schedulerVars
  <2> SUFFICES ASSUME SchedulerInv, SchedulerNext, NEW t \in TCBs,
                      status'[t] = "READY", ~On(readyList', t),
                      status[t] = "READY" => On(readyList, t)
               PROVE  \E j \in TCBs : doing[j] = "received" /\ doing'[j] = "code"
    BY Zenon
  <2>1. PICK j \in TCBs : JoinReturn(j)
    BY StepsKeepThreads, Zenon DEF NobodyIsDropped
  <2>2. doing[j] = "received" /\ doing' = [doing EXCEPT ![j] = "code"]
    BY <2>1, Zenon DEF JoinReturn, Executes
  <2>3. doing'[j] = "code"
    BY <2>2, BeforeStep, Zenon
  <2>. QED BY <2>2, <2>3, Zenon
<1>. QED BY <1>1, <1>2, <1>3, PTL DEF SchedulerSpec, OnlyJoinDropsThreads
=============================================================================
