---------------------------- MODULE PagingProofs -----------------------------
(***************************************************************************)
(* Page tables, TLB and core map (module Paging), for any processes,       *)
(* frames, TLB size, executables and builds, as long as no frame has been  *)
(* taken from another process.                                             *)
(*                                                                         *)
(* The invariant has two parts that TranslationsAreOwned does not mention. *)
(* A page is in one slot of the TLB at most: EscribirFrameenSwap and the   *)
(* clock write to the first slot with the frame, and that one must be the  *)
(* only one.  And a process that waits for the disk in LoadPage keeps what *)
(* it will use when it runs again: the frame it fills is marked for the    *)
(* page of its fault and has no translation in the TLB.                    *)
(***************************************************************************)
EXTENDS Paging, TLAPS

Entries == [physicalPage : Int, valid : BOOLEAN, use : BOOLEAN, dirty : BOOLEAN]
TlbEntries == [virtualPage : Int, physicalPage : Int, valid : BOOLEAN,
               use : BOOLEAN, dirty : BOOLEAN]
Tables == [Pages -> Entries]
Tlbs == [Slots -> TlbEntries]
Owned == Spaces \X Pages
FaultStates == {InUser} \cup [at : {"load"}, vpn : Pages, frame : Frames]

(* The table says that the page is in the frame. *)
In(table, v, f) == table[v].valid /\ table[v].physicalPage = f

(* The core map is the inverse of the page tables. *)
MapAgrees(pt, cm) ==
  /\ \A s \in Spaces, v \in Pages : pt[s][v].valid => pt[s][v].physicalPage \in Frames
  /\ \A f \in Frames, s \in Spaces, v \in Pages : cm[f] = <<s, v>> <=> In(pt[s], v, f)

(* What the TLB holds of a page table. *)
Confirmed(table, t) ==
  \A k \in Slots : t[k].valid => /\ t[k].virtualPage \in Pages
                                 /\ In(table, t[k].virtualPage, t[k].physicalPage)

(* A page is in one slot of the TLB: the first that a search finds is the  *)
(* only one.                                                               *)
OneSlot(t) ==
  \A k, l \in Slots : t[k].valid /\ t[l].valid /\ t[k].virtualPage = t[l].virtualPage
                        => k = l

TlbAgrees(cur, pt, t) ==
  /\ t \in Tlbs /\ OneSlot(t)
  /\ cur = Nobody => \A k \in Slots : ~t[k].valid
  /\ cur # Nobody => Confirmed(pt[cur], t)

(* Where a process is in LoadPage: the page it reads has its frame, and is *)
(* not in the TLB yet.                                                     *)
FaultAgrees(s, x, cur, pt, t) ==
  /\ x \in FaultStates
  /\ x.at = "load" =>
       /\ In(pt[s], x.vpn, x.frame)
       /\ cur = s => \A k \in Slots : t[k].valid => t[k].virtualPage # x.vpn

Sound(al, cur, pt, t, ix, cm, ft) ==
  /\ al \in [Spaces -> {"new", "alive", "dead"}]
  /\ cur \in Spaces \cup {Nobody}
  /\ pt \in [Spaces -> Tables]
  /\ ix \in Slots
  /\ cm \in [Frames -> Owned \cup {Nobody}]
  /\ ft \in [Spaces -> FaultStates]
  /\ MapAgrees(pt, cm)
  /\ TlbAgrees(cur, pt, t)
  /\ \A s \in Spaces : FaultAgrees(s, ft[s], cur, pt, t)
  /\ \A s \in Spaces : al[s] = "new" =>
       /\ cur # s /\ ft[s] = InUser
       /\ \A v \in Pages : ~pt[s][v].valid

SoundNow == Sound(alive, current, pageTable, tlb, index, coremap, fault)
SoundNext == Sound(alive', current', pageTable', tlb', index', coremap', fault')

PagingInv ==
  /\ exe \in Layouts
  /\ crossed \/ (/\ victima \in Frames
                 /\ SoundNow)

-----------------------------------------------------------------------------

LEMMA PagingSizes ==
  /\ NUM_PHYS_PAGES \in Nat \ {0} /\ TLB_SIZE \in Nat \ {0}
  /\ Slots \subseteq Int /\ Frames \subseteq Int /\ Pages \subseteq Int
BY PagingAssumption DEF Slots, Frames, Pages

(* The first and the last slot that has a page are the only one. *)
LEMMA OnlySlot ==
  ASSUME NEW S \in SUBSET Int, \A k, l \in S : k = l, S # {}
  PROVE  Min(S) \in S /\ Max(S) \in S
<1>1. PICK k \in S : TRUE
  BY Zenon
<1>2. \A x \in S : k <= x /\ x <= k
  BY <1>1
<1>3. Min(S) \in S
  BY <1>1, <1>2, Zenon DEF Min
<1>4. Max(S) \in S
  <2>1. \A x \in S : k >= x
    BY <1>1
  <2>. QED BY <1>1, <2>1, Zenon DEF Max
<1>. QED BY <1>3, <1>4

(* Two tables that place the pages in the same frames. *)
Same(a, b) ==
  \A v \in Pages : a[v].valid = b[v].valid /\ a[v].physicalPage = b[v].physicalPage

LEMMA IncreasingApart ==
  ASSUME NEW S \in SUBSET Int, NEW f, \A u \in S : f[u] \in Int,
         \A u, v \in S : u < v => f[u] < f[v]
  PROVE  \A u, v \in S : f[u] = f[v] => u = v
OBVIOUS

LEMMA SameConfirms ==
  ASSUME NEW a, NEW b, NEW t, Same(a, b), Confirmed(a, t)
  PROVE  Confirmed(b, t)
BY DEF Same, Confirmed, In

(* SaveState changes the bits of the table only. *)
LEMMA SavedFacts ==
  ASSUME NEW table \in Tables, NEW t \in Tlbs, OneSlot(t)
  PROVE  Saved(table, t) \in Tables /\ Same(table, Saved(table, t))
<1> DEFINE in(v) == {k \in Slots : t[k].valid /\ t[k].virtualPage = v}
           new(v) == IF in(v) = {} THEN table[v]
                     ELSE [table[v] EXCEPT !.dirty = t[Max(in(v))].dirty,
                                           !.use = t[Max(in(v))].use]
<1>1. Saved(table, t) = [v \in Pages |-> new(v)]
  BY DEF Saved
<1>2. ASSUME NEW v \in Pages
      PROVE  /\ new(v) \in Entries
             /\ new(v).valid = table[v].valid
             /\ new(v).physicalPage = table[v].physicalPage
  <2>0. table[v] \in Entries
    BY DEF Tables
  <2>1. CASE in(v) = {}
    BY <2>0, <2>1
  <2>2. CASE in(v) # {}
    <3>1. Max(in(v)) \in in(v)
      BY <2>2, OnlySlot, PagingSizes DEF OneSlot
    <3>2. t[Max(in(v))] \in TlbEntries
      BY <3>1 DEF Tlbs
    <3> DEFINE e == t[Max(in(v))]
    <3>3. e.dirty \in BOOLEAN /\ e.use \in BOOLEAN
      BY <3>2 DEF TlbEntries
    <3>4. new(v) = [table[v] EXCEPT !.dirty = e.dirty, !.use = e.use]
      BY <2>2
    <3> HIDE DEF e, new
    <3>. QED BY <2>0, <3>3, <3>4, Zenon DEF Entries
  <2>. QED BY <2>1, <2>2, Zenon
<1> HIDE DEF new
<1>. QED BY <1>1, <1>2 DEF Tables, Same

LEMMA EmptyTlbFacts ==
  /\ NoEntry \in TlbEntries /\ ~NoEntry.valid
  /\ EmptyTlb \in Tlbs /\ OneSlot(EmptyTlb) /\ \A k \in Slots : ~EmptyTlb[k].valid
BY DEF EmptyTlb, NoEntry, Tlbs, TlbEntries, OneSlot

LEMMA FaultFields ==
  ASSUME NEW x \in FaultStates
  PROVE  /\ x.at \in {"user", "load"}
         /\ x.at = "load" => x.vpn \in Pages /\ x.frame \in Frames
         /\ x = InUser => x.at = "user"
BY DEF FaultStates, InUser

(* The slot at `index` goes back to the table, which confirms it already,  *)
(* and the page that was missing takes it.                                 *)
LEMMA RefillFacts ==
  ASSUME NEW table \in Tables, NEW t \in Tlbs, OneSlot(t), Confirmed(table, t),
         NEW v \in Pages, index \in Slots,
         \A k \in Slots : t[k].valid => t[k].virtualPage # v
  PROVE  LET r == Refill(table, t, v)
         IN  /\ r[1] \in Tables /\ Same(table, r[1])
             /\ r[2] \in Tlbs /\ OneSlot(r[2]) /\ Confirmed(r[1], r[2])
<1> DEFINE old == t[index]
           back == IF old.valid
                   THEN [table EXCEPT ![old.virtualPage] =
                           [physicalPage |-> old.physicalPage, valid |-> TRUE,
                            use |-> old.use, dirty |-> old.dirty]]
                   ELSE table
           e == [virtualPage |-> v, physicalPage |-> back[v].physicalPage,
                 valid |-> back[v].valid, use |-> back[v].use, dirty |-> back[v].dirty]
           t2 == [t EXCEPT ![index] = e]
           r == Refill(table, t, v)
<1>1. r = <<back, t2>>
  BY DEF Refill
<1>2. old \in TlbEntries
  BY DEF Tlbs
<1>3. back \in Tables /\ Same(table, back)
  <2>1. CASE old.valid
    <3>1. old.virtualPage \in Pages /\ In(table, old.virtualPage, old.physicalPage)
      BY <2>1 DEF Confirmed
    <3> DEFINE x == [physicalPage |-> old.physicalPage, valid |-> TRUE,
                     use |-> old.use, dirty |-> old.dirty]
    <3>2. x \in Entries /\ x.valid /\ x.physicalPage = old.physicalPage
      BY <1>2 DEF Entries, TlbEntries
    <3>3. back = [table EXCEPT ![old.virtualPage] = x]
      BY <2>1
    <3> HIDE DEF x, back, old
    <3>4. back \in Tables
      BY <3>1, <3>2, <3>3 DEF Tables
    <3>5. \A u \in Pages : back[u] = IF u = old.virtualPage THEN x ELSE table[u]
      BY <3>1, <3>3 DEF Tables
    <3>6. table[old.virtualPage].valid = TRUE /\ x.valid = TRUE
      BY <3>1, <3>2 DEF In, Tables, Entries
    <3>. QED BY <3>1, <3>2, <3>4, <3>5, <3>6, Zenon DEF Same, In
  <2>2. CASE ~old.valid
    BY <2>2 DEF Same
  <2>. QED BY <2>1, <2>2, Zenon
<1> HIDE DEF back, old
<1>4. back[v] \in Entries
  BY <1>3 DEF Tables
<1>5. e \in TlbEntries /\ e.virtualPage = v
      /\ e.physicalPage = back[v].physicalPage /\ e.valid = back[v].valid
  BY <1>4, PagingSizes DEF Entries, TlbEntries
<1> HIDE DEF e
<1>6. t2 \in Tlbs /\ \A k \in Slots : t2[k] = IF k = index THEN e ELSE t[k]
  BY <1>5 DEF Tlbs
<1> HIDE DEF t2
<1>7. OneSlot(t2)
  BY <1>5, <1>6 DEF OneSlot
<1>8. Confirmed(back, t)
  BY <1>3, SameConfirms
<1>9. Confirmed(back, t2)
  BY <1>5, <1>6, <1>8 DEF Confirmed, In
<1>. QED BY <1>1, <1>3, <1>6, <1>7, <1>9

LEMMA MapSame ==
  ASSUME NEW p, NEW q, NEW cm, MapAgrees(p, cm), \A s \in Spaces : Same(p[s], q[s])
  PROVE  MapAgrees(q, cm)
BY DEF MapAgrees, Same, In

(* What a step of s leaves when its table places the pages as `table`, and *)
(* its handler is at x.                                                    *)
Handled(s, table, x) ==
  /\ pageTable' \in [Spaces -> Tables]
  /\ \A u \in Spaces : u # s => pageTable'[u] = pageTable[u] /\ fault'[u] = fault[u]
  /\ Same(table, pageTable'[s])
  /\ current' \in {s, Nobody}
  /\ TlbAgrees(current', pageTable', tlb')
  /\ index' \in Slots
  /\ fault' \in [Spaces -> FaultStates] /\ fault'[s] = x

(* The end of the fault handler, *)
LEMMA FinishFaultFacts ==
  ASSUME NEW s \in Spaces, NEW table \in Tables, NEW t \in Tlbs, OneSlot(t),
         Confirmed(table, t), NEW v \in Pages, index \in Slots,
         \A k \in Slots : t[k].valid => t[k].virtualPage # v,
         pageTable \in [Spaces -> Tables], fault \in [Spaces -> FaultStates],
         current = s, current' = current, FinishFault(s, table, t, v)
  PROVE  Handled(s, table, InUser)
<1> DEFINE r == Refill(table, t, v)
<1>1. /\ r[1] \in Tables /\ Same(table, r[1])
      /\ r[2] \in Tlbs /\ OneSlot(r[2]) /\ Confirmed(r[1], r[2])
  BY RefillFacts
<1>2. /\ pageTable' = [pageTable EXCEPT ![s] = r[1]]
      /\ tlb' = r[2]
      /\ index' = (index + 1) % TLB_SIZE
      /\ fault' = [fault EXCEPT ![s] = InUser]
  BY DEF FinishFault
<1> HIDE DEF r
<1>3. index' \in Slots
  BY <1>2, PagingSizes DEF Slots
<1>4. /\ pageTable' \in [Spaces -> Tables] /\ pageTable'[s] = r[1]
      /\ \A u \in Spaces : u # s => pageTable'[u] = pageTable[u]
  BY <1>1, <1>2
<1>5. InUser \in FaultStates
  BY DEF FaultStates
<1>6. /\ fault' \in [Spaces -> FaultStates] /\ fault'[s] = InUser
      /\ \A u \in Spaces : u # s => fault'[u] = fault[u]
  BY <1>2, <1>5
<1>7. TlbAgrees(current', pageTable', tlb')
  BY <1>1, <1>2, <1>4, PagingAssumption DEF TlbAgrees
<1>. QED BY <1>1, <1>3, <1>4, <1>6, <1>7 DEF Handled

(* and its wait for the disk, at x. *)
LEMMA WaitsFacts ==
  ASSUME NEW s \in Spaces, NEW table \in Tables, NEW t \in Tlbs, OneSlot(t),
         Confirmed(table, t), index \in Slots, index' = index,
         pageTable \in [Spaces -> Tables], fault \in [Spaces -> FaultStates],
         current = s, Waits(s, table, t),
         NEW x \in FaultStates, fault' = [fault EXCEPT ![s] = x]
  PROVE  Handled(s, table, x) /\ (current' = s => tlb' = t)
<1>1. /\ fault' \in [Spaces -> FaultStates] /\ fault'[s] = x
      /\ \A u \in Spaces : u # s => fault'[u] = fault[u]
  OBVIOUS
<1>2. s # Nobody
  BY PagingAssumption
<1>3. CASE build = "filesys"
  <2>1. /\ current' = Nobody /\ tlb' = EmptyTlb
        /\ pageTable' = [pageTable EXCEPT ![s] = Saved(table, t)]
    BY <1>3 DEF Waits
  <2>2. Saved(table, t) \in Tables /\ Same(table, Saved(table, t))
    BY SavedFacts
  <2>3. /\ pageTable' \in [Spaces -> Tables] /\ pageTable'[s] = Saved(table, t)
        /\ \A u \in Spaces : u # s => pageTable'[u] = pageTable[u]
    BY <2>1, <2>2
  <2>4. TlbAgrees(current', pageTable', tlb')
    BY <2>1, EmptyTlbFacts DEF TlbAgrees
  <2>. QED BY <1>1, <1>2, <2>1, <2>2, <2>3, <2>4 DEF Handled
<1>4. CASE build # "filesys"
  <2>1. /\ current' = current /\ tlb' = t
        /\ pageTable' = [pageTable EXCEPT ![s] = table]
    BY <1>4 DEF Waits
  <2>2. /\ pageTable' \in [Spaces -> Tables] /\ pageTable'[s] = table
        /\ \A u \in Spaces : u # s => pageTable'[u] = pageTable[u]
    BY <2>1
  <2>3. Same(table, table)
    BY DEF Same
  <2>4. TlbAgrees(current', pageTable', tlb')
    BY <1>2, <2>1, <2>2 DEF TlbAgrees
  <2>. QED BY <1>1, <2>1, <2>2, <2>3, <2>4 DEF Handled
<1>. QED BY <1>3, <1>4, Zenon

(* The entry of the page is filled in, and the page read or cleared. *)
LEMMA FillFrameFacts ==
  ASSUME NEW s \in Spaces, NEW table \in Tables, NEW t \in Tlbs, OneSlot(t),
         Confirmed(table, t), index \in Slots, NEW v \in Pages, NEW f \in Frames,
         ~table[v].valid,
         pageTable \in [Spaces -> Tables], fault \in [Spaces -> FaultStates],
         current = s, FillFrame(s, v, f, table, t)
  PROVE  \E x \in FaultStates :
           /\ Handled(s, Placed(table, v, f), x)
           /\ x = InUser \/ (/\ x.at = "load" /\ x.vpn = v /\ x.frame = f
                             /\ current' = s => \A k \in Slots :
                                  tlb'[k].valid => tlb'[k].virtualPage # v)
<1> DEFINE P == Placed(table, v, f)
<1>1. /\ P \in Tables /\ P[v].valid /\ P[v].physicalPage = f
      /\ \A u \in Pages : u # v => P[u] = table[u]
  BY PagingSizes, ZenonT(30) DEF Placed, Tables, Entries
<1>2. \A k \in Slots : t[k].valid => t[k].virtualPage # v
  BY DEF Confirmed, In
<1> HIDE DEF P
<1>3. Confirmed(P, t)
  BY <1>1, <1>2, Zenon DEF Confirmed, In
<1>4. CASE NeedsDisk(s, v)
  <2> DEFINE x == [at |-> "load", vpn |-> v, frame |-> f]
  <2>1. fault' = [fault EXCEPT ![s] = x] /\ Waits(s, P, t) /\ index' = index
    BY <1>4, Zenon DEF FillFrame, P
  <2>2. x \in FaultStates
    BY Zenon DEF FaultStates
  <2>3. x.at = "load" /\ x.vpn = v /\ x.frame = f
    OBVIOUS
  <2> HIDE DEF x
  <2>4. Handled(s, P, x) /\ (current' = s => tlb' = t)
    BY <1>1, <1>3, <2>1, <2>2, WaitsFacts, Zenon
  <2>. QED BY <1>2, <2>2, <2>3, <2>4 DEF P
<1>5. CASE ~NeedsDisk(s, v)
  <2>1. FinishFault(s, P, t, v) /\ current' = current
    BY <1>5, Zenon DEF FillFrame, P
  <2>2. Handled(s, P, InUser)
    BY <1>1, <1>2, <1>3, <2>1, FinishFaultFacts, Zenon
  <2>3. InUser \in FaultStates
    BY DEF FaultStates
  <2>. QED BY <2>2, <2>3, Zenon DEF P
<1>. QED BY <1>4, <1>5, Zenon

(* A step of the running process s keeps the whole sound, if the core map  *)
(* agrees with what its table becomes and keeps the frames of the others.  *)
LEMMA HandledSound ==
  ASSUME SoundNow,
         NEW s \in Spaces, current = s, alive' = alive,
         NEW table, NEW x, Handled(s, table, x),
         coremap' \in [Frames -> Owned \cup {Nobody}],
         MapAgrees([pageTable EXCEPT ![s] = table], coremap'),
         FaultAgrees(s, x, current', pageTable', tlb')
  PROVE  SoundNext
<1> DEFINE pt == [pageTable EXCEPT ![s] = table]
<1>0. /\ pageTable \in [Spaces -> Tables] /\ fault \in [Spaces -> FaultStates]
      /\ alive \in [Spaces -> {"new", "alive", "dead"}]
      /\ \A u \in Spaces : FaultAgrees(u, fault[u], current, pageTable, tlb)
      /\ \A u \in Spaces : alive[u] = "new" =>
           /\ current # u /\ fault[u] = InUser
           /\ \A v \in Pages : ~pageTable[u][v].valid
  BY Zenon DEF Sound, SoundNow
<1>1. pt[s] = table /\ \A u \in Spaces : u # s => pt[u] = pageTable[u]
  BY <1>0
<1>2. \A u \in Spaces : Same(pt[u], pageTable'[u])
  BY <1>1 DEF Handled, Same
<1>3. MapAgrees(pageTable', coremap')
  <2> HIDE DEF pt
  <2>. QED BY <1>2, MapSame, Zenon DEF pt
<1>4. ASSUME NEW u \in Spaces, u # s
      PROVE  FaultAgrees(u, fault'[u], current', pageTable', tlb')
  <2>1. fault'[u] = fault[u] /\ pageTable'[u] = pageTable[u] /\ current' # u
    BY <1>4, PagingAssumption, Zenon DEF Handled
  <2>2. FaultAgrees(u, fault[u], current, pageTable, tlb)
    BY <1>0
  <2> DEFINE y == fault[u]
  <2>3. y \in FaultStates
    BY <1>0
  <2> HIDE DEF y
  <2>. QED BY <2>1, <2>2, <2>3, Zenon DEF FaultAgrees, y
<1>5. FaultAgrees(s, fault'[s], current', pageTable', tlb')
  BY Zenon DEF Handled
<1>6. \A u \in Spaces : alive[u] = "new" =>
        /\ current' # u /\ fault'[u] = InUser
        /\ \A v \in Pages : ~pageTable'[u][v].valid
  BY <1>0, PagingAssumption DEF Handled
<1>7. /\ pageTable' \in [Spaces -> Tables] /\ current' \in Spaces \cup {Nobody}
      /\ index' \in Slots /\ fault' \in [Spaces -> FaultStates]
      /\ TlbAgrees(current', pageTable', tlb')
  BY Zenon DEF Handled
<1>. QED BY <1>0, <1>3, <1>4, <1>5, <1>6, <1>7, Zenon DEF SoundNext, Sound

(* The running process misses a page. *)
LEMMA MissFacts ==
  ASSUME SoundNow,
         NEW s \in Spaces, NEW v \in Pages, Misses(s, v)
  PROVE  /\ current = s /\ s # Nobody /\ fault[s] = InUser
         /\ pageTable[s] \in Tables /\ tlb \in Tlbs /\ OneSlot(tlb)
         /\ Confirmed(pageTable[s], tlb)
         /\ pageTable \in [Spaces -> Tables] /\ index \in Slots
         /\ fault \in [Spaces -> FaultStates]
         /\ \A k \in Slots : tlb[k].valid => tlb[k].virtualPage # v
BY PagingAssumption, Zenon DEF Sound, SoundNow, Misses, Running, TlbAgrees, Hits

(* The handler ends with the page v in its frame. *)
LEMMA FinishSound ==
  ASSUME SoundNow,
         NEW s \in Spaces, current = s, NEW v \in Pages,
         \A k \in Slots : tlb[k].valid => tlb[k].virtualPage # v,
         FinishFault(s, pageTable[s], tlb, v),
         alive' = alive, current' = current, coremap' = coremap
  PROVE  SoundNext
<1>1. /\ pageTable \in [Spaces -> Tables] /\ index \in Slots
      /\ fault \in [Spaces -> FaultStates] /\ TlbAgrees(current, pageTable, tlb)
      /\ coremap' \in [Frames -> Owned \cup {Nobody}]
      /\ MapAgrees(pageTable, coremap')
  BY Zenon DEF Sound, SoundNow
<1>2. /\ pageTable[s] \in Tables /\ tlb \in Tlbs /\ OneSlot(tlb)
      /\ Confirmed(pageTable[s], tlb)
  BY <1>1, PagingAssumption DEF TlbAgrees
<1>3. Handled(s, pageTable[s], InUser)
  BY <1>1, <1>2, FinishFaultFacts
<1>4. [pageTable EXCEPT ![s] = pageTable[s]] = pageTable
  BY <1>1
<1>5. FaultAgrees(s, InUser, current', pageTable', tlb')
  BY DEF FaultAgrees, InUser, FaultStates
<1>. QED BY <1>1, <1>3, <1>4, <1>5, HandledSound

LEMMA FaultPresentSound ==
  ASSUME SoundNow,
         NEW s \in Spaces, NEW v \in Pages, FaultPresent(s, v)
  PROVE  SoundNext
<1>1. /\ Misses(s, v) /\ FinishFault(s, pageTable[s], tlb, v)
      /\ alive' = alive /\ current' = current /\ coremap' = coremap
  BY DEF FaultPresent, kernel
<1>. QED BY <1>1, MissFacts, FinishSound

LEMMA LoadDoneSound ==
  ASSUME SoundNow,
         NEW s \in Spaces, LoadDone(s)
  PROVE  SoundNext
<1> DEFINE v == fault[s].vpn
<1>1. /\ current = s /\ fault[s].at = "load"
      /\ FinishFault(s, pageTable[s], tlb, v)
      /\ alive' = alive /\ current' = current /\ coremap' = coremap
  BY DEF LoadDone, kernel
<1>2. /\ fault[s] \in FaultStates
      /\ FaultAgrees(s, fault[s], current, pageTable, tlb)
  BY DEF Sound, SoundNow
<1>3. v \in Pages /\ \A k \in Slots : tlb[k].valid => tlb[k].virtualPage # v
  BY <1>1, <1>2, FaultFields, Zenon DEF FaultAgrees
<1>. QED BY <1>1, <1>3, FinishSound

(* `table` places the pages as `old` does, but for the one in frame f. *)
Without(table, old, f) ==
  /\ table \in Tables
  /\ \A w \in Pages : table[w].valid => table[w].physicalPage \in Frames
  /\ \A w \in Pages, g \in Frames : In(table, w, g) <=> In(old, w, g) /\ g # f

LEMMA NobodyIsNoPair ==
  ASSUME exe \in Layouts, NEW u \in Spaces, NEW w \in Pages
  PROVE  Nobody # <<u, w>>
<1>1. Nobody \notin Spaces \X Pages
  BY PagingAssumption DEF Pages
<1>. QED BY <1>1

(* A frame gets a page of s: the core map and the tables agree when the    *)
(* frame was clear or had a page of s.                                     *)
LEMMA MarkAgrees ==
  ASSUME exe \in Layouts,
         SoundNow,
         NEW s \in Spaces, NEW v \in Pages, NEW f \in Frames,
         NEW table, Without(table, pageTable[s], f), ~table[v].valid,
         coremap[f] = Nobody \/ \E w \in Pages : coremap[f] = <<s, w>>
  PROVE  /\ Mark(f, s, v) \in [Frames -> Owned \cup {Nobody}]
         /\ MapAgrees([pageTable EXCEPT ![s] = Placed(table, v, f)], Mark(f, s, v))
<1> DEFINE P == Placed(table, v, f)
           p2 == [pageTable EXCEPT ![s] = P]
           c2 == Mark(f, s, v)
<1>1. /\ P \in Tables /\ P[v].valid /\ P[v].physicalPage = f
      /\ \A u \in Pages : u # v => P[u] = table[u]
  BY PagingSizes, ZenonT(30) DEF Placed, Tables, Entries, Without
<1>2. /\ pageTable \in [Spaces -> Tables]
      /\ coremap \in [Frames -> Owned \cup {Nobody}]
      /\ MapAgrees(pageTable, coremap)
  BY DEF Sound, SoundNow
<1>3. /\ c2 \in [Frames -> Owned \cup {Nobody}]
      /\ c2[f] = <<s, v>> /\ \A g \in Frames : g # f => c2[g] = coremap[g]
  BY <1>2 DEF Mark, Owned
<1>4. p2[s] = P /\ \A u \in Spaces : u # s => p2[u] = pageTable[u]
  BY <1>2
<1> HIDE DEF P, p2, c2
<1>5. \A u \in Spaces, w \in Pages : u # s => coremap[f] # <<u, w>>
  BY NobodyIsNoPair
<1>6. \A u \in Spaces, w \in Pages : p2[u][w].valid => p2[u][w].physicalPage \in Frames
  BY <1>1, <1>2, <1>4 DEF MapAgrees, Without
<1>7. ASSUME NEW g \in Frames, NEW u \in Spaces, NEW w \in Pages
      PROVE  c2[g] = <<u, w>> <=> In(p2[u], w, g)
  <2>1. coremap[g] = <<u, w>> <=> In(pageTable[u], w, g)
    BY <1>2, Zenon DEF MapAgrees
  <2>2. CASE u # s
    <3>1. g = f => c2[g] # <<u, w>>
      BY <1>3, <2>2
    <3>. QED BY <1>3, <1>4, <1>5, <2>1, <2>2, <3>1, Zenon
  <2>3. CASE u = s
    <3>1. In(table, w, g) <=> In(pageTable[s], w, g) /\ g # f
      BY DEF Without
    <3>2. In(P, w, g) <=> IF w = v THEN g = f ELSE In(table, w, g)
      BY <1>1 DEF In
    <3>3. w = v => ~In(table, w, g)
      BY DEF In
    <3>4. g = f => (c2[g] = <<u, w>> <=> w = v)
      BY <1>3, <2>3
    <3>. QED BY <1>3, <1>4, <2>1, <2>3, <3>1, <3>2, <3>3, <3>4, Zenon
  <2>. QED BY <2>2, <2>3, Zenon
<1>8. MapAgrees(p2, c2)
  BY <1>6, <1>7, Zenon DEF MapAgrees
<1>. QED BY <1>3, <1>8, Zenon DEF P, p2, c2

(* The frame f is filled with the page v of s: after a fault with a clear  *)
(* frame, or when the victim has been given up.                            *)
LEMMA FillSound ==
  ASSUME exe \in Layouts,
         SoundNow,
         NEW s \in Spaces, NEW v \in Pages, NEW f \in Frames,
         current = s, alive' = alive,
         NEW table, Without(table, pageTable[s], f), ~table[v].valid,
         NEW t \in Tlbs, OneSlot(t), Confirmed(table, t),
         coremap[f] = Nobody \/ \E w \in Pages : coremap[f] = <<s, w>>,
         coremap' = Mark(f, s, v), FillFrame(s, v, f, table, t)
  PROVE  SoundNext
<1> DEFINE P == Placed(table, v, f)
<1>1. /\ pageTable \in [Spaces -> Tables] /\ fault \in [Spaces -> FaultStates]
      /\ index \in Slots /\ table \in Tables
  BY DEF Sound, SoundNow, Without
<1>2. PICK x \in FaultStates :
           /\ Handled(s, P, x)
           /\ x = InUser \/ (/\ x.at = "load" /\ x.vpn = v /\ x.frame = f
                             /\ current' = s => \A k \in Slots :
                                  tlb'[k].valid => tlb'[k].virtualPage # v)
  BY <1>1, FillFrameFacts
<1>3. /\ coremap' \in [Frames -> Owned \cup {Nobody}]
      /\ MapAgrees([pageTable EXCEPT ![s] = P], coremap')
  BY MarkAgrees, Zenon
<1>4. In(P, v, f)
  BY <1>1, PagingSizes, Zenon DEF Placed, Tables, Entries, In
<1> HIDE DEF P
<1>5. In(pageTable'[s], v, f)
  BY <1>2, <1>4, Zenon DEF Handled, Same, In
<1>6. FaultAgrees(s, x, current', pageTable', tlb')
  <2>1. CASE x = InUser
    <3>1. x.at # "load"
      BY <2>1, Zenon DEF InUser
    <3>. QED BY <3>1, Zenon DEF FaultAgrees
  <2>2. CASE x # InUser
    BY <1>2, <1>5, <2>2, Zenon DEF FaultAgrees
  <2>. QED BY <2>1, <2>2, Zenon
<1>. QED BY <1>2, <1>3, <1>6, HandledSound, Zenon

LEMMA FaultFreeSound ==
  ASSUME exe \in Layouts,
         SoundNow,
         NEW s \in Spaces, NEW v \in Pages, FaultFree(s, v)
  PROVE  SoundNext
<1>1. PICK f \in Clear : /\ coremap' = Mark(f, s, v)
                         /\ FillFrame(s, v, f, pageTable[s], tlb)
  BY DEF FaultFree
<1>2. Misses(s, v) /\ ~pageTable[s][v].valid /\ alive' = alive
  BY DEF FaultFree
<1>3. f \in Frames /\ coremap[f] = Nobody
  BY <1>1 DEF Clear
<1>4. MapAgrees(pageTable, coremap)
  BY DEF Sound, SoundNow
<1>5. \A w \in Pages : ~In(pageTable[s], w, f)
  BY <1>3, <1>4, NobodyIsNoPair, Zenon DEF MapAgrees
<1>6. Without(pageTable[s], pageTable[s], f)
  BY <1>2, <1>4, <1>5, MissFacts, ZenonT(30) DEF Without, MapAgrees
<1>. QED BY <1>1, <1>2, <1>3, <1>6, MissFacts, FillSound, Zenon

LEMMA EntryReleased ==
  ASSUME NEW e \in Entries, NEW n \in Int
  PROVE  LET x == [e EXCEPT !.dirty = FALSE, !.valid = FALSE, !.physicalPage = n]
         IN  x \in Entries /\ ~x.valid
BY Zenon DEF Entries

(* A victim of s, in the frame f with the page vpn, is on its way out: old *)
(* is the table of s again, and t has no translation of the frame.         *)
Leaving(s, f, vpn, old, t) ==
  /\ f \in Frames /\ vpn \in Pages /\ coremap[f] = <<s, vpn>>
  /\ old \in Tables /\ Same(pageTable[s], old)
  /\ t \in Tlbs /\ OneSlot(t) /\ Confirmed(old, t)
  /\ \A k \in Slots : t[k].valid => t[k].physicalPage # f

(* The victim's entry is given up: its page was the only one in the frame. *)
LEMMA ReleasedFacts ==
  ASSUME SoundNow, NEW s \in Spaces, NEW f, NEW vpn, NEW old, NEW t,
         Leaving(s, f, vpn, old, t)
  PROVE  LET table == Released(old, vpn)
         IN  /\ Without(table, pageTable[s], f) /\ Confirmed(table, t)
             /\ \A v \in Pages : ~pageTable[s][v].valid => ~table[v].valid
<1> DEFINE table == Released(old, vpn)
<1> DEFINE e == [old[vpn] EXCEPT !.dirty = FALSE, !.valid = FALSE, !.physicalPage = -1]
<1>a. /\ f \in Frames /\ vpn \in Pages /\ coremap[f] = <<s, vpn>>
      /\ old \in Tables /\ Same(pageTable[s], old) /\ Confirmed(old, t)
      /\ \A k \in Slots : t[k].valid => t[k].physicalPage # f
  BY Zenon DEF Leaving
<1>0. table = [old EXCEPT ![vpn] = e]
  BY <1>a, Zenon DEF Released, Tables
<1>e. old[vpn] \in Entries
  BY <1>a, Zenon DEF Tables
<1>f. e \in Entries /\ ~e.valid
  <2> DEFINE n == -1
  <2>1. n \in Int
    OBVIOUS
  <2>2. e = [old[vpn] EXCEPT !.dirty = FALSE, !.valid = FALSE, !.physicalPage = n]
    BY Zenon
  <2> HIDE DEF n, e
  <2>. QED BY <1>e, <2>1, <2>2, EntryReleased, Zenon
<1> HIDE DEF e
<1>1. /\ table \in Tables /\ ~table[vpn].valid
      /\ \A w \in Pages : w # vpn => table[w] = old[w]
  BY <1>a, <1>0, <1>f, Zenon DEF Tables
<1>2. MapAgrees(pageTable, coremap)
  BY DEF Sound, SoundNow
<1> HIDE DEF table
<1>3. \A w \in Pages : In(pageTable[s], w, f) <=> w = vpn
  BY <1>a, <1>2 DEF MapAgrees
<1>4. \A w \in Pages, g \in Frames : In(old, w, g) <=> In(pageTable[s], w, g)
  BY <1>a, Zenon DEF Same, In
<1>5. In(pageTable[s], vpn, f)
  BY <1>a, <1>3
<1>6. \A w \in Pages, g \in Frames : In(table, w, g) <=> In(pageTable[s], w, g) /\ g # f
  BY <1>a, <1>1, <1>3, <1>4, <1>5 DEF In
<1>7. \A w \in Pages : table[w].valid => table[w].physicalPage \in Frames
  <2> SUFFICES ASSUME NEW w \in Pages, table[w].valid PROVE table[w].physicalPage \in Frames
    BY Zenon
  <2>1. w # vpn /\ table[w] = old[w]
    BY <1>1, Zenon
  <2>. QED BY <1>a, <1>2, <2>1, ZenonT(30) DEF Same, MapAgrees
<1>8. Confirmed(table, t)
  BY <1>a, <1>1, <1>4, <1>5 DEF Confirmed, In, Same
<1>. QED BY <1>a, <1>1, <1>6, <1>7, <1>8, Zenon DEF Without, table, Same

(* Its frame is filled with the page of the fault. *)
LEMMA GivenUpSound ==
  ASSUME exe \in Layouts, SoundNow,
         NEW s \in Spaces, NEW v \in Pages, NEW f, NEW vpn, NEW old, NEW t,
         Leaving(s, f, vpn, old, t),
         current = s, alive' = alive, ~pageTable[s][v].valid,
         coremap' = Mark(f, s, v), FillFrame(s, v, f, Released(old, vpn), t)
  PROVE  SoundNext
<1> DEFINE table == Released(old, vpn)
<1>1. Without(table, pageTable[s], f) /\ Confirmed(table, t) /\ ~table[v].valid
  BY ReleasedFacts, Zenon
<1>2. f \in Frames /\ t \in Tlbs /\ OneSlot(t) /\ \E w \in Pages : coremap[f] = <<s, w>>
  BY Zenon DEF Leaving
<1>3. FillFrame(s, v, f, table, t)
  OBVIOUS
<1> HIDE DEF table
<1>. QED BY <1>1, <1>2, <1>3, FillSound, Zenon

(* A TLB that holds the translations of t, with other bits at most. *)
SameSlots(t, r) ==
  /\ r \in Tlbs
  /\ \A k \in Slots : /\ t[k].valid = r[k].valid
                      /\ t[k].virtualPage = r[k].virtualPage
                      /\ t[k].physicalPage = r[k].physicalPage

LEMMA SameSlotsFacts ==
  ASSUME NEW table, NEW t, NEW r, SameSlots(t, r), OneSlot(t), Confirmed(table, t)
  PROVE  OneSlot(r) /\ Confirmed(table, r)
BY Zenon DEF SameSlots, OneSlot, Confirmed

(* A frame is in one slot of the TLB, too. *)
InFrame(t, g) == {k \in Slots : t[k].valid /\ t[k].physicalPage = g}

HasFrame(m, t, g, s) ==
  /\ m \in InFrame(t, g)
  /\ \A k \in InFrame(t, g) : k = m /\ coremap[g] = <<s, t[k].virtualPage>>

LEMMA FrameSlot ==
  ASSUME SoundNow,
         NEW s \in Spaces, NEW table, Same(pageTable[s], table),
         NEW t, OneSlot(t), Confirmed(table, t),
         NEW g \in Frames, InFrame(t, g) # {}
  PROVE  HasFrame(Min(InFrame(t, g)), t, g, s)
<1>1. ASSUME NEW k \in InFrame(t, g)
      PROVE  t[k].virtualPage \in Pages /\ coremap[g] = <<s, t[k].virtualPage>>
  <2>1. t[k].virtualPage \in Pages /\ In(table, t[k].virtualPage, g)
    BY DEF InFrame, Confirmed
  <2>2. In(pageTable[s], t[k].virtualPage, g)
    BY <2>1, Zenon DEF Same, In
  <2>3. MapAgrees(pageTable, coremap)
    BY DEF Sound, SoundNow
  <2>. QED BY <2>1, <2>2, <2>3, Zenon DEF MapAgrees
<1>2. \A k, l \in InFrame(t, g) : t[k].virtualPage = t[l].virtualPage
  BY <1>1
<1>3. \A k, l \in InFrame(t, g) : k = l
  BY <1>2 DEF OneSlot, InFrame
<1>4. InFrame(t, g) \in SUBSET Int
  BY PagingSizes, Zenon DEF InFrame
<1>5. Min(InFrame(t, g)) \in InFrame(t, g)
  BY <1>3, <1>4, OnlySlot
<1>. QED BY <1>1, <1>3, <1>5, Zenon DEF HasFrame

(* EscribirFrameenSwap up to the write: the translation of the frame is in *)
(* the table again, and in the TLB no more.                                *)
LEMMA TakenBackFacts ==
  ASSUME SoundNow,
         NEW s \in Spaces, NEW table \in Tables, Same(pageTable[s], table),
         NEW t \in Tlbs, OneSlot(t), Confirmed(table, t),
         NEW f \in Frames, NEW vpn \in Pages, coremap[f] = <<s, vpn>>
  PROVE  LET back == TakenBack(f, table, t)
         IN  Leaving(s, f, vpn, back[1], back[2])
<1> DEFINE in == InFrame(t, f)
           m == Min(in)
           e == [physicalPage |-> f, valid |-> TRUE, use |-> t[m].use,
                 dirty |-> t[m].dirty]
           p2 == [table EXCEPT ![vpn] = e]
           t2 == [t EXCEPT ![m] = NoEntry]
           back == TakenBack(f, table, t)
<1>1. GetVpn(f) = vpn
  BY DEF GetVpn
<1>2. back = IF in = {} THEN <<table, t>> ELSE <<p2, t2>>
  BY <1>1, Zenon DEF TakenBack, InFrame
<1>3. CASE in = {}
  <2>1. back[1] = table /\ back[2] = t
    BY <1>2, <1>3
  <2>2. \A k \in Slots : t[k].valid => t[k].physicalPage # f
    BY <1>3, Zenon DEF InFrame
  <2>3. Leaving(s, f, vpn, table, t)
    BY <2>2, Zenon DEF Leaving
  <2> HIDE DEF back
  <2>. QED BY <2>1, <2>3, Zenon DEF back
<1>4. CASE in # {}
  <2>0. HasFrame(m, t, f, s)
    BY <1>4, FrameSlot, Zenon
  <2>1. m \in in /\ \A k \in in : k = m /\ coremap[f] = <<s, t[k].virtualPage>>
    BY <2>0, Zenon DEF HasFrame
  <2>2. back[1] = p2 /\ back[2] = t2
    BY <1>2, <1>4
  <2>3. m \in Slots /\ t[m] \in TlbEntries /\ t[m].virtualPage = vpn
        /\ In(table, vpn, f)
    BY <2>1 DEF InFrame, Tlbs, Confirmed
  <2>4. e \in Entries /\ e.valid = TRUE /\ e.physicalPage = f
    BY <2>3, PagingSizes, Zenon DEF Entries, TlbEntries
  <2>5. NoEntry \in TlbEntries /\ ~NoEntry.valid
    BY EmptyTlbFacts, Zenon
  <2> HIDE DEF m, in, e, back
  <2>6. p2 \in Tables /\ p2[vpn] = e /\ \A w \in Pages : w # vpn => p2[w] = table[w]
    BY <2>4, Zenon DEF Tables
  <2>7. t2 \in Tlbs /\ t2[m] = NoEntry /\ \A k \in Slots : k # m => t2[k] = t[k]
    BY <2>3, <2>5, Zenon DEF Tlbs
  <2> HIDE DEF p2, t2
  <2>8. table[vpn].valid = TRUE
    BY <2>3, Zenon DEF In, Tables, Entries
  <2>9. Same(table, p2)
    BY <2>3, <2>4, <2>6, <2>8, Zenon DEF Same, In
  <2>10. Same(pageTable[s], p2)
    BY <2>9, Zenon DEF Same
  <2>11. Confirmed(p2, t)
    BY <2>9, SameConfirms
  <2>12. OneSlot(t2)
    BY <2>5, <2>7, Zenon DEF OneSlot
  <2>13. Confirmed(p2, t2)
    BY <2>5, <2>7, <2>11, Zenon DEF Confirmed
  <2>14. \A k \in Slots : t2[k].valid => t2[k].physicalPage # f
    BY <2>1, <2>5, <2>7, Zenon DEF in, InFrame
  <2>15. Leaving(s, f, vpn, p2, t2)
    BY <2>6, <2>7, <2>10, <2>12, <2>13, <2>14, Zenon DEF Leaving
  <2>. QED BY <2>2, <2>15, Zenon DEF back
<1>. QED BY <1>3, <1>4, Zenon

(* Every frame has a page when none is clear. *)
LEMMA NoneClear ==
  ASSUME SoundNow, Clear = {},
         NEW g \in Frames
  PROVE  coremap[g] = <<GetAddressSpace(g), GetVpn(g)>>
         /\ GetAddressSpace(g) \in Spaces /\ GetVpn(g) \in Pages
<1>1. coremap[g] \in Owned
  BY DEF Sound, SoundNow, Clear
<1>. QED BY <1>1 DEF Owned, GetAddressSpace, GetVpn

(* The clock changes use bits only. *)
LEMMA UseClearedFacts ==
  ASSUME SoundNow, Clear = {},
         victima \in Frames, NEW s \in Spaces, current = s
  PROVE  LET new == UseCleared(s)
         IN  new[1] \in Tables /\ Same(pageTable[s], new[1]) /\ SameSlots(tlb, new[2])
<1> DEFINE in == InFrame(tlb, victima)
           m == Min(in)
           w == GetVpn(victima)
           new == UseCleared(s)
           p2 == [pageTable[s] EXCEPT ![w].use = FALSE]
           t2 == [tlb EXCEPT ![m].use = FALSE]
<1>1. \/ new = <<pageTable[s], tlb>>
      \/ in # {} /\ new = <<pageTable[s], t2>>
      \/ new = <<p2, tlb>>
  BY Zenon DEF UseCleared, InFrame
<1>2. /\ pageTable[s] \in Tables /\ tlb \in Tlbs /\ OneSlot(tlb)
      /\ Confirmed(pageTable[s], tlb)
  BY PagingAssumption, Zenon DEF Sound, SoundNow, TlbAgrees
<1>3. Same(pageTable[s], pageTable[s]) /\ SameSlots(tlb, tlb)
  BY <1>2 DEF Same, SameSlots
<1>4. in # {} => SameSlots(tlb, t2)
  <2> SUFFICES ASSUME in # {} PROVE SameSlots(tlb, t2)
    OBVIOUS
  <2>1. m \in Slots
    <3>1. m \in in
      BY <1>2, <1>3, FrameSlot, Zenon DEF HasFrame
    <3>. QED BY <3>1 DEF InFrame
  <2>2. tlb[m] \in TlbEntries
    BY <1>2, <2>1 DEF Tlbs
  <2> HIDE DEF m, in
  <2>3. [tlb[m] EXCEPT !.use = FALSE] \in TlbEntries
    BY <2>2, Zenon DEF TlbEntries
  <2>. QED BY <1>2, <2>1, <2>2, <2>3 DEF SameSlots, Tlbs, TlbEntries
<1>5. p2 \in Tables /\ Same(pageTable[s], p2)
  <2>1. w \in Pages
    BY NoneClear
  <2>2. pageTable[s][w] \in Entries
    BY <1>2, <2>1 DEF Tables
  <2> HIDE DEF w
  <2>3. [pageTable[s][w] EXCEPT !.use = FALSE] \in Entries
    BY <2>2, Zenon DEF Entries
  <2>. QED BY <1>2, <2>1, <2>2, <2>3 DEF Same, Tables, Entries
<1> HIDE DEF p2, t2, in, new
<1>. QED BY <1>1, <1>2, <1>3, <1>4, <1>5 DEF new

(* What a victim leaves: the hand in a frame, and other bits at most. *)
LEMMA PickFacts ==
  ASSUME SoundNow, Clear = {},
         victima \in Frames, NEW s \in Spaces, current = s,
         NEW pick \in PickVictim(s)
  PROVE  /\ pick.frame \in Frames /\ pick.hand \in Frames
         /\ pick.table \in Tables /\ Same(pageTable[s], pick.table)
         /\ SameSlots(tlb, pick.tlb)
<1>1. \A n \in Frames : (n + 1) % NUM_PHYS_PAGES \in Frames
  BY PagingSizes DEF Frames
<1>2. CASE build = "vmem"
  <2> DEFINE f == ClockVictim(s)
             new == UseCleared(s)
  <2>1. pick = [frame |-> f, hand |-> (f + 1) % NUM_PHYS_PAGES,
                table |-> new[1], tlb |-> new[2]]
    BY <1>2, Zenon DEF PickVictim
  <2>2. f \in Frames
    BY <1>1 DEF ClockVictim
  <2>3. new[1] \in Tables /\ Same(pageTable[s], new[1]) /\ SameSlots(tlb, new[2])
    BY UseClearedFacts
  <2> HIDE DEF f, new
  <2>. QED BY <1>1, <2>1, <2>2, <2>3
<1>3. CASE build # "vmem"
  <2>1. PICK f \in Frames : pick = [frame |-> f, hand |-> victima,
                                    table |-> pageTable[s], tlb |-> tlb]
    BY <1>3, Zenon DEF PickVictim
  <2>2. pageTable[s] \in Tables /\ tlb \in Tlbs
    BY DEF Sound, SoundNow, TlbAgrees
  <2>3. Same(pageTable[s], pageTable[s]) /\ SameSlots(tlb, tlb)
    BY <2>2 DEF Same, SameSlots
  <2>. QED BY <2>1, <2>2, <2>3
<1>. QED BY <1>2, <1>3, Zenon

LEMMA ReplaceSound ==
  ASSUME exe \in Layouts, SoundNow, Clear = {}, victima \in Frames,
         NEW s \in Spaces, current = s, alive' = alive,
         NEW v \in Pages, ~pageTable[s][v].valid,
         NEW pick \in PickVictim(s), GetAddressSpace(pick.frame) = s,
         Replace(s, v, pick)
  PROVE  SoundNext
<1> DEFINE f == pick.frame
           vpn == GetVpn(f)
           back == TakenBack(f, pick.table, pick.tlb)
<1>1. /\ f \in Frames /\ pick.table \in Tables /\ Same(pageTable[s], pick.table)
      /\ SameSlots(tlb, pick.tlb)
  BY PickFacts, Zenon
<1>2. vpn \in Pages /\ coremap[f] = <<s, vpn>>
  BY <1>1, NoneClear, Zenon
<1>3. OneSlot(tlb) /\ Confirmed(pageTable[s], tlb)
  BY PagingAssumption, Zenon DEF Sound, SoundNow, TlbAgrees
<1>4. Confirmed(pick.table, tlb)
  BY <1>1, <1>3, SameConfirms, Zenon
<1>5. /\ pick.tlb \in Tlbs /\ OneSlot(pick.tlb) /\ Confirmed(pick.table, pick.tlb)
  BY <1>1, <1>3, <1>4, SameSlotsFacts, Zenon DEF SameSlots
<1>6. Leaving(s, f, vpn, back[1], back[2])
  BY <1>1, <1>2, <1>5, TakenBackFacts, Zenon
<1>7. coremap' = Mark(f, s, v) /\ FillFrame(s, v, f, Released(back[1], vpn), back[2])
  BY Zenon DEF Replace
<1> HIDE DEF f, vpn, back
<1>. QED BY <1>6, <1>7, GivenUpSound, Zenon

LEMMA FaultVictimSound ==
  ASSUME exe \in Layouts, victima \in Frames, SoundNow,
         NEW s \in Spaces, NEW v \in Pages, FaultVictim(s, v)
  PROVE  victima' \in Frames /\ (crossed' \/ SoundNext)
<1>1. Misses(s, v) /\ ~pageTable[s][v].valid /\ Clear = {} /\ alive' = alive
  BY DEF FaultVictim
<1>2. PICK pick \in PickVictim(s) :
        /\ victima' = pick.hand
        /\ crossed' = (crossed \/ GetAddressSpace(pick.frame) # s)
        /\ Replace(s, v, pick)
  BY DEF FaultVictim
<1>3. current = s
  BY <1>1, MissFacts, Zenon
<1>4. victima' \in Frames
  BY <1>1, <1>2, <1>3, PickFacts, Zenon
<1>5. GetAddressSpace(pick.frame) = s => SoundNext
  BY <1>1, <1>2, <1>3, ReplaceSound, Zenon
<1>. QED BY <1>2, <1>4, <1>5, Zenon

(* A step that places no page and adds no translation. *)
LEMMA BitsSound ==
  ASSUME SoundNow,
         pageTable' \in [Spaces -> Tables],
         \A u \in Spaces : Same(pageTable[u], pageTable'[u]),
         alive' \in [Spaces -> {"new", "alive", "dead"}],
         \A u \in Spaces : alive'[u] = "new" => alive[u] = "new" /\ current' # u,
         current' \in Spaces \cup {Nobody},
         TlbAgrees(current', pageTable', tlb'),
         \A k \in Slots : tlb'[k].valid =>
           /\ current' = current /\ tlb[k].valid
           /\ tlb'[k].virtualPage = tlb[k].virtualPage
           /\ tlb'[k].physicalPage = tlb[k].physicalPage,
         index' = index, coremap' = coremap, fault' = fault
  PROVE  SoundNext
<1>0. /\ index \in Slots /\ coremap \in [Frames -> Owned \cup {Nobody}]
      /\ fault \in [Spaces -> FaultStates] /\ MapAgrees(pageTable, coremap)
      /\ \A u \in Spaces : FaultAgrees(u, fault[u], current, pageTable, tlb)
      /\ \A u \in Spaces : alive[u] = "new" =>
           fault[u] = InUser /\ \A v \in Pages : ~pageTable[u][v].valid
  BY Zenon DEF Sound, SoundNow
<1>1. MapAgrees(pageTable', coremap')
  <2> DEFINE p == pageTable
             q == pageTable'
  <2>1. MapAgrees(p, coremap) /\ (\A u \in Spaces : Same(p[u], q[u])) /\ coremap' = coremap
    BY <1>0, Zenon
  <2> HIDE DEF p, q
  <2>2. MapAgrees(q, coremap)
    BY <2>1, MapSame, Zenon
  <2>. QED BY <2>1, <2>2, Zenon DEF q
<1>2. ASSUME NEW u \in Spaces
      PROVE  FaultAgrees(u, fault'[u], current', pageTable', tlb')
  <2> DEFINE y == fault[u]
  <2>1. FaultAgrees(u, y, current, pageTable, tlb) /\ y \in FaultStates
    BY <1>0, Zenon
  <2>2. Same(pageTable[u], pageTable'[u])
    BY Zenon
  <2>3. y.at = "load" => y.vpn \in Pages
    BY <2>1, FaultFields, Zenon
  <2> HIDE DEF y
  <2>4. y.at = "load" =>
          /\ In(pageTable'[u], y.vpn, y.frame)
          /\ current' = u => \A k \in Slots : tlb'[k].valid => tlb'[k].virtualPage # y.vpn
    BY <2>1, <2>2, <2>3, Zenon DEF FaultAgrees, Same, In
  <2>. QED BY <2>1, <2>4, Zenon DEF FaultAgrees, y
<1>3. \A u \in Spaces : alive'[u] = "new" =>
        /\ current' # u /\ fault'[u] = InUser
        /\ \A v \in Pages : ~pageTable'[u][v].valid
  <2> SUFFICES ASSUME NEW u \in Spaces, alive'[u] = "new"
               PROVE  /\ current' # u /\ fault'[u] = InUser
                      /\ \A v \in Pages : ~pageTable'[u][v].valid
    BY Zenon
  <2>1. /\ alive[u] = "new" /\ current' # u /\ Same(pageTable[u], pageTable'[u])
        /\ fault[u] = InUser /\ fault' = fault /\ \A v \in Pages : ~pageTable[u][v].valid
    BY <1>0, Zenon
  <2>. QED BY <2>1, Zenon DEF Same
<1>. QED BY <1>0, <1>1, <1>2, <1>3, Zenon DEF SoundNext, Sound

(* The MMU sets use and dirty bits. *)
LEMMA TouchFacts ==
  ASSUME SoundNow,
         NEW s \in Spaces, NEW v \in Pages, NEW writing \in BOOLEAN,
         Running(s), Touch(s, v, writing)
  PROVE  /\ pageTable' \in [Spaces -> Tables]
         /\ \A u \in Spaces : Same(pageTable[u], pageTable'[u])
         /\ SameSlots(tlb, tlb')
<1>1. /\ pageTable \in [Spaces -> Tables] /\ tlb \in Tlbs /\ OneSlot(tlb)
  BY Zenon DEF Sound, SoundNow, TlbAgrees
<1>2. \A u \in Spaces : Same(pageTable[u], pageTable[u])
  BY DEF Same
<1>3. CASE build = "userprog"
  <2> DEFINE e == [pageTable[s][v] EXCEPT !.use = TRUE, !.dirty = @ \/ writing]
             p2 == [pageTable[s] EXCEPT ![v] = e]
  <2>1. pageTable[s] \in Tables /\ pageTable[s][v] \in Entries
    BY <1>1 DEF Tables
  <2>2. pageTable' = [pageTable EXCEPT ![s] = p2] /\ tlb' = tlb
    BY <1>1, <1>3, <2>1, ZenonT(30) DEF Touch, Tables, Entries
  <2>3. /\ e \in Entries /\ e.valid = pageTable[s][v].valid
        /\ e.physicalPage = pageTable[s][v].physicalPage
    BY <2>1, Zenon DEF Entries
  <2> HIDE DEF e
  <2>4. p2 \in Tables /\ Same(pageTable[s], p2)
    BY <2>1, <2>3, Zenon DEF Tables, Same
  <2> HIDE DEF p2
  <2>. QED BY <1>1, <1>2, <2>2, <2>4, Zenon DEF SameSlots
<1>4. CASE build # "userprog"
  <2> DEFINE m == Min(Hits(v))
             e == [tlb[m] EXCEPT !.use = TRUE, !.dirty = @ \/ writing]
  <2>1. Hits(v) # {}
    BY <1>4 DEF Touch
  <2>2. m \in Slots
    <3>1. Hits(v) \in SUBSET Int /\ \A k, l \in Hits(v) : k = l
      BY <1>1, PagingSizes, Zenon DEF Hits, OneSlot
    <3>2. m \in Hits(v)
      BY <2>1, <3>1, OnlySlot
    <3>. QED BY <3>2 DEF Hits
  <2>3. tlb[m] \in TlbEntries
    BY <1>1, <2>2 DEF Tlbs
  <2>4. pageTable' = pageTable /\ tlb' = [tlb EXCEPT ![m].use = TRUE, ![m].dirty = @ \/ writing]
    BY <1>4, Zenon DEF Touch
  <2> HIDE DEF m
  <2>5. tlb' = [tlb EXCEPT ![m] = e]
    BY <1>1, <2>2, <2>3, <2>4, Zenon DEF Tlbs, TlbEntries
  <2>6. /\ e \in TlbEntries /\ e.valid = tlb[m].valid
        /\ e.virtualPage = tlb[m].virtualPage /\ e.physicalPage = tlb[m].physicalPage
    BY <2>3, Zenon DEF TlbEntries
  <2> HIDE DEF e
  <2>. QED BY <1>1, <1>2, <2>2, <2>4, <2>5, <2>6, ZenonT(30) DEF SameSlots, Tlbs
<1>. QED BY <1>3, <1>4, Zenon

LEMMA AccessSound ==
  ASSUME SoundNow,
         NEW s \in Spaces, NEW v \in Pages, NEW writing \in BOOLEAN,
         Running(s), Touch(s, v, writing), alive' = alive, current' = current,
         index' = index, coremap' = coremap, fault' = fault
  PROVE  SoundNext
<1>1. /\ pageTable' \in [Spaces -> Tables]
      /\ \A u \in Spaces : Same(pageTable[u], pageTable'[u])
      /\ SameSlots(tlb, tlb')
  BY TouchFacts
<1>2. /\ current = s /\ s # Nobody /\ OneSlot(tlb) /\ Confirmed(pageTable[s], tlb)
  BY PagingAssumption, Zenon DEF Sound, SoundNow, TlbAgrees, Running
<1>3. Confirmed(pageTable'[s], tlb)
  BY <1>1, <1>2, SameConfirms
<1>4. TlbAgrees(current', pageTable', tlb')
  BY <1>1, <1>2, <1>3, SameSlotsFacts, Zenon DEF TlbAgrees, SameSlots
<1>. QED BY <1>1, <1>4, BitsSound, Zenon DEF Sound, SoundNow, SameSlots

LEMMA EmptySound ==
  ASSUME SoundNow,
         pageTable' \in [Spaces -> Tables],
         \A u \in Spaces : Same(pageTable[u], pageTable'[u]),
         current' \in Spaces \cup {Nobody},
         \A u \in Spaces : alive[u] = "new" => current' # u,
         tlb' = EmptyTlb, alive' = alive, index' = index, coremap' = coremap,
         fault' = fault
  PROVE  SoundNext
<1>1. \A k \in Slots : ~tlb'[k].valid
  BY EmptyTlbFacts, Zenon
<1>2. TlbAgrees(current', pageTable', tlb')
  BY EmptyTlbFacts, Zenon DEF TlbAgrees, Confirmed
<1>. QED BY <1>1, <1>2, BitsSound, Zenon DEF Sound, SoundNow

LEMMA SwitchSound ==
  ASSUME SoundNow,
         NEW s \in Spaces, SwitchOut(s) \/ SwitchIn(s)
  PROVE  SoundNext
<1>0. Nobody \notin Spaces
  BY PagingAssumption
<1>1. CASE SwitchOut(s)
  <2>1. /\ current = s /\ current' = Nobody /\ tlb' = EmptyTlb
        /\ pageTable' = [pageTable EXCEPT ![s] = Saved(pageTable[s], tlb)]
        /\ alive' = alive /\ index' = index /\ coremap' = coremap /\ fault' = fault
    BY <1>1, Zenon DEF SwitchOut, Running, kernel
  <2>2. pageTable \in [Spaces -> Tables] /\ tlb \in Tlbs /\ OneSlot(tlb)
    BY Zenon DEF Sound, SoundNow, TlbAgrees
  <2> DEFINE p2 == Saved(pageTable[s], tlb)
  <2>3. p2 \in Tables /\ Same(pageTable[s], p2)
    BY <2>2, SavedFacts
  <2> HIDE DEF p2
  <2>4. /\ pageTable' \in [Spaces -> Tables] /\ pageTable'[s] = p2
        /\ \A u \in Spaces : u # s => pageTable'[u] = pageTable[u]
    BY <2>1, <2>2, <2>3 DEF p2
  <2>5. \A u \in Spaces : Same(pageTable[u], pageTable'[u])
    BY <2>3, <2>4, Zenon DEF Same
  <2>. QED BY <1>0, <2>1, <2>4, <2>5, EmptySound, Zenon
<1>2. CASE SwitchIn(s)
  <2>1. /\ alive[s] = "alive" /\ current' = s /\ tlb' = EmptyTlb
        /\ pageTable' = pageTable
        /\ alive' = alive /\ index' = index /\ coremap' = coremap /\ fault' = fault
    BY <1>2 DEF SwitchIn, kernel
  <2>2. pageTable \in [Spaces -> Tables]
    BY DEF Sound, SoundNow
  <2>3. \A u \in Spaces : Same(pageTable[u], pageTable'[u])
    BY <2>1, Zenon DEF Same
  <2>4. \A u \in Spaces : alive[u] = "new" => current' # u
    BY <2>1
  <2>. QED BY <2>1, <2>2, <2>3, <2>4, EmptySound
<1>. QED BY <1>1, <1>2

LEMMA StartEmptySound ==
  ASSUME SoundNow,
         NEW s \in Spaces, StartEmpty(s)
  PROVE  SoundNext
<1>1. /\ alive' = [alive EXCEPT ![s] = "alive"] /\ current' = current
      /\ pageTable' = pageTable /\ tlb' = tlb /\ index' = index
      /\ coremap' = coremap /\ fault' = fault
  BY DEF StartEmpty, kernel
<1>2. /\ alive' \in [Spaces -> {"new", "alive", "dead"}]
      /\ \A u \in Spaces : alive'[u] = "new" => alive[u] = "new" /\ current' # u
  BY <1>1, Zenon DEF Sound, SoundNow
<1>3. \A u \in Spaces : Same(pageTable[u], pageTable'[u])
  BY <1>1 DEF Same
<1>. QED BY <1>1, <1>2, <1>3, BitsSound, Zenon DEF Sound, SoundNow

(* The frames of a process come or go, while it has no translation in the  *)
(* TLB and no fault: nothing else may change.                              *)
LEMMA PlacesSound ==
  ASSUME SoundNow,
         NEW s \in Spaces, fault[s] = InUser,
         NEW a \in {"alive", "dead"}, alive' = [alive EXCEPT ![s] = a],
         NEW table \in Tables, pageTable' = [pageTable EXCEPT ![s] = table],
         coremap' \in [Frames -> Owned \cup {Nobody}],
         MapAgrees(pageTable', coremap'),
         \/ current # s /\ current' = current /\ tlb' = tlb
         \/ current' = Nobody /\ tlb' = EmptyTlb,
         index' = index, fault' = fault
  PROVE  SoundNext
<1>0. /\ pageTable \in [Spaces -> Tables] /\ alive \in [Spaces -> {"new", "alive", "dead"}]
      /\ index \in Slots /\ fault \in [Spaces -> FaultStates]
      /\ current \in Spaces \cup {Nobody} /\ TlbAgrees(current, pageTable, tlb)
      /\ \A u \in Spaces : FaultAgrees(u, fault[u], current, pageTable, tlb)
      /\ \A u \in Spaces : alive[u] = "new" =>
           /\ current # u /\ fault[u] = InUser
           /\ \A v \in Pages : ~pageTable[u][v].valid
  BY Zenon DEF Sound, SoundNow
<1>1. /\ pageTable' \in [Spaces -> Tables]
      /\ \A u \in Spaces : u # s => pageTable'[u] = pageTable[u]
  BY <1>0, Zenon
<1>2. /\ alive' \in [Spaces -> {"new", "alive", "dead"}] /\ alive'[s] # "new"
      /\ \A u \in Spaces : u # s => alive'[u] = alive[u]
  BY <1>0, Zenon
<1>3. TlbAgrees(current', pageTable', tlb') /\ current' \in Spaces \cup {Nobody}
  BY <1>0, <1>1, EmptyTlbFacts, Zenon DEF TlbAgrees
<1>9. Nobody \notin Spaces
  BY PagingAssumption, Zenon
<1>4. ASSUME NEW u \in Spaces
      PROVE  FaultAgrees(u, fault'[u], current', pageTable', tlb')
  <2> DEFINE y == fault[u]
  <2>1. FaultAgrees(u, y, current, pageTable, tlb) /\ y \in FaultStates
    BY <1>0, Zenon
  <2>2. CASE u = s
    <3>1. fault'[u] = InUser /\ InUser \in FaultStates
      BY <2>1, <2>2, Zenon
    <3>2. InUser.at # "load"
      BY Zenon DEF InUser
    <3>. QED BY <3>1, <3>2, Zenon DEF FaultAgrees
  <2>3. CASE u # s
    <3>1. pageTable'[u] = pageTable[u]
      BY <1>1, <2>3, Zenon
    <3>2. current' = u => current = u /\ tlb' = tlb
      BY <1>9, Zenon
    <3> HIDE DEF y
    <3>. QED BY <2>1, <3>1, <3>2, Zenon DEF FaultAgrees, y
  <2>. QED BY <2>2, <2>3, Zenon
<1>5. \A u \in Spaces : alive'[u] = "new" =>
        /\ current' # u /\ fault'[u] = InUser
        /\ \A v \in Pages : ~pageTable'[u][v].valid
  BY <1>0, <1>1, <1>2, <1>9, ZenonT(30)
<1>. QED BY <1>0, <1>1, <1>2, <1>3, <1>4, <1>5, Zenon DEF SoundNext, Sound

LEMMA StartLoadedSound ==
  ASSUME exe \in Layouts,
         SoundNow,
         NEW s \in Spaces, StartLoaded(s)
  PROVE  SoundNext
<1> DEFINE Taken(frames, f) == \E v \in Pages : frames[v] = f
           PageIn(frames, f) == CHOOSE v \in Pages : frames[v] = f
           Table(frames) == [v \in Pages |-> [physicalPage |-> frames[v], valid |-> TRUE,
                                              use |-> FALSE, dirty |-> FALSE]]
<1>1. /\ alive[s] = "new" /\ alive' = [alive EXCEPT ![s] = "alive"]
      /\ current' = current /\ tlb' = tlb /\ index' = index /\ fault' = fault
  BY Zenon DEF StartLoaded
<1>2. PICK frames \in [Pages -> Clear] :
        /\ \A u, v \in Pages : u < v => frames[u] < frames[v]
        /\ coremap' = [f \in Frames |-> IF Taken(frames, f) THEN <<s, PageIn(frames, f)>>
                                                            ELSE coremap[f]]
        /\ pageTable' = [pageTable EXCEPT ![s] = Table(frames)]
  BY Zenon DEF StartLoaded
<1> DEFINE T == Table(frames)
<1>3. /\ current # s /\ fault[s] = InUser /\ MapAgrees(pageTable, coremap)
      /\ \A v \in Pages : ~pageTable[s][v].valid
      /\ pageTable \in [Spaces -> Tables] /\ coremap \in [Frames -> Owned \cup {Nobody}]
  BY <1>1, Zenon DEF Sound, SoundNow
<1>4. \A v \in Pages : frames[v] \in Frames /\ coremap[frames[v]] = Nobody
  BY <1>2, Zenon DEF Clear
<1>5. \A u, v \in Pages : frames[u] = frames[v] => u = v
  <2>1. Pages \in SUBSET Int /\ Frames \in SUBSET Int
    BY DEF Pages, Frames
  <2>. QED BY <1>2, <1>4, <2>1, IncreasingApart, Zenon
<1>6. /\ T \in Tables
      /\ \A v \in Pages : T[v].valid /\ T[v].physicalPage = frames[v]
  BY <1>4, PagingSizes, Zenon DEF Tables, Entries
<1>7. /\ pageTable'[s] = T /\ \A u \in Spaces : u # s => pageTable'[u] = pageTable[u]
  BY <1>2, <1>3, Zenon
<1>8. ASSUME NEW g \in Frames
      PROVE  /\ coremap'[g] = IF Taken(frames, g) THEN <<s, PageIn(frames, g)>>
                                                  ELSE coremap[g]
             /\ Taken(frames, g) => /\ PageIn(frames, g) \in Pages
                                    /\ frames[PageIn(frames, g)] = g
                                    /\ coremap[g] = Nobody
  BY <1>2, <1>4, Zenon
<1>9. coremap' \in [Frames -> Owned \cup {Nobody}]
  <2>1. \A g \in Frames : (IF Taken(frames, g) THEN <<s, PageIn(frames, g)>>
                           ELSE coremap[g]) \in Owned \cup {Nobody}
    BY <1>3, <1>8, Zenon DEF Owned
  <2> HIDE DEF Taken, PageIn
  <2>. QED BY <1>2, <2>1, Zenon
<1> HIDE DEF Taken, Table, PageIn
<1>10. ASSUME NEW g \in Frames, NEW u \in Spaces, NEW w \in Pages
       PROVE  coremap'[g] = <<u, w>> <=> In(pageTable'[u], w, g)
  <2>1. coremap[g] = <<u, w>> <=> In(pageTable[u], w, g)
    BY <1>3, Zenon DEF MapAgrees
  <2>2. Nobody # <<u, w>>
    BY NobodyIsNoPair
  <2>3. CASE u = s
    <3>1. ~In(pageTable[u], w, g) /\ (In(pageTable'[u], w, g) <=> frames[w] = g)
      BY <1>3, <1>6, <1>7, <2>3, Zenon DEF In
    <3>2. CASE Taken(frames, g)
      <4>1. coremap'[g] = <<s, PageIn(frames, g)>> /\ PageIn(frames, g) \in Pages
            /\ frames[PageIn(frames, g)] = g
        BY <1>8, <3>2, Zenon
      <4>2. coremap'[g] = <<u, w>> <=> PageIn(frames, g) = w
        BY <2>3, <4>1
      <4>. QED BY <1>5, <2>3, <3>1, <4>1, <4>2, Zenon
    <3>3. CASE ~Taken(frames, g)
      <4>1. coremap'[g] = coremap[g] /\ frames[w] # g
        BY <1>8, <3>3, Zenon DEF Taken
      <4>. QED BY <2>1, <2>3, <3>1, <4>1, Zenon
    <3>. QED BY <3>2, <3>3, Zenon
  <2>4. CASE u # s
    <3>1. Taken(frames, g) => coremap'[g] # <<u, w>> /\ coremap[g] # <<u, w>>
      <4>1. Taken(frames, g) => /\ coremap'[g] = <<s, PageIn(frames, g)>>
                                /\ coremap[g] = Nobody
        BY <1>8, Zenon
      <4>2. \A p : <<s, p>> # <<u, w>>
        BY <2>4
      <4>. QED BY <2>2, <4>1, <4>2, Zenon
    <3>2. ~Taken(frames, g) => coremap'[g] = coremap[g]
      BY <1>8, Zenon
    <3>. QED BY <1>7, <2>1, <2>4, <3>1, <3>2, Zenon
  <2>. QED BY <2>3, <2>4, Zenon
<1>11. \A u \in Spaces, v \in Pages :
         pageTable'[u][v].valid => pageTable'[u][v].physicalPage \in Frames
  <2>1. \A v \in Pages : pageTable'[s][v].physicalPage \in Frames
    BY <1>4, <1>6, <1>7, Zenon
  <2>. QED BY <1>3, <1>7, <2>1, ZenonT(30) DEF MapAgrees
<1>12. MapAgrees(pageTable', coremap')
  BY <1>10, <1>11, Zenon DEF MapAgrees
<1>13. "alive" \in {"alive", "dead"} /\ pageTable' = [pageTable EXCEPT ![s] = T]
  BY <1>2, Zenon
<1> HIDE DEF T
<1>. QED BY <1>1, <1>3, <1>6, <1>9, <1>12, <1>13, PlacesSound, Zenon

LEMMA FinishesSound ==
  ASSUME exe \in Layouts,
         SoundNow,
         NEW s \in Spaces, Finish(s)
  PROVE  SoundNext
<1> DEFINE T == [v \in Pages |-> Absent]
           mine == {pageTable[s][v].physicalPage : v \in {u \in Pages : pageTable[s][u].valid}}
<1>1. /\ Running(s) /\ alive' = [alive EXCEPT ![s] = "dead"]
      /\ current' = Nobody /\ tlb' = EmptyTlb
      /\ pageTable' = [pageTable EXCEPT ![s] = T] /\ coremap' = Cleared(mine)
      /\ index' = index /\ fault' = fault
  BY Zenon DEF Finish
<1>2. /\ fault[s] = InUser /\ MapAgrees(pageTable, coremap)
      /\ pageTable \in [Spaces -> Tables] /\ coremap \in [Frames -> Owned \cup {Nobody}]
  BY <1>1, Zenon DEF Sound, SoundNow, Running
<1>3. T \in Tables /\ \A v \in Pages : ~T[v].valid
  BY DEF Tables, Entries, Absent
<1>4. pageTable'[s] = T /\ \A u \in Spaces : u # s => pageTable'[u] = pageTable[u]
  BY <1>1, <1>2, Zenon
<1>5. \A g \in Frames : g \in mine <=> \E v \in Pages : In(pageTable[s], v, g)
  BY Zenon DEF In
<1> HIDE DEF T, mine
<1>6. /\ coremap' \in [Frames -> Owned \cup {Nobody}]
      /\ \A g \in Frames : coremap'[g] = IF g \in mine THEN Nobody ELSE coremap[g]
  BY <1>1, <1>2, Zenon DEF Cleared
<1>7. ASSUME NEW g \in Frames, NEW u \in Spaces, NEW w \in Pages
      PROVE  coremap'[g] = <<u, w>> <=> In(pageTable'[u], w, g)
  <2>1. coremap[g] = <<u, w>> <=> In(pageTable[u], w, g)
    BY <1>2 DEF MapAgrees
  <2>2. Nobody # <<u, w>>
    BY NobodyIsNoPair
  <2>3. CASE u = s
    <3>1. ~In(pageTable'[u], w, g)
      BY <1>3, <1>4, <2>3, Zenon DEF In
    <3>2. coremap'[g] # <<u, w>>
      BY <1>5, <1>6, <2>1, <2>2, <2>3, Zenon
    <3>. QED BY <2>3, <3>1, <3>2, Zenon
  <2>4. CASE u # s
    <3>1. g \in mine => coremap[g] # <<u, w>>
      <4> SUFFICES ASSUME g \in mine PROVE coremap[g] # <<u, w>>
        OBVIOUS
      <4>1. PICK v \in Pages : In(pageTable[s], v, g)
        BY <1>5
      <4>2. coremap[g] = <<s, v>>
        BY <1>2, <4>1, Zenon DEF MapAgrees
      <4>. QED BY <2>4, <4>2
    <3>. QED BY <1>4, <1>6, <2>1, <2>2, <2>4, <3>1, Zenon
  <2>. QED BY <2>3, <2>4, Zenon
<1>8. \A u \in Spaces, v \in Pages :
        pageTable'[u][v].valid => pageTable'[u][v].physicalPage \in Frames
  BY <1>2, <1>3, <1>4, Zenon DEF MapAgrees
<1>9. MapAgrees(pageTable', coremap')
  BY <1>7, <1>8, Zenon DEF MapAgrees
<1>10. "dead" \in {"alive", "dead"}
  OBVIOUS
<1>. QED BY <1>1, <1>2, <1>3, <1>6, <1>9, <1>10, PlacesSound, Zenon

LEMMA PagingStarts == PagingInit => PagingInv
<1> SUFFICES ASSUME PagingInit PROVE PagingInv
  OBVIOUS
<1> USE DEF PagingInit
<1>1. exe \in Layouts /\ victima \in Frames /\ index \in Slots
  BY PagingSizes DEF Frames, Slots
<1>2. /\ pageTable \in [Spaces -> Tables]
      /\ \A s \in Spaces, v \in Pages : ~pageTable[s][v].valid
  BY DEF Tables, Entries, Absent
<1>3. coremap \in [Frames -> Owned \cup {Nobody}] /\ \A f \in Frames : coremap[f] = Nobody
  OBVIOUS
<1>4. \A s \in Spaces, v \in Pages : Nobody # <<s, v>>
  BY <1>1, NobodyIsNoPair
<1>5. MapAgrees(pageTable, coremap)
  BY <1>2, <1>3, <1>4, Zenon DEF MapAgrees, In
<1>6. TlbAgrees(current, pageTable, tlb)
  BY EmptyTlbFacts, Zenon DEF TlbAgrees
<1>7. /\ fault \in [Spaces -> FaultStates] /\ \A s \in Spaces : fault[s] = InUser
  BY Zenon DEF FaultStates
<1>8. \A s \in Spaces : FaultAgrees(s, fault[s], current, pageTable, tlb)
  BY <1>7, Zenon DEF FaultAgrees, InUser
<1>9. Nobody \notin Spaces
  BY PagingAssumption, Zenon
<1>10. /\ alive \in [Spaces -> {"new", "alive", "dead"}]
       /\ current \in Spaces \cup {Nobody} /\ \A s \in Spaces : current # s
  BY <1>9
<1>. QED BY <1>1, <1>2, <1>3, <1>5, <1>6, <1>7, <1>8, <1>10, Zenon DEF PagingInv, Sound, SoundNow

(* What is sound stays so when the executable does. *)
LEMMA SameExe ==
  ASSUME exe' = exe,
         SoundNext
  PROVE  SoundNow'
<1>1. Pages' = Pages
  BY DEF Pages
<1>2. Owned' = Owned /\ Tables' = Tables
  BY <1>1 DEF Owned, Tables
<1>3. FaultStates' = FaultStates
  BY <1>1, <1>2, Zenon DEF FaultStates, InUser
<1>4. MapAgrees(pageTable, coremap)' <=> MapAgrees(pageTable', coremap')
  BY <1>1, ZenonT(30) DEF MapAgrees, In
<1>5. TlbAgrees(current, pageTable, tlb)' <=> TlbAgrees(current', pageTable', tlb')
  BY <1>1, Zenon DEF TlbAgrees, Confirmed, In
<1>6. ASSUME NEW s \in Spaces
      PROVE  FaultAgrees(s, fault[s], current, pageTable, tlb)'
               <=> FaultAgrees(s, fault'[s], current', pageTable', tlb')
  BY <1>3, Zenon DEF FaultAgrees, In
<1>. QED BY <1>1, <1>2, <1>3, <1>4, <1>5, <1>6, Zenon DEF Sound, SoundNow, SoundNext, InUser

(* The steps that take no victim. *)
Step(s) ==
  \/ StartEmpty(s) \/ StartLoaded(s) \/ SwitchIn(s) \/ SwitchOut(s) \/ Finish(s)
  \/ LoadDone(s)
  \/ \E v \in Pages :
       \/ ReadMem(s, v)
       \/ \E o \in StoreOffsets, x \in Written : WriteMem(s, v, o, x)
       \/ FaultPresent(s, v) \/ FaultFree(s, v)

(* Each step keeps the executable, and forgets nothing of `crossed`; *)
LEMMA PagingFrame ==
  ASSUME NEW s \in Spaces,
         Step(s)
  PROVE  exe' = exe /\ crossed' = crossed /\ victima' = victima
BY Zenon DEF Step, StartEmpty, StartLoaded, SwitchIn, SwitchOut, Finish,
  LoadDone, ReadMem, WriteMem, FaultPresent, FaultFree, kernel

(* and keeps what is sound. *)
LEMMA SoundSteps ==
  ASSUME exe \in Layouts,
         SoundNow,
         NEW s \in Spaces,
         Step(s)
  PROVE  SoundNext
<1>1. CASE StartEmpty(s)
  BY <1>1, StartEmptySound
<1>2. CASE StartLoaded(s)
  BY <1>2, StartLoadedSound
<1>3. CASE SwitchIn(s) \/ SwitchOut(s)
  BY <1>3, SwitchSound
<1>4. CASE Finish(s)
  BY <1>4, FinishesSound
<1>5. CASE LoadDone(s)
  BY <1>5, LoadDoneSound
<1>6. ASSUME NEW v \in Pages, ReadMem(s, v)
      PROVE  SoundNext
  <2>1. /\ Running(s) /\ Touch(s, v, FALSE) /\ alive' = alive /\ current' = current
        /\ index' = index /\ coremap' = coremap /\ fault' = fault
    BY <1>6, Zenon DEF ReadMem, kernel
  <2>. QED BY <2>1, AccessSound, Zenon
<1>7. ASSUME NEW v \in Pages, NEW o, NEW x, WriteMem(s, v, o, x)
      PROVE  SoundNext
  <2>1. /\ Running(s) /\ Touch(s, v, TRUE) /\ alive' = alive /\ current' = current
        /\ index' = index /\ coremap' = coremap /\ fault' = fault
    BY <1>7, Zenon DEF WriteMem, kernel
  <2>. QED BY <2>1, AccessSound, Zenon
<1>8. ASSUME NEW v \in Pages, FaultPresent(s, v) \/ FaultFree(s, v)
      PROVE  SoundNext
  BY <1>8, FaultPresentSound, FaultFreeSound, Zenon
<1>. QED BY <1>1, <1>2, <1>3, <1>4, <1>5, <1>6, <1>7, <1>8, Zenon DEF Step

LEMMA PagingSteps == PagingInv /\ [PagingNext]_pagingVars => PagingInv'
<1> SUFFICES ASSUME PagingInv, [PagingNext]_pagingVars PROVE PagingInv'
  OBVIOUS
<1>0. exe \in Layouts /\ (crossed \/ (victima \in Frames /\ SoundNow))
  BY DEF PagingInv
<1>1. SUFFICES exe' = exe /\ (crossed' \/ (victima' \in Frames /\ SoundNext))
  <2>1. SoundNext /\ exe' = exe => SoundNow'
    BY SameExe
  <2>. QED BY <1>0, <2>1 DEF PagingInv, Frames
<1>2. CASE UNCHANGED pagingVars
  <2>1. SoundNow => SoundNext
    BY <1>2, Zenon DEF pagingVars, SoundNow, SoundNext
  <2>. QED BY <1>0, <1>2, <2>1 DEF pagingVars
<1>3. ASSUME NEW s \in Spaces, NEW v \in Pages, FaultVictim(s, v)
      PROVE  exe' = exe /\ (crossed' \/ (victima' \in Frames /\ SoundNext))
  <2>1. exe' = exe /\ (crossed => crossed')
    BY <1>3, Zenon DEF FaultVictim
  <2>2. victima \in Frames /\ SoundNow => crossed' \/ (victima' \in Frames /\ SoundNext)
    BY <1>0, <1>3, FaultVictimSound
  <2>. QED BY <1>0, <2>1, <2>2
<1>4. ASSUME NEW s \in Spaces,
             Step(s)
      PROVE  exe' = exe /\ (crossed' \/ (victima' \in Frames /\ SoundNext))
  <2>1. exe' = exe /\ crossed' = crossed /\ victima' = victima
    BY <1>4, PagingFrame
  <2>2. SoundNow => SoundNext
    BY <1>0, <1>4, SoundSteps
  <2>. QED BY <1>0, <2>1, <2>2
<1>5. CASE PagingNext
  BY <1>3, <1>4, <1>5, Zenon DEF PagingNext, Step
<1>. QED BY <1>2, <1>5

(* As long as no frame was taken from another process, a frame is marked   *)
(* for a page exactly when the page's table says so, and the TLB holds     *)
(* only what the table of the running process confirms: for any processes, *)
(* frames, TLB, executables and builds, over faults, victims, waits for    *)
(* the disk and context switches (Coremap, EscribirFrameenSwap, SaveState, *)
(* PageFaultExeption).                                                     *)
THEOREM FramesAreOwned == PagingSpec => []TranslationsAreOwned
<1>1. PagingInv => TranslationsAreOwned
  <2> SUFFICES ASSUME PagingInv, ~crossed PROVE TranslationsAreOwned
    BY Zenon DEF TranslationsAreOwned
  <2>1. /\ MapAgrees(pageTable, coremap) /\ TlbAgrees(current, pageTable, tlb)
        /\ pageTable \in [Spaces -> Tables]
    BY Zenon DEF PagingInv, Sound, SoundNow
  <2>2. ASSUME NEW f \in Frames, NEW s \in Spaces, NEW v \in Pages
        PROVE  (coremap[f] = <<s, v>>)
                 = (pageTable[s][v].valid /\ pageTable[s][v].physicalPage = f)
    <3>1. (coremap[f] = <<s, v>>) <=> In(pageTable[s], v, f)
      BY <2>1, Zenon DEF MapAgrees
    <3>2. pageTable[s][v].valid \in BOOLEAN
      BY <2>1, Zenon DEF Tables, Entries
    <3>. QED BY <3>1, <3>2, Zenon DEF In
  <2>3. \A k \in Slots : tlb[k].valid =>
          /\ current # Nobody
          /\ pageTable[current][tlb[k].virtualPage].valid
          /\ pageTable[current][tlb[k].virtualPage].physicalPage = tlb[k].physicalPage
    BY <2>1, Zenon DEF TlbAgrees, Confirmed, In
  <2>. QED BY <2>2, <2>3, Zenon DEF TranslationsAreOwned
<1>. QED BY <1>1, PagingStarts, PagingSteps, PTL DEF PagingSpec
=============================================================================
