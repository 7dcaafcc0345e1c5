-------------------------- MODULE FileRemovalProofs --------------------------
(***************************************************************************)
(* The removal of a file for any number of threads that open, close and    *)
(* remove it.  The file was created since the system started, so that its  *)
(* entry of the table has a remove lock, and it is not created again.      *)
(***************************************************************************)
EXTENDS FileRemoval, FiniteSetTheorems, TLAPS

OneLife == \A c \in Casts : ~c.booted /\ c.creators = {}

Places == {"idle", "found", "opening", "open", "counted", "sending", "sent",
           "looked", "locking", "locked", "fetched", "receiving", "freeing",
           "erasing", "freed", "released"}

Opened == {t \in Threads : pc[t] = "open"}

RemovalTypes ==
  /\ cast \in Casts
  /\ removeLock = 1 /\ created = 1
  /\ holder \in [Locks -> Threads \cup {None}]
  /\ pc \in [Threads -> Places]
  /\ arg \in [Threads -> Threads \cup Nat \cup {None}]
  /\ removerSpaceId \in Threads \cup {None}
  /\ late \subseteq Threads
  /\ count = Cardinality(Opened)
  /\ \A t \in Threads : pc[t] = "open" => closeLock = "valid"

(* One Remove at a time is past Acquire, and it releases what it holds. *)
RemoversExclude ==
  /\ \A t \in Threads :
       /\ pc[t] \in {"locked", "fetched", "receiving", "freeing", "erasing", "freed"}
            <=> holder[1] = t
       /\ pc[t] = "locking" => arg[t] = 1
  /\ ~aborted

(* How far the removal is, as the flags and the disk say it. *)
FlagsAgree ==
  /\ removed => ~allocated /\ ~inDirectory
  /\ ~inDirectory => ~allocated
  /\ ~allocated => removed \/ \E t \in Threads : pc[t] \in {"erasing", "freed"}
  /\ ~allocated /\ inDirectory => removing
  /\ \A t \in Threads :
       /\ pc[t] \in {"fetched", "receiving", "freeing", "erasing", "freed"} => ~removed
       /\ pc[t] \in {"receiving", "freeing", "erasing", "freed", "released"} => removing
       /\ pc[t] \in {"erasing", "freed", "released"} => ~allocated
       /\ pc[t] \in {"freed", "released"} => ~inDirectory
       /\ pc[t] = "released" => removed
       /\ pc[t] = "sending" => removing \/ ~allocated
  /\ \A t, u \in Threads : pc[t] = "released" /\ pc[u] = "released" => t = u

(* No thread is going to open the file but those that were in Open when    *)
(* the removal began or when it ended.                                     *)
NoNewOpens ==
  \A t \in Threads :
    /\ (removing \/ ~allocated) /\ pc[t] = "opening" => t \in late
    /\ ~removing /\ ~allocated /\ pc[t] = "found" => t \in late

(* The file was seen closed by the Remove, or by a thread that tells it.   *)
SeenClosed == ~allocated \/ \E t \in Threads : pc[t] \in {"sending", "freeing"}

OnlyLateOpens == SeenClosed => Opened \subseteq late

RemovalInv ==
  RemovalTypes /\ RemoversExclude /\ FlagsAgree /\ NoNewOpens /\ OnlyLateOpens

-----------------------------------------------------------------------------

LEMMA OpenedFinite == IsFiniteSet(Opened) /\ Cardinality(Opened) \in Nat
BY RemovalConstants, FS_Subset, FS_CardinalityType DEF Opened

LEMMA LockOne == 1 \in Locks
BY RemovalConstants DEF Locks

LEMMA RemovalInit == OneLife /\ Init => RemovalInv
<1> SUFFICES ASSUME OneLife, Init PROVE RemovalInv
  OBVIOUS
<1> USE DEF Init
<1>1. Opened = {}
  BY DEF Opened
<1>2. RemovalTypes
  BY <1>1, FS_EmptySet, LockOne DEF RemovalTypes, Places, OneLife
<1>3. RemoversExclude
  BY LockOne, RemovalConstants DEF RemoversExclude
<1>4. FlagsAgree /\ NoNewOpens /\ OnlyLateOpens
  BY <1>1 DEF FlagsAgree, NoNewOpens, OnlyLateOpens
<1>. QED BY <1>2, <1>3, <1>4 DEF RemovalInv

(* Steps of Open and Close: they change nothing that a Remove set. *)
OpenFrame ==
  /\ UNCHANGED <<disk, removing, removed, removerSpaceId, removeLock, created,
                 holder, cast>>
  /\ ~aborted'
  /\ late' = late \ {t \in Threads : pc[t] = "idle"}

LEMMA OpenFrameInv ==
  ASSUME RemovalInv, OpenFrame, NEW t \in Threads, NEW to \in Places,
         pc' = [pc EXCEPT ![t] = to],
         pc[t] \in {"idle", "found", "opening", "open", "counted", "sent"},
         to \in {"idle", "found", "opening", "open", "counted", "sending"},
         to = "sending" => removing,
         to = "found" => inDirectory,
         to = "opening" => ~removing /\ pc[t] = "found",
         to = "open" => pc[t] = "opening",
         to = "sending" => Opened = {},
         arg' \in [Threads -> Threads \cup Nat \cup {None}],
         \A u \in Threads : u # t => arg'[u] = arg[u],
         \A u \in Threads : pc'[u] = "open" => closeLock' = "valid",
         count' = Cardinality(Opened')
  PROVE  RemovalInv'
<1> USE DEF RemovalInv, OpenFrame, disk
<1>1. RemovalTypes'
  BY Zenon DEF RemovalTypes
<1>2. RemoversExclude'
  BY DEF RemovalTypes, RemoversExclude
<1>3. FlagsAgree'
  BY DEF RemovalTypes, FlagsAgree
<1>4. NoNewOpens'
  BY DEF RemovalTypes, FlagsAgree, NoNewOpens
<1>5. OnlyLateOpens'
  <2> SUFFICES ASSUME SeenClosed', NEW u \in Threads, pc'[u] = "open"
               PROVE  u \in late'
    BY DEF OnlyLateOpens, Opened
  <2>1. CASE to = "sending"
    BY <2>1 DEF RemovalTypes, Opened
  <2>2. CASE to # "sending"
    <3>1. SeenClosed
      BY <2>2 DEF SeenClosed, RemovalTypes
    <3>2. CASE u = t
      BY <2>2, <3>1, <3>2 DEF SeenClosed, RemovalTypes, FlagsAgree, NoNewOpens
    <3>3. CASE u # t
      BY <3>1, <3>3 DEF OnlyLateOpens, RemovalTypes, Opened
    <3>. QED BY <3>2, <3>3
  <2>. QED BY <2>1, <2>2
<1>. QED BY <1>1, <1>2, <1>3, <1>4, <1>5

LEMMA OpenCloseInv ==
  ASSUME RemovalInv, NEW t \in Threads, OpenOrClose(t), NoteLate, UNCHANGED cast
  PROVE  RemovalInv'
<1> USE DEF RemovalInv
<1>1. removeLock = 1 /\ count = Cardinality(Opened) /\ count \in Nat
  BY OpenedFinite DEF RemovalTypes
<1>2. CASE OpenFind(t)
  <2>1. OpenFrame
    BY <1>2 DEF OpenFind, At, NoteLate, OpenFrame, table
  <2>2. /\ pc[t] = "idle" /\ pc' = [pc EXCEPT ![t] = "found"]
        /\ inDirectory /\ UNCHANGED <<arg, count, closeLock>>
    BY <1>2 DEF OpenFind, At, Goto, table
  <2>3. Opened' = Opened
    BY <2>2 DEF Opened, RemovalTypes
  <2>4. "found" \in Places /\ arg \in [Threads -> Threads \cup Nat \cup {None}]
    BY DEF RemovalTypes, Places
  <2>5. \A u \in Threads : pc'[u] = "open" => closeLock' = "valid"
    BY <2>2 DEF RemovalTypes
  <2>. QED BY <1>1, <2>1, <2>2, <2>3, <2>4, <2>5, OpenFrameInv, Zenon
<1>7. CASE OpenTest(t)
  <2>1. OpenFrame
    BY <1>7 DEF OpenTest, At, NoteLate, OpenFrame, table
  <2>2. /\ pc[t] = "found" /\ UNCHANGED <<arg, count, closeLock>>
        /\ \/ pc' = [pc EXCEPT ![t] = "idle"]
           \/ ~removing /\ pc' = [pc EXCEPT ![t] = "opening"]
    BY <1>7, Zenon DEF OpenTest, At, Goto, table
  <2>3. Opened' = Opened
    BY <2>2 DEF Opened, RemovalTypes
  <2>4. /\ "idle" \in Places /\ "opening" \in Places
        /\ arg \in [Threads -> Threads \cup Nat \cup {None}]
    BY DEF RemovalTypes, Places
  <2>5. \A u \in Threads : pc'[u] = "open" => closeLock' = "valid"
    BY <2>2 DEF RemovalTypes
  <2>. QED BY <1>1, <2>1, <2>2, <2>3, <2>4, <2>5, OpenFrameInv, Zenon
<1>3. CASE OpenCount(t)
  <2>1. OpenFrame
    BY <1>1, <1>3, RemovalConstants DEF OpenCount, At, NoteLate, OpenFrame
  <2>2. /\ pc[t] = "opening" /\ pc' = [pc EXCEPT ![t] = "open"]
        /\ UNCHANGED arg /\ count' = count + 1
        /\ IF count = 0 THEN closeLock' = "valid" ELSE UNCHANGED closeLock
    BY <1>3 DEF OpenCount, At, Goto
  <2>3. Opened' = Opened \cup {t} /\ t \notin Opened
    BY <2>2 DEF Opened, RemovalTypes
  <2>4. count' = Cardinality(Opened')
    <3>1. Cardinality(Opened \cup {t}) = Cardinality(Opened) + 1
      BY <2>3, OpenedFinite, FS_AddElement, Zenon
    <3>. QED BY <1>1, <2>2, <2>3, <3>1, Zenon
  <2>5. "open" \in Places /\ arg \in [Threads -> Threads \cup Nat \cup {None}]
    BY DEF RemovalTypes, Places
  <2>6. closeLock' = "valid"
    <3>1. CASE count = 0
      BY <2>2, <3>1
    <3>2. CASE count # 0
      <4>1. PICK u \in Threads : pc[u] = "open"
        BY <1>1, <3>2, FS_EmptySet DEF Opened
      <4>. QED BY <2>2, <3>2, <4>1 DEF RemovalTypes
    <3>. QED BY <3>1, <3>2
  <2>. QED BY <2>1, <2>2, <2>4, <2>5, <2>6, OpenFrameInv, Zenon
<1>4. CASE CloseCount(t)
  <2>2. pc[t] = "open" /\ t \in Opened /\ closeLock = "valid" /\ ~aborted
    BY <1>4 DEF CloseCount, At, Opened, RemovalTypes
  <2>1. OpenFrame /\ UNCHANGED closeLock
    BY <1>4, <2>2, Zenon DEF CloseCount, NoteLate, OpenFrame
  <2>3. Cardinality(Opened \ {t}) = count - 1 /\ count > 0
    <3>1. Cardinality(Opened \ {t}) = Cardinality(Opened) - 1
      BY <2>2, OpenedFinite, FS_RemoveElement, Zenon
    <3>2. Cardinality(Opened) # 0
      BY <2>2, OpenedFinite, FS_EmptySet
    <3>. QED BY <1>1, <3>1, <3>2
  <2>4. pc' = [pc EXCEPT ![t] = "counted"] /\ UNCHANGED arg /\ count' = count - 1
    BY <1>4, <2>2, <2>3 DEF CloseCount, Goto
  <2>5. Opened' = Opened \ {t}
    BY <2>4 DEF Opened, RemovalTypes
  <2>6. "counted" \in Places /\ arg \in [Threads -> Threads \cup Nat \cup {None}]
    BY DEF RemovalTypes, Places
  <2>. QED BY <2>1, <2>2, <2>3, <2>4, <2>5, <2>6, OpenFrameInv, Zenon
<1>5. CASE CloseEnd(t)
  <2>1. OpenFrame /\ UNCHANGED closeLock
    BY <1>5 DEF CloseEnd, At, NoteLate, OpenFrame
  <2>2. pc[t] = "counted" /\ count' = count
    BY <1>5 DEF CloseEnd, At
  <2>3. CASE count = 0 /\ removing
    <3>1. Opened = {}
      BY <1>1, <2>3, OpenedFinite, FS_EmptySet, Zenon
    <3>2. /\ pc' = [pc EXCEPT ![t] = "sending"]
          /\ arg' = [arg EXCEPT ![t] = removerSpaceId]
      BY <1>5, <2>3 DEF CloseEnd, Goto
    <3>3. Opened' = Opened
      BY <2>2, <3>2 DEF Opened, RemovalTypes
    <3>4. "sending" \in Places /\ arg' \in [Threads -> Threads \cup Nat \cup {None}]
      BY <3>2 DEF RemovalTypes, Places
    <3>5. \A u \in Threads : u # t => arg'[u] = arg[u]
      BY <3>2 DEF RemovalTypes
    <3>6. \A u \in Threads : pc'[u] = "open" => closeLock' = "valid"
      BY <2>1, <3>2 DEF RemovalTypes
    <3>. QED BY <1>1, <2>1, <2>2, <2>3, <3>1, <3>2, <3>3, <3>4, <3>5, <3>6,
                OpenFrameInv, Zenon
  <2>4. CASE ~(count = 0 /\ removing)
    <3>1. pc' = [pc EXCEPT ![t] = "idle"] /\ UNCHANGED arg
      BY <1>5, <2>4 DEF CloseEnd, Goto
    <3>2. Opened' = Opened
      BY <2>2, <3>1 DEF Opened, RemovalTypes
    <3>3. "idle" \in Places /\ arg \in [Threads -> Threads \cup Nat \cup {None}]
      BY DEF RemovalTypes, Places
    <3>4. \A u \in Threads : pc'[u] = "open" => closeLock' = "valid"
      BY <2>1, <3>1 DEF RemovalTypes
    <3>. QED BY <1>1, <2>1, <2>2, <3>1, <3>2, <3>3, <3>4, OpenFrameInv, Zenon
  <2>. QED BY <2>3, <2>4
<1>6. CASE CloseSent(t)
  <2>1. OpenFrame
    BY <1>6 DEF CloseSent, At, NoteLate, OpenFrame
  <2>2. /\ pc[t] = "sent" /\ pc' = [pc EXCEPT ![t] = "idle"]
        /\ UNCHANGED <<arg, count, closeLock>>
    BY <1>6 DEF CloseSent, At, Goto
  <2>3. Opened' = Opened
    BY <2>2 DEF Opened, RemovalTypes
  <2>4. "idle" \in Places /\ arg \in [Threads -> Threads \cup Nat \cup {None}]
    BY DEF RemovalTypes, Places
  <2>5. \A u \in Threads : pc'[u] = "open" => closeLock' = "valid"
    BY <2>2 DEF RemovalTypes
  <2>. QED BY <1>1, <2>1, <2>2, <2>3, <2>4, <2>5, OpenFrameInv, Zenon
<1>. QED BY <1>2, <1>3, <1>4, <1>5, <1>6, <1>7 DEF OpenOrClose

(* Steps of a Remove that do not touch the count or the open files. *)
LEMMA OpenedStays ==
  ASSUME RemovalInv, NEW t \in Threads, NEW to, pc' = [pc EXCEPT ![t] = to],
         pc[t] # "open", to # "open"
  PROVE  Opened' = Opened
BY DEF RemovalInv, RemovalTypes, Opened

(* The way to the remove lock. *)
LEMMA LockingInv ==
  ASSUME RemovalInv, NEW t \in Threads,
         RemoveFind(t) \/ RemoveAcquire(t) \/ RemoveLock(t), NoteLate, UNCHANGED cast
  PROVE  RemovalInv'
<1> USE RemovalConstants, LockOne DEF RemovalInv
<1>1. /\ UNCHANGED <<disk, table, aborted>>
      /\ late' = late \ {u \in Threads : pc[u] = "idle"}
  BY DEF RemoveFind, RemoveAcquire, RemoveLock, NoteLate, table
<1>2. \/ /\ pc[t] = "idle" /\ pc' = [pc EXCEPT ![t] = "looked"]
         /\ arg' = arg /\ holder' = holder
      \/ /\ pc[t] = "looked" /\ pc' = [pc EXCEPT ![t] = "locking"]
         /\ arg' = [arg EXCEPT ![t] = 1] /\ holder' = holder
      \/ /\ pc[t] = "locking" /\ pc' = [pc EXCEPT ![t] = "locked"]
         /\ holder[1] = None /\ holder' = [holder EXCEPT ![1] = t] /\ arg' = arg
  BY DEF RemoveFind, RemoveAcquire, RemoveLock, At, Goto, RemovalTypes, RemoversExclude
<1>3. Opened' = Opened
  BY <1>2, OpenedStays, Zenon
<1>4. RemovalTypes'
  BY <1>1, <1>2, <1>3 DEF RemovalTypes, Places, table
<1>5. RemoversExclude'
  BY <1>1, <1>2 DEF RemovalTypes, RemoversExclude
<1>6. FlagsAgree'
  BY <1>1, <1>2 DEF RemovalTypes, FlagsAgree, disk, table
<1>7. NoNewOpens'
  BY <1>1, <1>2 DEF RemovalTypes, NoNewOpens, disk, table
<1>8. OnlyLateOpens'
  BY <1>1, <1>2, <1>3 DEF RemovalTypes, OnlyLateOpens, SeenClosed, Opened, disk
<1>. QED BY <1>4, <1>5, <1>6, <1>7, <1>8

(* The thread that has the remove lock releases it and nothing aborts. *)
LEMMA ReleaseHeld ==
  ASSUME RemovalInv, NEW t \in Threads, holder[1] = t, ReleaseRemoveLock(t)
  PROVE  ~aborted' /\ holder' = [holder EXCEPT ![1] = None]
<1>1. removeLock = 1 /\ removeLock # None
  BY RemovalConstants DEF RemovalInv, RemovalTypes
<1>2. aborted' = (holder[1] # t) /\ holder' = [holder EXCEPT ![1] = None]
  BY <1>1 DEF ReleaseRemoveLock
<1>. QED BY <1>2, Zenon

LEMMA CheckInv ==
  ASSUME RemovalInv, NEW t \in Threads, RemoveCheck(t), NoteLate, UNCHANGED cast
  PROVE  RemovalInv'
<1> USE RemovalConstants, LockOne DEF RemovalInv
<1>1. /\ pc[t] = "locked" /\ holder[1] = t
      /\ UNCHANGED <<disk, table, arg>>
      /\ late' = late \ {u \in Threads : pc[u] = "idle"}
  BY DEF RemoveCheck, At, NoteLate, table, RemoversExclude
<1>2. \/ /\ removed /\ pc' = [pc EXCEPT ![t] = "idle"]
         /\ ~aborted' /\ holder' = [holder EXCEPT ![1] = None]
      \/ /\ ~removed /\ pc' = [pc EXCEPT ![t] = "fetched"]
         /\ ~aborted' /\ holder' = holder
  BY <1>1, ReleaseHeld DEF RemoveCheck, Goto, RemoversExclude
<1>3. Opened' = Opened
  BY <1>1, <1>2, OpenedStays
<1>4. RemovalTypes'
  BY <1>1, <1>2, <1>3 DEF RemovalTypes, Places, table
<1>5. RemoversExclude'
  BY <1>1, <1>2 DEF RemovalTypes, RemoversExclude
<1>6. FlagsAgree'
  BY <1>1, <1>2 DEF RemovalTypes, FlagsAgree, disk, table
<1>7. NoNewOpens'
  BY <1>1, <1>2 DEF RemovalTypes, NoNewOpens, disk, table
<1>8. OnlyLateOpens'
  BY <1>1, <1>2, <1>3 DEF RemovalTypes, OnlyLateOpens, SeenClosed, Opened, disk
<1>. QED BY <1>4, <1>5, <1>6, <1>7, <1>8

(* The removal begins: who is in Open is late, and a Remove that sees the  *)
(* count at zero sees no open file.                                        *)
LEMMA MarkInv ==
  ASSUME RemovalInv, NEW t \in Threads, RemoveMark(t), NoteLate, UNCHANGED cast
  PROVE  RemovalInv'
<1> USE DEF RemovalInv
<1>1. /\ pc[t] = "fetched" /\ holder[1] = t /\ removing'
      /\ removerSpaceId' = t
      /\ UNCHANGED <<inDirectory, allocated, count, removed, removeLock, closeLock,
                     created, holder, arg, aborted>>
  BY DEF RemoveMark, At, RemoversExclude, disk
<1>2. /\ allocated
      /\ \A u \in Threads : pc[u] \notin {"freeing", "erasing", "freed", "released"}
  BY <1>1 DEF FlagsAgree, RemoversExclude
<1>3. \/ pc' = [pc EXCEPT ![t] = "receiving"]
      \/ pc' = [pc EXCEPT ![t] = "freeing"] /\ Opened = {}
  <2>1. count = 0 => Opened = {}
    BY OpenedFinite, FS_EmptySet, Zenon DEF RemovalTypes
  <2>2. count \in Nat
    BY OpenedFinite DEF RemovalTypes
  <2>3. CASE count > 0
    BY <2>3 DEF RemoveMark, Goto
  <2>4. CASE ~(count > 0)
    <3>1. pc' = [pc EXCEPT ![t] = "freeing"]
      BY <2>4 DEF RemoveMark, Goto
    <3>. QED BY <2>1, <2>2, <2>4, <3>1
  <2>. QED BY <2>3, <2>4
<1>4. Opened' = Opened
  BY <1>1, <1>3, OpenedStays
<1>5. late' = (late \ {u \in Threads : pc[u] = "idle"})
              \cup {u \in Threads : ~removing /\ pc[u] = "opening"}
  BY <1>1 DEF NoteLate
<1>6. RemovalTypes'
  BY <1>1, <1>3, <1>4, <1>5 DEF RemovalTypes, Places
<1>7. RemoversExclude'
  BY <1>1, <1>3 DEF RemovalTypes, RemoversExclude
<1>8. FlagsAgree'
  BY <1>1, <1>2, <1>3 DEF RemovalTypes, FlagsAgree
<1>9. NoNewOpens'
  BY <1>1, <1>3, <1>5 DEF RemovalTypes, NoNewOpens
<1>10. OnlyLateOpens'
  <2>1. CASE Opened = {}
    BY <1>4, <2>1 DEF OnlyLateOpens
  <2>2. CASE pc' = [pc EXCEPT ![t] = "receiving"]
    <3>1. SeenClosed' => \E u \in Threads : pc[u] = "sending"
      BY <1>1, <1>2, <2>2 DEF SeenClosed, RemovalTypes
    <3>2. SeenClosed' => removing /\ SeenClosed
      BY <1>2, <3>1 DEF FlagsAgree, SeenClosed
    <3>. QED BY <1>4, <1>5, <3>2 DEF OnlyLateOpens, Opened
  <2>. QED BY <1>3, <2>1, <2>2
<1>. QED BY <1>6, <1>7, <1>8, <1>9, <1>10

LEMMA ReceiveInv ==
  ASSUME RemovalInv, NEW t \in Threads, RemoveReceive(t), NoteLate, UNCHANGED cast
  PROVE  RemovalInv'
<1> USE DEF RemovalInv
<1>1. /\ pc[t] = "receiving" /\ UNCHANGED <<disk, table, holder, arg, aborted>>
      /\ late' = late \ {u \in Threads : pc[u] = "idle"}
  BY DEF RemoveReceive, At, NoteLate, table
<1>2. PICK s \in Threads : /\ pc[s] = "sending"
                           /\ pc' = [pc EXCEPT ![t] = "freeing", ![s] = "sent"]
  BY Zenon DEF RemoveReceive
<1>3. Opened' = Opened
  BY <1>1, <1>2 DEF RemovalTypes, Opened
<1>4. RemovalTypes'
  BY <1>1, <1>2, <1>3 DEF RemovalTypes, Places, table
<1>5. RemoversExclude'
  BY <1>1, <1>2 DEF RemovalTypes, RemoversExclude
<1>6. FlagsAgree'
  BY <1>1, <1>2, Zenon DEF RemovalTypes, FlagsAgree, disk, table
<1>7. NoNewOpens'
  BY <1>1, <1>2 DEF RemovalTypes, NoNewOpens, disk, table
<1>8. OnlyLateOpens'
  BY <1>1, <1>2, <1>3 DEF RemovalTypes, OnlyLateOpens, SeenClosed, Opened, disk
<1>. QED BY <1>4, <1>5, <1>6, <1>7, <1>8

LEMMA FreeInv ==
  ASSUME RemovalInv, NEW t \in Threads, RemoveFree(t) \/ RemoveErase(t), NoteLate,
         UNCHANGED cast
  PROVE  RemovalInv'
<1> USE DEF RemovalInv
<1>1. /\ ~allocated' /\ UNCHANGED <<table, holder, arg, aborted>>
      /\ late' = late \ {u \in Threads : pc[u] = "idle"}
      /\ \/ /\ pc[t] = "freeing" /\ pc' = [pc EXCEPT ![t] = "erasing"]
            /\ inDirectory' = inDirectory
         \/ /\ pc[t] = "erasing" /\ pc' = [pc EXCEPT ![t] = "freed"]
            /\ ~inDirectory' /\ ~allocated
  BY DEF RemoveFree, RemoveErase, At, Goto, NoteLate, table, FlagsAgree
<1>2. Opened' = Opened
  BY <1>1, OpenedStays, Zenon
<1>3. RemovalTypes'
  BY <1>1, <1>2 DEF RemovalTypes, Places, table
<1>4. RemoversExclude'
  BY <1>1 DEF RemovalTypes, RemoversExclude
<1>5. FlagsAgree'
  BY <1>1 DEF RemovalTypes, FlagsAgree, table
<1>6. NoNewOpens'
  BY <1>1 DEF RemovalTypes, NoNewOpens, FlagsAgree, table
<1>7. OnlyLateOpens'
  BY <1>1, <1>2 DEF RemovalTypes, OnlyLateOpens, SeenClosed, Opened
<1>. QED BY <1>3, <1>4, <1>5, <1>6, <1>7

LEMMA EndInv ==
  ASSUME RemovalInv, NEW t \in Threads, RemoveEnd(t), NoteLate, UNCHANGED cast
  PROVE  RemovalInv'
<1> USE DEF RemovalInv
<1>1. /\ pc[t] = "freed" /\ pc' = [pc EXCEPT ![t] = "released"]
      /\ removed' /\ holder[1] = t
      /\ UNCHANGED <<inDirectory, allocated, count, removing, removerSpaceId,
                     removeLock, closeLock, created, arg>>
  BY DEF RemoveEnd, At, Goto, disk, RemoversExclude
<1>2. ~aborted' /\ holder' = [holder EXCEPT ![1] = None]
  <2>1. removeLock # None
    BY RemovalConstants DEF RemovalTypes
  <2>2. ReleaseRemoveLock(t)
    BY <2>1, Zenon DEF RemoveEnd
  <2>. QED BY <1>1, <2>2, ReleaseHeld, Zenon
<1>3. late' = late \ {u \in Threads : pc[u] = "idle"}
  BY <1>1 DEF NoteLate
<1>4. Opened' = Opened
  BY <1>1, OpenedStays, Zenon
<1>5. RemovalTypes'
  BY <1>1, <1>2, <1>3, <1>4, LockOne, Zenon DEF RemovalTypes, Places
<1>6. RemoversExclude'
  BY <1>1, <1>2, LockOne, RemovalConstants DEF RemovalTypes, RemoversExclude
<1>7. FlagsAgree'
  BY <1>1 DEF RemovalTypes, RemoversExclude, FlagsAgree
<1>8. NoNewOpens'
  BY <1>1, <1>3 DEF RemovalTypes, NoNewOpens
<1>9. OnlyLateOpens'
  BY <1>1, <1>3, <1>4 DEF RemovalTypes, OnlyLateOpens, SeenClosed, Opened
<1>. QED BY <1>5, <1>6, <1>7, <1>8, <1>9

(* The flag is cleared: who has read the directory and not tested it yet   *)
(* is late.                                                                *)
LEMMA ReturnInv ==
  ASSUME RemovalInv, NEW t \in Threads, RemoveReturn(t), NoteLate, UNCHANGED cast
  PROVE  RemovalInv'
<1> USE DEF RemovalInv
<1>1. /\ pc[t] = "released" /\ pc' = [pc EXCEPT ![t] = "idle"] /\ ~removing'
      /\ UNCHANGED <<inDirectory, allocated, count, removed, removerSpaceId,
                     removeLock, closeLock, created, holder, arg, aborted>>
  BY DEF RemoveReturn, At, Goto, disk
<1>2. removing /\ removed /\ ~allocated /\ ~inDirectory
  BY <1>1 DEF FlagsAgree
<1>3. /\ late' \subseteq Threads
      /\ \A u \in Threads : u \in late /\ pc[u] # "idle" => u \in late'
      /\ \A u \in Threads : pc[u] = "found" => u \in late'
  BY <1>1, <1>2 DEF NoteLate, RemovalTypes
<1>4. Opened' = Opened
  BY <1>1, OpenedStays, Zenon
<1>5. RemovalTypes'
  BY <1>1, <1>3, <1>4 DEF RemovalTypes, Places
<1>6. RemoversExclude'
  BY <1>1 DEF RemovalTypes, RemoversExclude
<1>7. FlagsAgree'
  BY <1>1, <1>2, Zenon DEF RemovalTypes, FlagsAgree
<1>8. NoNewOpens'
  BY <1>1, <1>2, <1>3 DEF RemovalTypes, NoNewOpens
<1>9. OnlyLateOpens'
  BY <1>1, <1>3, <1>4 DEF RemovalTypes, OnlyLateOpens, SeenClosed, Opened
<1>. QED BY <1>5, <1>6, <1>7, <1>8, <1>9

LEMMA RemovalNext ==
  ASSUME OneLife, RemovalInv, [Next]_vars
  PROVE  RemovalInv'
<1>1. CASE UNCHANGED vars
  BY <1>1, ZenonT(30) DEF vars, disk, table, RemovalInv, RemovalTypes, RemoversExclude,
              FlagsAgree, NoNewOpens, OnlyLateOpens, SeenClosed, Opened
<1>2. CASE Next
  <2>1. /\ cast.openers \subseteq Threads /\ cast.removers \subseteq Threads
        /\ cast.creators = {}
    BY RemovalConstants DEF OneLife, RemovalInv, RemovalTypes
  <2>2. ASSUME NEW t \in Threads, Remove(t), NoteLate, UNCHANGED cast
        PROVE  RemovalInv'
    BY <2>2, LockingInv, CheckInv, MarkInv, ReceiveInv, FreeInv, EndInv, ReturnInv,
       Zenon DEF Remove
  <2>. QED BY <1>2, <2>1, <2>2, OpenCloseInv, Zenon DEF Next
<1>. QED BY <1>1, <1>2

(* A Remove about to clear the sectors finds them marked in the free map:  *)
(* nobody else is past the test of `removed` (FileSystem::Remove and the   *)
(* assertion of FileHeader::Deallocate).                                   *)
LEMMA FreeingAllocated ==
  ASSUME RemovalInv, NEW t \in Threads, RemoveFree(t)
  PROVE  allocated
<1>1. pc[t] = "freeing"
  BY Zenon DEF RemoveFree, At
<1>2. /\ ~removed /\ holder[1] = t
      /\ \A u \in Threads : pc[u] \in {"erasing", "freed"} => holder[1] = u
  BY <1>1, Zenon DEF RemovalInv, FlagsAgree, RemoversExclude
<1>3. ~allocated => removed \/ \E u \in Threads : pc[u] \in {"erasing", "freed"}
  BY Zenon DEF RemovalInv, FlagsAgree
<1>. QED BY <1>1, <1>2, <1>3

(* However many threads call FileSystem::Remove on a file, its sectors are *)
(* freed once.                                                             *)
THEOREM RemovedOnce ==
  ASSUME OneLife
  PROVE  Safety => FreedOnce
<1>1. Init => RemovalInv
  BY RemovalInit
<1>2. RemovalInv /\ [Next]_vars => RemovalInv'
  BY RemovalNext
<1>3. RemovalInv /\ [Next]_vars => [\A t \in Threads : RemoveFree(t) => allocated]_vars
  BY FreeingAllocated
<1>. QED BY <1>1, <1>2, <1>3, PTL DEF Safety, FreedOnce

(* However many threads open the file, those that have it open when its    *)
(* sectors are free were inside Open when Remove set `removing`, past the  *)
(* test of it, or when Remove cleared it, before the test: the count and   *)
(* the message of the last OpenFile::~OpenFile keep Remove waiting for all *)
(* the others.                                                             *)
THEOREM RemovedFilesAreClosed ==
  ASSUME OneLife
  PROVE  Safety => []FreedFilesAreClosed
<1>1. Init => RemovalInv
  BY RemovalInit
<1>2. RemovalInv /\ [Next]_vars => RemovalInv'
  BY RemovalNext
<1>3. RemovalInv => FreedFilesAreClosed
  BY DEF RemovalInv, OnlyLateOpens, SeenClosed, Opened, FreedFilesAreClosed
<1>. QED BY <1>1, <1>2, <1>3, PTL DEF Safety

(* The lock the table points to is held by the Remove that releases it:    *)
(* the assertion of Lock::Release does not fail.                           *)
THEOREM RemoveNeverAborts ==
  ASSUME OneLife
  PROVE  Safety => []~aborted
<1>1. Init => RemovalInv
  BY RemovalInit
<1>2. RemovalInv /\ [Next]_vars => RemovalInv'
  BY RemovalNext
<1>3. RemovalInv => ~aborted
  BY DEF RemovalInv, RemoversExclude
<1>. QED BY <1>1, <1>2, <1>3, PTL DEF Safety
=============================================================================
