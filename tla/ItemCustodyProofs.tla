-------------------------- MODULE ItemCustodyProofs --------------------------
(***************************************************************************)
(* Every safety invariant of ItemCustody follows from CustodyInvariant.    *)
(* Its heart is what a handler owes: once its receipts are replayed, the   *)
(* tables agree item by item with the memory it ends with (HandlerEnds),   *)
(* and after any number of them no item is in two places and none is out   *)
(* of sight, unless the next receipt names it (HandlerRuns).  So writing a *)
(* receipt keeps the invariant whichever handler runs, a crash leaves      *)
(* tables a boot can load (BootFinds), and each handler proves the two     *)
(* facts about its own receipts once, when it starts (HandlerStarts).  A   *)
(* purchase that a caught error stops leaves nothing behind but its item,  *)
(* which no other handler can name before the next boot (ShopStopped,      *)
(* MissedRows).                                                            *)
(*                                                                         *)
(* The other half is replay: the log settles every column the tables hold  *)
(* (Blank), so materializing it over them, or over nothing, gives the same *)
(* tables.  Replay is FoldLeft; ReplayEmpty and ReplayAppend are its two   *)
(* equations, and facts about all logs follow by SequenceInduction.        *)
(***************************************************************************)
EXTENDS ItemCustody, FoldLemmas

(* handleInventorySlotChanged needs a player; the other receipts may lack one. *)

Receipts == {r \in [action : Actions, player : Players \cup {None}, item : Items] :
                r.action = "inventory_slot_changed" => r.player \in Players}

(* What the log alone says about the tables. *)
Replay(t, l) == FoldLeft(Materialize, t, l)
Canon == Replay(NoTables, log)

SameRows(t, u, i) ==
    /\ t.owner[i] = u.owner[i] /\ t.slot[i] = u.slot[i] /\ t.object[i] = u.object[i]
    /\ i \in t.house <=> i \in u.house

(* Which columns of an item a log settles, whatever was there before. *)
RowSettled(l, i) == InLog(l, i, {"item_added", "item_removed", "item_dropped"})
ObjectSettled(l, i) == InLog(l, i, {"item_dropped"})
HouseSettled(l, i) == InLog(l, i, {"house_item_stored", "house_item_retrieved"})

(* The tables hold nothing the log does not settle. *)
Blank(t, l) ==
    \A i \in Items :
        /\ ~RowSettled(l, i) => t.owner[i] = None /\ ~t.slot[i]
        /\ ~ObjectSettled(l, i) => t.object[i] = "none"
        /\ ~HouseSettled(l, i) => i \notin t.house

SlotsOwned(t) ==
    /\ \A i \in Items : t.slot[i] => t.owner[i] # None
    /\ \A i, j \in Items : t.slot[i] /\ t.slot[j] /\ t.owner[i] = t.owner[j] => i = j

InTables(t, i) == t.owner[i] # None \/ t.object[i] = "active" \/ i \in t.house

OnePlace(t, i) ==
    /\ t.owner[i] # None => t.object[i] # "active" /\ i \notin t.house
    /\ t.object[i] = "active" => i \notin t.house

Handed(l, i) == InLog(l, i, {"item_added"})
Named(l, i) == \E n \in DOMAIN l : l[n].item = i
Decayed(l, i) == InLog(l, i, {"world_object_removed"})

(* Where an item may be gone to that a receipt names and nobody has: a boot   *)
(* finds the missed ones again.                                              *)
Away == lost \cup missed

(* Tables t and memory m agree on item i when l is the log, u the used items *)
(* and x the ones that are away.                                             *)
ItemAgrees(t, m, l, u, x, i) ==
    /\ IF i \in u THEN m.owners[i] = {} /\ t.owner[i] # None
                  ELSE m.owners[i] = {t.owner[i]} \ {None}
    /\ t.object[i] = "active" <=> i \in m.world /\ Handed(l, i)
    /\ i \in t.house <=> i \in m.house
    /\ InTables(t, i) => Handed(l, i)
    /\ OnePlace(t, i)
    /\ i \in m.world => Named(l, i)
    /\ Named(l, i) => InTables(t, i) \/ i \in m.world \/ Decayed(l, i) \/ i \in x

ShieldsAgree(t, m) ==
    \A p \in Players, i \in Items : m.shield[p] = i <=> t.owner[i] = p /\ t.slot[i]

Agree(t, m, l, u, x) == (\A i \in Items : ItemAgrees(t, m, l, u, x, i)) /\ ShieldsAgree(t, m)

(* The tables in the middle of a handler that has rest to write. *)
ItemBetween(t, m, l, rest, x, i) ==
    /\ OnePlace(t, i)
    /\ InTables(t, i) => Handed(l, i)
    /\ Named(l, i) => \/ InTables(t, i)
                      \/ i \in m.world /\ ~Handed(l, i)
                      \/ Decayed(l, i) \/ i \in x \/ i \in Torn(l, rest)

Between(t, m, l, rest, x) == \A i \in Items : ItemBetween(t, m, l, rest, x, i)

Written(n) == SubSeq(todo, 1, n)
Unwritten(n) == SubSeq(todo, n + 1, Len(todo))

ShopRunning == todo # <<>> /\ \E p \in Players, i \in Items : IsSuffix(ShopReceipts(p, i), log \o todo)

OneHolder(m, i) == \A x, y \in Places(m, i) : x = y

Types ==
    /\ mem \in Memory /\ after \in Memory /\ db \in Tables
    /\ log \in Seq(Receipts) /\ todo \in Seq(Receipts)
    /\ up \in BOOLEAN /\ crashes \in 0..MaxCrashes
    /\ used \subseteq Items /\ lost \subseteq Items /\ missed \subseteq Items

Quiet ==
    /\ todo = <<>> => mem = after
    /\ ~up => todo = <<>> /\ mem = NoMemory /\ used = {} /\ missed = {}

TablesFromLog ==
    /\ Blank(db, log) /\ SlotsOwned(db)
    /\ up => \A i \in Items \ missed : SameRows(db, Canon, i)

(* A missed item has a row in the replay of the log and none in the tables,  *)
(* and no receipt still to be written is about it.                           *)
MissedRows ==
    /\ \A i \in missed :
           /\ Handed(log, i) /\ ~InTables(db, i)
           /\ Canon.owner[i] \in Players /\ ~Canon.slot[i]
           /\ Canon.object[i] # "active" /\ i \notin Canon.house
    /\ \A n \in DOMAIN todo : todo[n].item \notin missed

MemoryHeld ==
    /\ \A i \in Items : OneHolder(mem, i) /\ OnePlace(db, i)
    /\ \A p \in Players : mem.shield[p] \in used \cup {None} \/ p \in mem.owners[mem.shield[p]]

HandlerEnds == up => Agree(Replay(db, todo), after, log \o todo, used, Away)

HandlerRuns ==
    up => \A n \in 0..Len(todo) :
        Between(Replay(db, Written(n)), IF n = Len(todo) THEN after ELSE mem,
                log \o Written(n), Unwritten(n), Away)

BootFinds == ~up => Between(Canon, NoMemory, log, <<>>, lost)

(* A running purchase can stop here: nobody has its item yet. *)
ShopStopped ==
    up /\ ShopRunning =>
        /\ Len(todo) <= 3 /\ Agree(db, mem, log, used, Away \cup Torn(log, todo))
        /\ ~Handed(log, Head(todo).item) /\ Head(todo).item \notin mem.world

CustodyInvariant ==
    /\ Types /\ Quiet /\ TablesFromLog /\ MissedRows /\ MemoryHeld
    /\ HandlerEnds /\ HandlerRuns /\ BootFinds /\ ShopStopped

USE CustodyAssumption

-----------------------------------------------------------------------------
(* The tables that one receipt leaves behind are tables again. *)

LEMMA AddedTables ==
    ASSUME NEW t \in Tables, NEW p \in Players \cup {None}, NEW i \in Items
    PROVE  Added(t, p, i) \in Tables
BY DEF Added, Tables, ObjectStatus

LEMMA RowDeletedTables ==
    ASSUME NEW t \in Tables, NEW i \in Items
    PROVE  RowDeleted(t, i) \in Tables
BY DEF RowDeleted, Tables

LEMMA DroppedTables ==
    ASSUME NEW t \in Tables, NEW i \in Items
    PROVE  Dropped(t, i) \in Tables
BY RowDeletedTables DEF Dropped, Tables, ObjectStatus

LEMMA ObjectUpdatedTables ==
    ASSUME NEW t \in Tables, NEW i \in Items, NEW status \in ObjectStatus
    PROVE  ObjectUpdated(t, i, status) \in Tables
BY DEF ObjectUpdated, Tables

LEMMA SlotChangedTables ==
    ASSUME NEW t \in Tables, NEW p \in Players \cup {None}, NEW i \in Items
    PROVE  SlotChanged(t, p, i) \in Tables
BY DEF SlotChanged, Tables

LEMMA MaterializeTables ==
    ASSUME NEW t \in Tables, NEW r \in Receipts
    PROVE  Materialize(t, r) \in Tables
<1>1. r.player \in Players \cup {None} /\ r.item \in Items /\ r.action \in Actions
  BY DEF Receipts
<1>2. [t EXCEPT !.house = @ \cup {r.item}] \in Tables
  BY <1>1 DEF Tables
<1>3. [t EXCEPT !.house = @ \ {r.item}] \in Tables
  BY <1>1 DEF Tables
<1>. QED
  BY <1>1, <1>2, <1>3, AddedTables, RowDeletedTables, DroppedTables, ObjectUpdatedTables,
     SlotChangedTables DEF Materialize, Retrieved, Actions, ObjectStatus

-----------------------------------------------------------------------------
(* FoldLeft over the log *)

Iterated(t, l) ==
    CHOOSE iter : iter = [s \in SUBSET (DOMAIN l) |->
        IF s = {} THEN t ELSE Materialize(iter[s \ {Max(s)}], l[Max(s)])]

LEMMA FoldIsIterated ==
    ASSUME NEW t, NEW l
    PROVE  Replay(t, l) = Iterated(t, l)[DOMAIN l]
BY DEF Replay, FoldLeft, MapThenFoldSet, Iterated

LEMMA IteratedPrefix ==
    ASSUME NEW t \in Tables, NEW l \in Seq(Receipts)
    PROVE  /\ Iterated(t, l)[1..0] = t
           /\ \A m \in 1..Len(l) :
                  Iterated(t, l)[1..m] = Materialize(Iterated(t, l)[1..m - 1], l[m])
<1>. DEFINE Body(iter) == [s \in SUBSET (DOMAIN l) |->
               IF s = {} THEN t ELSE Materialize(iter[s \ {Max(s)}], l[Max(s)])]
<1>1. PICK n \in Nat : n = Len(l) /\ DOMAIN l = 1..n
  BY LenProperties
<1>. DEFINE g == [k \in 1..n |-> [u \in Tables |-> Materialize(u, l[k])]]
<1>2. \A k \in 1..n : l[k] \in Receipts
  BY <1>1, ElementOfSeq
<1>3. g \in [1..n -> [Tables -> Tables]]
  BY <1>2, MaterializeTables
<1>4. PICK W \in [SUBSET (1..n) -> Tables] : BySize(W, n, t, g)
  <2>. HIDE DEF g, Body
  <2>. QED BY <1>3, RecursionBySize, Zenon
<1>5. ASSUME NEW s \in SUBSET (1..n)
      PROVE  W[s] = IF s = {} THEN t ELSE Materialize(W[s \ {Max(s)}], l[Max(s)])
  <2>1. CASE s = {}
    BY <1>4, <2>1 DEF BySize
  <2>2. CASE s # {}
    <3>1. Max(s) \in s
      BY <2>2, LargestBelow, Zenon
    <3>2. Max(s) \in 1..n /\ s \ {Max(s)} \in SUBSET (1..n)
      BY <3>1
    <3>3. g[Max(s)][W[s \ {Max(s)}]] = Materialize(W[s \ {Max(s)}], l[Max(s)])
      BY <3>2
    <3>. QED
      <4>. HIDE DEF g
      <4>. QED BY <2>2, <1>4, <3>3 DEF BySize
  <2>. QED
    BY <2>1, <2>2
<1>6. W = Body(W)
  BY <1>5, <1>1
<1>7. Iterated(t, l) = Body(Iterated(t, l))
  <2>1. Iterated(t, l) = CHOOSE iter : iter = Body(iter)
    BY DEF Iterated
  <2>. HIDE DEF Body
  <2>. QED
    BY <1>6, <2>1, Zenon
<1>. DEFINE X == Iterated(t, l)
<1>8. X = [s \in SUBSET (1..n) |->
              IF s = {} THEN t ELSE Materialize(X[s \ {Max(s)}], l[Max(s)])]
  BY <1>7, <1>1
<1>. HIDE DEF X, Body, g
<1>9. ASSUME NEW s \in SUBSET (1..n)
      PROVE  X[s] = IF s = {} THEN t ELSE Materialize(X[s \ {Max(s)}], l[Max(s)])
  BY <1>8
<1>10. X[1..0] = t
  <2>1. 1..0 = {} /\ 1..0 \in SUBSET (1..n)
    OBVIOUS
  <2>. QED
    BY <1>9, <2>1
<1>11. ASSUME NEW m \in 1..n PROVE X[1..m] = Materialize(X[1..m - 1], l[m])
  <2>1. /\ Max(1..m) = m /\ 1..m # {} /\ (1..m) \ {m} = 1..m - 1
        /\ 1..m \in SUBSET (1..n)
    BY InitialSets, Zenon
  <2>2. X[1..m] = Materialize(X[(1..m) \ {Max(1..m)}], l[Max(1..m)])
    BY <1>9, <2>1
  <2>3. X[(1..m) \ {Max(1..m)}] = X[1..m - 1]
    BY <2>1, Zenon
  <2>. QED
    BY <2>1, <2>2, <2>3, Zenon
<1>. QED
  BY <1>1, <1>10, <1>11 DEF X

LEMMA ReplayEmpty ==
    ASSUME NEW t \in Tables
    PROVE  Replay(t, <<>>) = t
<1>1. <<>> \in Seq(Receipts) /\ DOMAIN <<>> = 1..0
  BY EmptySeq
<1>. QED
  BY <1>1, IteratedPrefix, FoldIsIterated

LEMMA ReplayAppend ==
    ASSUME NEW t \in Tables, NEW l \in Seq(Receipts), NEW r \in Receipts
    PROVE  Replay(t, Append(l, r)) = Materialize(Replay(t, l), r)
<1>1. PICK n \in Nat : n = Len(l) /\ DOMAIN l = 1..n
  BY LenProperties
<1>. DEFINE k == Append(l, r)
<1>2. /\ k \in Seq(Receipts) /\ Len(k) = n + 1 /\ DOMAIN k = 1..n + 1
      /\ k[n + 1] = r /\ \A i \in 1..n : k[i] = l[i]
  BY <1>1, AppendProperties, LenProperties
<1>. DEFINE X == Iterated(t, l)
            Y == Iterated(t, k)
<1>3. X[1..0] = t /\ \A m \in 1..n : X[1..m] = Materialize(X[1..m - 1], l[m])
  BY <1>1, IteratedPrefix
<1>4. Y[1..0] = t /\ \A m \in 1..n + 1 : Y[1..m] = Materialize(Y[1..m - 1], k[m])
  <2>. HIDE DEF k
  <2>. QED BY <1>2, IteratedPrefix
<1>. DEFINE Q == {m \in 0..n : X[1..m] = Y[1..m]}
<1>. HIDE DEF X, Y, k
<1>5. 0 \in Q
  BY <1>3, <1>4
<1>6. ASSUME NEW m \in 1..n, m - 1 \in Q PROVE m \in Q
  <2>1. m \in 1..n + 1
    OBVIOUS
  <2>. QED
    BY <1>6, <1>2, <1>3, <1>4, <2>1
<1>7. X[1..n] = Y[1..n]
  <2>1. 0..n \subseteq Q
    <3>. HIDE DEF Q
    <3>. QED BY <1>5, <1>6, IndexInduction
  <2>. QED
    BY <2>1
<1>8. Y[1..n + 1] = Materialize(Y[1..n], r)
  <2>1. n + 1 \in 1..n + 1 /\ (n + 1) - 1 = n
    OBVIOUS
  <2>. QED BY <1>2, <1>4, <2>1
<1>9. Replay(t, l) = X[1..n] /\ Replay(t, k) = Y[1..n + 1]
  BY <1>1, <1>2, FoldIsIterated DEF X, Y
<1>. QED
  BY <1>7, <1>8, <1>9 DEF k

LEMMA ReplayTables ==
    ASSUME NEW t \in Tables
    PROVE  \A l \in Seq(Receipts) : Replay(t, l) \in Tables
<1>. DEFINE P == {l \in Seq(Receipts) : Replay(t, l) \in Tables}
<1>1. <<>> \in P
  BY ReplayEmpty, EmptySeq
<1>2. ASSUME NEW l \in Seq(Receipts), NEW r \in Receipts, l \in P
      PROVE  Append(l, r) \in P
  BY <1>2, ReplayAppend, MaterializeTables, AppendProperties
<1>3. Seq(Receipts) \subseteq P
  <2>. HIDE DEF P
  <2>. QED BY <1>1, <1>2, SequenceInduction
<1>. QED
  BY <1>3

(* Replaying two logs one after the other. *)
LEMMA ReplayConcat ==
    ASSUME NEW t \in Tables, NEW l \in Seq(Receipts)
    PROVE  \A s \in Seq(Receipts) : Replay(t, l \o s) = Replay(Replay(t, l), s)
<1>. DEFINE P == {s \in Seq(Receipts) : Replay(t, l \o s) = Replay(Replay(t, l), s)}
<1>0. Replay(t, l) \in Tables
  BY ReplayTables
<1>1. <<>> \in P
  <2>1. l \o <<>> = l /\ <<>> \in Seq(Receipts)
    BY EmptySeq, ConcatEmptySeq
  <2>. QED
    BY <2>1, <1>0, ReplayEmpty
<1>2. ASSUME NEW s \in Seq(Receipts), NEW r \in Receipts, s \in P
      PROVE  Append(s, r) \in P
  <2>1. l \o Append(s, r) = Append(l \o s, r) /\ l \o s \in Seq(Receipts)
    BY AppendIsConcat, ConcatAssociative, ConcatProperties
  <2>2. Replay(t, Append(l \o s, r)) = Materialize(Replay(t, l \o s), r)
    BY <2>1, ReplayAppend
  <2>3. Replay(Replay(t, l), Append(s, r)) = Materialize(Replay(Replay(t, l), s), r)
    BY <1>0, ReplayAppend
  <2>4. Append(s, r) \in Seq(Receipts)
    BY AppendProperties
  <2>. QED
    BY <1>2, <2>1, <2>2, <2>3, <2>4
<1>3. Seq(Receipts) \subseteq P
  <2>. HIDE DEF P
  <2>. QED BY <1>1, <1>2, SequenceInduction
<1>. QED
  BY <1>3

-----------------------------------------------------------------------------
(* What a log names *)

LEMMA InEmptyLog ==
    ASSUME NEW i, NEW A
    PROVE  ~InLog(<<>>, i, A) /\ ~Named(<<>>, i)
BY DEF InLog, Named

LEMMA InLongerLog ==
    ASSUME NEW l \in Seq(Receipts), NEW r \in Receipts, NEW i, NEW A
    PROVE  /\ InLog(Append(l, r), i, A) <=> InLog(l, i, A) \/ (r.item = i /\ r.action \in A)
           /\ Named(Append(l, r), i) <=> Named(l, i) \/ r.item = i
<1>1. PICK n \in Nat : n = Len(l) /\ DOMAIN l = 1..n
  BY LenProperties
<1>. DEFINE k == Append(l, r)
<1>2. DOMAIN k = 1..n + 1 /\ k[n + 1] = r /\ \A m \in 1..n : k[m] = l[m]
  BY <1>1, AppendProperties, LenProperties
<1>. HIDE DEF k
<1>3. InLog(k, i, A) <=> InLog(l, i, A) \/ (r.item = i /\ r.action \in A)
  BY <1>1, <1>2 DEF InLog
<1>4. Named(k, i) <=> Named(l, i) \/ r.item = i
  BY <1>1, <1>2 DEF Named
<1>. QED
  BY <1>3, <1>4 DEF k

LEMMA InJoinedLog ==
    ASSUME NEW l \in Seq(Receipts), NEW s \in Seq(Receipts), NEW i, NEW A
    PROVE  /\ InLog(l \o s, i, A) <=> InLog(l, i, A) \/ InLog(s, i, A)
           /\ Named(l \o s, i) <=> Named(l, i) \/ Named(s, i)
<1>1. PICK n \in Nat : n = Len(l) /\ DOMAIN l = 1..n
  BY LenProperties
<1>2. PICK m \in Nat : m = Len(s) /\ DOMAIN s = 1..m
  BY LenProperties
<1>. DEFINE k == l \o s
<1>3. /\ DOMAIN k = 1..n + m
      /\ \A j \in 1..n : j \in DOMAIN k /\ k[j] = l[j]
      /\ \A j \in 1..m : n + j \in DOMAIN k /\ k[n + j] = s[j]
      /\ \A j \in DOMAIN k : j \in 1..n \/ \E h \in 1..m : j = n + h
  <2>1. DOMAIN k = 1..n + m /\ \A j \in 1..n + m : k[j] = IF j <= n THEN l[j] ELSE s[j - n]
    BY <1>1, <1>2, ConcatProperties, LenProperties
  <2>2. ASSUME NEW j \in DOMAIN k PROVE j \in 1..n \/ \E h \in 1..m : j = n + h
    <3>1. j \in 1..n \/ (j - n \in 1..m /\ j = n + (j - n))
      BY <2>1
    <3>. QED
      BY <3>1
  <2>. QED
    <3>. HIDE DEF k
    <3>. QED BY <2>1, <2>2
<1>. HIDE DEF k
<1>. DEFINE Here(e) == e.item = i /\ e.action \in A
<1>4. (\E j \in DOMAIN k : Here(k[j])) <=> (\E j \in 1..n : Here(l[j])) \/ \E j \in 1..m : Here(s[j])
  <2>. HIDE DEF Here
  <2>1. ASSUME NEW j \in DOMAIN k, Here(k[j])
        PROVE  (\E h \in 1..n : Here(l[h])) \/ \E h \in 1..m : Here(s[h])
    BY <2>1, <1>3
  <2>2. ASSUME NEW j \in 1..n, Here(l[j]) PROVE \E h \in DOMAIN k : Here(k[h])
    BY <2>2, <1>3
  <2>3. ASSUME NEW j \in 1..m, Here(s[j]) PROVE \E h \in DOMAIN k : Here(k[h])
    BY <2>3, <1>3
  <2>. QED
    BY <2>1, <2>2, <2>3
<1>5. (\E j \in DOMAIN k : k[j].item = i) <=> (\E j \in 1..n : l[j].item = i) \/ \E j \in 1..m : s[j].item = i
  <2>1. ASSUME NEW j \in DOMAIN k, k[j].item = i
        PROVE  (\E h \in 1..n : l[h].item = i) \/ \E h \in 1..m : s[h].item = i
    BY <2>1, <1>3
  <2>2. ASSUME NEW j \in 1..n, l[j].item = i PROVE \E h \in DOMAIN k : k[h].item = i
    BY <2>2, <1>3
  <2>3. ASSUME NEW j \in 1..m, s[j].item = i PROVE \E h \in DOMAIN k : k[h].item = i
    BY <2>3, <1>3
  <2>. QED
    BY <2>1, <2>2, <2>3
<1>. QED
  BY <1>1, <1>2, <1>4, <1>5 DEF k, InLog, Named

-----------------------------------------------------------------------------
(* What one receipt does to one item *)

LEMMA OtherItems ==
    ASSUME NEW t \in Tables, NEW r \in Receipts, NEW i \in Items, r.item # i
    PROVE  /\ Materialize(t, r).owner[i] = t.owner[i]
           /\ Materialize(t, r).object[i] = t.object[i]
           /\ i \in Materialize(t, r).house <=> i \in t.house
           /\ ~t.slot[i] /\ t.owner[i] = None => ~Materialize(t, r).slot[i]
BY DEF Materialize, Added, RowDeleted, Dropped, ObjectUpdated, Retrieved, SlotChanged,
       Tables, Receipts, Actions

LEMMA SameItem ==
    ASSUME NEW t \in Tables, NEW r \in Receipts, NEW i \in Items, r.item = i
    PROVE  LET u == Materialize(t, r) IN
           /\ u.owner[i] = IF r.action = "item_added" THEN r.player
                           ELSE IF r.action \in {"item_removed", "item_dropped"} THEN None
                           ELSE t.owner[i]
           /\ u.object[i] = IF r.action = "item_added" /\ t.object[i] = "active" THEN "picked_up"
                            ELSE IF r.action = "item_dropped" THEN "active"
                            ELSE IF r.action = "item_picked_up" /\ t.object[i] # "none" THEN "picked_up"
                            ELSE IF r.action = "world_object_removed" /\ t.object[i] # "none" THEN "decayed"
                            ELSE t.object[i]
           /\ i \in u.house <=> \/ r.action = "house_item_stored"
                                \/ i \in t.house /\ r.action # "house_item_retrieved"
           /\ r.action \in {"item_added", "item_removed", "item_dropped"} => ~u.slot[i]
           /\ r.action # "inventory_slot_changed" /\ ~t.slot[i] => ~u.slot[i]
           /\ t.owner[i] = None /\ ~t.slot[i] => ~u.slot[i]
<1>1. r.action \in Actions /\ r.player \in Players \cup {None}
      /\ (r.action = "inventory_slot_changed" => r.player # None)
  BY DEF Receipts
<1>2. t.object \in [Items -> ObjectStatus] /\ t.owner \in [Items -> Players \cup {None}]
      /\ t.slot \in [Items -> BOOLEAN]
  BY DEF Tables
<1>. QED
  BY <1>1, <1>2 DEF Materialize, Added, RowDeleted, Dropped, ObjectUpdated, Retrieved,
       SlotChanged, Tables, Actions

(* A slot belongs to a row, and a player has one slot at most. *)
LEMMA SlotsStayOwned ==
    ASSUME NEW t \in Tables, NEW r \in Receipts, SlotsOwned(t)
    PROVE  SlotsOwned(Materialize(t, r))
<1>1. r.action \in Actions /\ r.item \in Items /\ r.player \in Players \cup {None}
      /\ (r.action = "inventory_slot_changed" => r.player # None)
  BY DEF Receipts
<1>2. CASE r.action = "item_added"
  <2>1. /\ Materialize(t, r).owner = [t.owner EXCEPT ![r.item] = r.player]
        /\ Materialize(t, r).slot = [t.slot EXCEPT ![r.item] = FALSE]
    BY <1>1, <1>2 DEF Materialize, Added, Tables
  <2>2. t.owner \in [Items -> Players \cup {None}] /\ t.slot \in [Items -> BOOLEAN]
    BY DEF Tables
  <2>. QED
    BY <1>1, <2>1, <2>2 DEF SlotsOwned
<1>3. CASE r.action \in {"item_removed", "item_dropped"}
  <2>1. /\ Materialize(t, r).owner = [t.owner EXCEPT ![r.item] = None]
        /\ Materialize(t, r).slot = [t.slot EXCEPT ![r.item] = FALSE]
    <3>1. CASE r.action = "item_removed"
      BY <1>1, <3>1 DEF Materialize, RowDeleted, Tables
    <3>2. CASE r.action = "item_dropped"
      BY <1>1, <3>2 DEF Materialize, Dropped, RowDeleted, Tables
    <3>. QED
      BY <1>3, <3>1, <3>2
  <2>2. t.owner \in [Items -> Players \cup {None}] /\ t.slot \in [Items -> BOOLEAN]
    BY DEF Tables
  <2>. QED
    BY <1>1, <2>1, <2>2 DEF SlotsOwned
<1>4. CASE r.action = "inventory_slot_changed"
  BY <1>1, <1>4 DEF SlotsOwned, Materialize, SlotChanged, Tables
<1>5. CASE r.action \notin {"item_added", "item_removed", "item_dropped", "inventory_slot_changed"}
  <2>1. Materialize(t, r).owner = t.owner /\ Materialize(t, r).slot = t.slot
    BY <1>1, <1>5 DEF Materialize, ObjectUpdated, Retrieved, Tables, Actions
  <2>. QED
    BY <2>1 DEF SlotsOwned
<1>. QED
  BY <1>2, <1>3, <1>4, <1>5

LEMMA SlotsOfOthers ==
    ASSUME NEW t \in Tables, NEW r \in Receipts, NEW i \in Items,
           r.action # "inventory_slot_changed", r.item # i
    PROVE  Materialize(t, r).slot[i] = t.slot[i]
BY DEF Materialize, Added, RowDeleted, Dropped, ObjectUpdated, Retrieved, Tables,
       Receipts, Actions

(* What a receipt makes of an item depends on that item's rows alone. *)
LEMMA SameRowsStep ==
    ASSUME NEW t \in Tables, NEW u \in Tables, NEW r \in Receipts, NEW i \in Items,
           SameRows(t, u, i)
    PROVE  SameRows(Materialize(t, r), Materialize(u, r), i)
<1>0. r.item \in Items /\ r.action \in Actions /\ r.player \in Players \cup {None}
  BY DEF Receipts
<1>1. /\ t.owner[i] = u.owner[i] /\ t.slot[i] = u.slot[i] /\ t.object[i] = u.object[i]
      /\ i \in t.house <=> i \in u.house
  BY DEF SameRows
<1>2. CASE r.action = "item_added"
  <2>1. CASE r.item = i
    <3>1. /\ Materialize(t, r) = Added(t, r.player, i) /\ Materialize(u, r) = Added(u, r.player, i)
      BY <1>2, <2>1 DEF Materialize
    <3>2. \A v \in Tables :
              /\ Added(v, r.player, i).owner[i] = r.player
              /\ Added(v, r.player, i).slot[i] = FALSE
              /\ Added(v, r.player, i).object[i] = IF v.object[i] = "active" THEN "picked_up" ELSE v.object[i]
              /\ Added(v, r.player, i).house = v.house
      BY DEF Added, Tables
    <3>. QED
      BY <1>1, <3>1, <3>2 DEF SameRows
  <2>2. CASE r.item # i
    BY <1>1, <1>2, <2>2, OtherItems, SlotsOfOthers DEF SameRows
  <2>. QED
    BY <2>1, <2>2
<1>3. CASE r.action = "item_removed"
  BY <1>0, <1>1, <1>3 DEF SameRows, Materialize, RowDeleted, Tables
<1>4. CASE r.action = "item_dropped"
  BY <1>0, <1>1, <1>4 DEF SameRows, Materialize, Dropped, RowDeleted, Tables
<1>5. CASE r.action = "inventory_slot_changed"
  BY <1>0, <1>1, <1>5 DEF SameRows, Materialize, SlotChanged, Tables
<1>6. CASE r.action \notin {"item_added", "item_removed", "item_dropped", "inventory_slot_changed"}
  BY <1>0, <1>1, <1>6 DEF SameRows, Materialize, ObjectUpdated, Retrieved, Tables, Actions
<1>. QED
  BY <1>2, <1>3, <1>4, <1>5, <1>6

(* A receipt about another item puts no slot on this one. *)
LEMMA NoSlotFromOthers ==
    ASSUME NEW t \in Tables, NEW r \in Receipts, NEW i \in Items, r.item # i, ~t.slot[i]
    PROVE  ~Materialize(t, r).slot[i]
BY DEF Materialize, Added, RowDeleted, Dropped, ObjectUpdated, Retrieved, SlotChanged,
       Tables, Receipts, Actions

-----------------------------------------------------------------------------
(* Replaying a log over tables that it settles *)

(* The columns a log settles are equal in two tables. *)
SettledEqual(t, u, l) ==
    \A i \in Items :
        /\ RowSettled(l, i) => t.owner[i] = u.owner[i] /\ t.slot[i] = u.slot[i]
        /\ ObjectSettled(l, i) => t.object[i] = u.object[i]
        /\ HouseSettled(l, i) => (i \in t.house <=> i \in u.house)

LEMMA SettledStep ==
    ASSUME NEW t \in Tables, NEW u \in Tables, NEW l \in Seq(Receipts), NEW r \in Receipts,
           SettledEqual(t, u, l)
    PROVE  SettledEqual(Materialize(t, r), Materialize(u, r), Append(l, r))
<1>. DEFINE tt == Materialize(t, r)
            uu == Materialize(u, r)
            ll == Append(l, r)
<1>0. r.item \in Items /\ r.action \in Actions /\ r.player \in Players \cup {None}
      /\ (r.action = "inventory_slot_changed" => r.player # None)
  BY DEF Receipts
<1>1. SUFFICES ASSUME NEW i \in Items
      PROVE  /\ RowSettled(ll, i) => tt.owner[i] = uu.owner[i] /\ tt.slot[i] = uu.slot[i]
             /\ ObjectSettled(ll, i) => tt.object[i] = uu.object[i]
             /\ HouseSettled(ll, i) => (i \in tt.house <=> i \in uu.house)
  BY DEF SettledEqual
<1>2. /\ RowSettled(ll, i) => RowSettled(l, i) \/ (r.item = i /\ r.action \in {"item_added", "item_removed", "item_dropped"})
      /\ ObjectSettled(ll, i) => ObjectSettled(l, i) \/ (r.item = i /\ r.action = "item_dropped")
      /\ HouseSettled(ll, i) => HouseSettled(l, i)
             \/ (r.item = i /\ r.action \in {"house_item_stored", "house_item_retrieved"})
  BY InLongerLog DEF RowSettled, ObjectSettled, HouseSettled
<1>3. /\ RowSettled(l, i) => t.owner[i] = u.owner[i] /\ t.slot[i] = u.slot[i]
      /\ ObjectSettled(l, i) => t.object[i] = u.object[i]
      /\ HouseSettled(l, i) => (i \in t.house <=> i \in u.house)
  BY DEF SettledEqual
<1>. HIDE DEF ll
<1>4. CASE r.item = i
  <2>1. ObjectSettled(ll, i) => tt.object[i] = uu.object[i]
    BY <1>2, <1>3, <1>4, SameItem
  <2>2. HouseSettled(ll, i) => (i \in tt.house <=> i \in uu.house)
    BY <1>2, <1>3, <1>4, SameItem
  <2>3. RowSettled(ll, i) => tt.owner[i] = uu.owner[i]
    BY <1>2, <1>3, <1>4, SameItem
  <2>4. CASE r.action \in {"item_added", "item_removed", "item_dropped"}
    <3>1. tt.slot[i] \in BOOLEAN /\ uu.slot[i] \in BOOLEAN
      BY MaterializeTables DEF Tables
    <3>2. ~tt.slot[i] /\ ~uu.slot[i]
      BY <2>4, <1>4, SameItem
    <3>. QED
      BY <2>1, <2>2, <2>3, <3>1, <3>2
  <2>5. CASE r.action \notin {"item_added", "item_removed", "item_dropped"}
    <3>1. RowSettled(ll, i) => tt.slot[i] = uu.slot[i]
      BY <1>0, <1>2, <1>3, <2>5, <1>4 DEF Materialize, ObjectUpdated, Retrieved, SlotChanged, Tables, Actions
    <3>. QED
      BY <2>1, <2>2, <2>3, <3>1
  <2>. QED
    BY <2>4, <2>5
<1>5. CASE r.item # i
  <2>1. /\ tt.owner[i] = t.owner[i] /\ uu.owner[i] = u.owner[i]
        /\ tt.object[i] = t.object[i] /\ uu.object[i] = u.object[i]
        /\ i \in tt.house <=> i \in t.house
        /\ i \in uu.house <=> i \in u.house
    BY <1>5, OtherItems
  <2>2. t.owner[i] = u.owner[i] /\ t.slot[i] = u.slot[i] => tt.slot[i] = uu.slot[i]
    BY <1>0, <1>5 DEF Materialize, Added, RowDeleted, Dropped, ObjectUpdated, Retrieved,
       SlotChanged, Tables, Actions
  <2>. QED
    BY <1>2, <1>3, <1>5, <2>1, <2>2
<1>. QED
  BY <1>4, <1>5

LEMMA SettledByReplay ==
    ASSUME NEW t \in Tables, NEW u \in Tables
    PROVE  \A l \in Seq(Receipts) : SettledEqual(Replay(t, l), Replay(u, l), l)
<1>. DEFINE P == {l \in Seq(Receipts) : SettledEqual(Replay(t, l), Replay(u, l), l)}
<1>1. <<>> \in P
  BY EmptySeq, InEmptyLog DEF SettledEqual, RowSettled, ObjectSettled, HouseSettled
<1>2. ASSUME NEW l \in Seq(Receipts), NEW r \in Receipts, l \in P
      PROVE  Append(l, r) \in P
  <2>1. SettledEqual(Replay(t, l), Replay(u, l), l)
    BY <1>2
  <2>2. Replay(t, l) \in Tables /\ Replay(u, l) \in Tables
    BY ReplayTables
  <2>3. SettledEqual(Materialize(Replay(t, l), r), Materialize(Replay(u, l), r), Append(l, r))
    BY <2>1, <2>2, SettledStep
  <2>4. Append(l, r) \in Seq(Receipts)
    BY AppendProperties
  <2>. QED
    BY <2>3, <2>4, ReplayAppend
<1>3. Seq(Receipts) \subseteq P
  <2>. HIDE DEF P
  <2>. QED BY <1>1, <1>2, SequenceInduction
<1>. QED
  BY <1>3

(* One more receipt settles what it writes. *)
LEMMA BlankStep ==
    ASSUME NEW t \in Tables, NEW l \in Seq(Receipts), NEW r \in Receipts, Blank(t, l)
    PROVE  Blank(Materialize(t, r), Append(l, r)) /\ Blank(t, Append(l, r))
<1>. DEFINE tt == Materialize(t, r)
            ll == Append(l, r)
<1>0. r.item \in Items /\ r.action \in Actions
  BY DEF Receipts
<1>1. SUFFICES ASSUME NEW i \in Items
      PROVE  /\ ~RowSettled(ll, i) => tt.owner[i] = None /\ ~tt.slot[i] /\ t.owner[i] = None /\ ~t.slot[i]
             /\ ~ObjectSettled(ll, i) => tt.object[i] = "none" /\ t.object[i] = "none"
             /\ ~HouseSettled(ll, i) => i \notin tt.house /\ i \notin t.house
  BY DEF Blank
<1>2. /\ ~RowSettled(ll, i) => ~RowSettled(l, i) /\ (r.item = i => r.action \notin {"item_added", "item_removed", "item_dropped"})
      /\ ~ObjectSettled(ll, i) => ~ObjectSettled(l, i) /\ (r.item = i => r.action # "item_dropped")
      /\ ~HouseSettled(ll, i) => ~HouseSettled(l, i) /\ (r.item = i => r.action # "house_item_stored")
  BY InLongerLog DEF RowSettled, ObjectSettled, HouseSettled
<1>3. /\ ~RowSettled(l, i) => t.owner[i] = None /\ ~t.slot[i]
      /\ ~ObjectSettled(l, i) => t.object[i] = "none"
      /\ ~HouseSettled(l, i) => i \notin t.house
  BY DEF Blank
<1>. HIDE DEF ll
<1>4. CASE r.item = i
  <2>. HIDE DEF tt
  <2>1. /\ tt.owner[i] = IF r.action = "item_added" THEN r.player
                           ELSE IF r.action \in {"item_removed", "item_dropped"} THEN None
                           ELSE t.owner[i]
        /\ t.object[i] = "none" /\ r.action # "item_dropped" => tt.object[i] = "none"
        /\ i \in tt.house <=> (\/ r.action = "house_item_stored"
                               \/ i \in t.house /\ r.action # "house_item_retrieved")
        /\ t.owner[i] = None /\ ~t.slot[i] => ~tt.slot[i]
    BY <1>4, SameItem DEF tt
  <2>. QED
    BY <1>2, <1>3, <1>4, <2>1
<1>5. CASE r.item # i
  BY <1>2, <1>3, <1>5, OtherItems
<1>. QED
  BY <1>4, <1>5

LEMMA BlankReplay ==
    ASSUME NEW t \in Tables, NEW l \in Seq(Receipts), Blank(t, l)
    PROVE  Blank(Replay(t, l), l)

<1>. DEFINE Rest(s) == \A i \in Items :
                /\ ~RowSettled(s, i) /\ t.owner[i] = None /\ ~t.slot[i]
                   => Replay(t, s).owner[i] = None /\ ~Replay(t, s).slot[i]
                /\ ~ObjectSettled(s, i) /\ t.object[i] = "none" => Replay(t, s).object[i] = "none"
                /\ ~HouseSettled(s, i) /\ i \notin t.house => i \notin Replay(t, s).house
            P == {s \in Seq(Receipts) : Rest(s)}
<1>1. <<>> \in P
  BY EmptySeq, ReplayEmpty
<1>2. ASSUME NEW s \in Seq(Receipts), NEW r \in Receipts, s \in P
      PROVE  Append(s, r) \in P
  <2>. DEFINE v == Replay(t, s)
              vv == Materialize(v, r)
              ss == Append(s, r)
  <2>1. v \in Tables /\ ss \in Seq(Receipts) /\ Replay(t, ss) = vv
    BY ReplayTables, ReplayAppend, AppendProperties
  <2>2. r.item \in Items /\ r.action \in Actions
    BY DEF Receipts
  <2>3. ASSUME NEW i \in Items
        PROVE  /\ ~RowSettled(ss, i) /\ t.owner[i] = None /\ ~t.slot[i]
                  => vv.owner[i] = None /\ ~vv.slot[i]
               /\ ~ObjectSettled(ss, i) /\ t.object[i] = "none" => vv.object[i] = "none"
               /\ ~HouseSettled(ss, i) /\ i \notin t.house => i \notin vv.house
    <3>1. /\ ~RowSettled(ss, i) => ~RowSettled(s, i) /\ (r.item = i => r.action \notin {"item_added", "item_removed", "item_dropped"})
          /\ ~ObjectSettled(ss, i) => ~ObjectSettled(s, i) /\ (r.item = i => r.action # "item_dropped")
          /\ ~HouseSettled(ss, i) => ~HouseSettled(s, i) /\ (r.item = i => r.action # "house_item_stored")
      BY InLongerLog DEF RowSettled, ObjectSettled, HouseSettled
    <3>2. /\ ~RowSettled(s, i) /\ t.owner[i] = None /\ ~t.slot[i] => v.owner[i] = None /\ ~v.slot[i]
          /\ ~ObjectSettled(s, i) /\ t.object[i] = "none" => v.object[i] = "none"
          /\ ~HouseSettled(s, i) /\ i \notin t.house => i \notin v.house
      BY <1>2
    <3>. HIDE DEF v, ss
    <3>3. CASE r.item = i
      <4>. HIDE DEF vv
      <4>1. /\ vv.owner[i] = IF r.action = "item_added" THEN r.player
                             ELSE IF r.action \in {"item_removed", "item_dropped"} THEN None
                             ELSE v.owner[i]
            /\ v.object[i] = "none" /\ r.action # "item_dropped" => vv.object[i] = "none"
            /\ i \in vv.house <=> \/ r.action = "house_item_stored"
                                  \/ i \in v.house /\ r.action # "house_item_retrieved"
            /\ v.owner[i] = None /\ ~v.slot[i] => ~vv.slot[i]
        BY <2>1, <3>3, SameItem DEF vv
      <4>. QED
        BY <3>1, <3>2, <3>3, <4>1
    <3>4. CASE r.item # i
      BY <2>1, <3>1, <3>2, <3>4, OtherItems
    <3>. QED
      BY <3>3, <3>4
  <2>. QED
    BY <2>1, <2>3
<1>3. Seq(Receipts) \subseteq P
  <2>. HIDE DEF P
  <2>. QED BY <1>1, <1>2, SequenceInduction
<1>4. Rest(l)
  BY <1>3
<1>. QED
  BY <1>4 DEF Blank

LEMMA NoTablesBlank ==
    /\ NoTables \in Tables /\ SlotsOwned(NoTables)
    /\ \A l : Blank(NoTables, l)
BY DEF NoTables, Tables, ObjectStatus, SlotsOwned, Blank

(* A log has one result, whatever tables with nothing of their own it is     *)
(* replayed over: this is why a boot may replay it over the rows.            *)
LEMMA ReplayOverBlank ==
    ASSUME NEW t \in Tables, NEW l \in Seq(Receipts), Blank(t, l)
    PROVE  Replay(t, l) = Replay(NoTables, l)
<1>. DEFINE u == Replay(t, l)
            v == Replay(NoTables, l)
<1>1. u \in Tables /\ v \in Tables
  BY ReplayTables, NoTablesBlank
<1>2. Blank(u, l) /\ Blank(v, l)
  BY BlankReplay, NoTablesBlank
<1>3. SettledEqual(u, v, l)
  BY SettledByReplay, NoTablesBlank
<1>. HIDE DEF u, v
<1>4. ASSUME NEW i \in Items
      PROVE  /\ u.owner[i] = v.owner[i] /\ u.slot[i] = v.slot[i]
             /\ u.object[i] = v.object[i] /\ (i \in u.house <=> i \in v.house)
  <2>1. u.slot[i] \in BOOLEAN /\ v.slot[i] \in BOOLEAN
    BY <1>1 DEF Tables
  <2>2. CASE RowSettled(l, i)
    BY <2>2, <1>2, <1>3 DEF Blank, SettledEqual
  <2>3. CASE ~RowSettled(l, i)
    BY <2>1, <2>3, <1>2, <1>3 DEF Blank, SettledEqual
  <2>. QED
    BY <2>2, <2>3
<1>5. u.owner = v.owner /\ u.slot = v.slot /\ u.object = v.object /\ u.house = v.house
  BY <1>1, <1>4 DEF Tables
<1>6. u = v
  BY <1>1, <1>5 DEF Tables
<1>. QED
  BY <1>6 DEF u, v

-----------------------------------------------------------------------------
(* One receipt, and then the rest *)

LEMMA ReplayOne ==
    ASSUME NEW t \in Tables, NEW r \in Receipts
    PROVE  Replay(t, <<r>>) = Materialize(t, r) /\ <<r>> \in Seq(Receipts)
<1>1. Append(<<>>, r) = <<r>> /\ <<>> \in Seq(Receipts)
  BY EmptySeq
<1>2. Replay(t, Append(<<>>, r)) = Materialize(t, r)
  BY <1>1, ReplayAppend, ReplayEmpty
<1>3. Append(<<>>, r) \in Seq(Receipts)
  BY <1>1, AppendProperties
<1>. QED
  BY <1>1, <1>2, <1>3

LEMMA ReplayFirst ==
    ASSUME NEW t \in Tables, NEW r \in Receipts, NEW s \in Seq(Receipts)
    PROVE  Replay(t, <<r>> \o s) = Replay(Materialize(t, r), s)
<1>1. <<r>> \in Seq(Receipts) /\ Replay(t, <<r>>) = Materialize(t, r)
  BY ReplayOne
<1>2. Replay(t, <<r>> \o s) = Replay(Replay(t, <<r>>), s)
  BY <1>1, ReplayConcat
<1>. QED
  BY <1>1, <1>2

-----------------------------------------------------------------------------
(* What agreement between tables and memory gives *)

LEMMA SlotsAfterReplay ==
    ASSUME NEW t \in Tables, SlotsOwned(t)
    PROVE  \A l \in Seq(Receipts) : SlotsOwned(Replay(t, l))
<1>. DEFINE P == {l \in Seq(Receipts) : SlotsOwned(Replay(t, l))}
<1>1. <<>> \in P
  BY EmptySeq, ReplayEmpty
<1>2. ASSUME NEW l \in Seq(Receipts), NEW r \in Receipts, l \in P
      PROVE  Append(l, r) \in P
  <2>1. Append(l, r) \in Seq(Receipts) /\ Replay(t, l) \in Tables
    BY AppendProperties, ReplayTables
  <2>. QED
    BY <1>2, <2>1, ReplayAppend, SlotsStayOwned
<1>3. Seq(Receipts) \subseteq P
  <2>. HIDE DEF P
  <2>. QED BY <1>1, <1>2, SequenceInduction
<1>. QED
  BY <1>3

LEMMA AgreeOneHolder ==
    ASSUME NEW t, NEW m, NEW l, NEW u, NEW x, Agree(t, m, l, u, x)
    PROVE  \A i \in Items : OneHolder(m, i)
<1>1. SUFFICES ASSUME NEW i \in Items PROVE OneHolder(m, i)
  OBVIOUS
<1>2. ItemAgrees(t, m, l, u, x, i)
  BY DEF Agree
<1>3. CASE m.owners[i] # {}
  <2>1. i \notin m.world /\ i \notin m.house /\ m.owners[i] = {t.owner[i]}
    BY <1>2, <1>3 DEF ItemAgrees, InTables, OnePlace
  <2>. QED
    BY <2>1 DEF OneHolder, Places
<1>4. CASE m.owners[i] = {}
  <2>1. ~(i \in m.world /\ i \in m.house)
    BY <1>2, <1>4 DEF ItemAgrees, InTables, OnePlace
  <2>. QED
    BY <1>4, <2>1 DEF OneHolder, Places
<1>. QED
  BY <1>3, <1>4

LEMMA AgreeShields ==
    ASSUME NEW t, NEW m \in Memory, NEW l, NEW u, NEW x, Agree(t, m, l, u, x)
    PROVE  \A p \in Players : m.shield[p] \in u \cup {None} \/ p \in m.owners[m.shield[p]]
<1>1. SUFFICES ASSUME NEW p \in Players, m.shield[p] \notin u \cup {None}
      PROVE  p \in m.owners[m.shield[p]]
  OBVIOUS
<1>2. PICK i \in Items : m.shield[p] = i
  BY <1>1 DEF Memory
<1>3. t.owner[i] = p
  BY <1>2 DEF Agree, ShieldsAgree
<1>4. m.owners[i] = {t.owner[i]} \ {None}
  BY <1>1, <1>2 DEF Agree, ItemAgrees
<1>. QED
  BY <1>2, <1>3, <1>4

LEMMA AgreeBetween ==
    ASSUME NEW t, NEW m, NEW l, NEW u, NEW x, NEW rest, Agree(t, m, l, u, x)
    PROVE  Between(t, m, l, rest, x)
<1>1. SUFFICES ASSUME NEW i \in Items PROVE ItemBetween(t, m, l, rest, x, i)
  BY DEF Between
<1>2. ItemAgrees(t, m, l, u, x, i)
  BY DEF Agree
<1>. QED
  BY <1>2 DEF ItemAgrees, ItemBetween, InTables

(* What a boot loads agrees with the tables it loads from. *)
LEMMA LoadedAgrees ==
    ASSUME NEW t \in Tables, NEW l, NEW x, SlotsOwned(t), Between(t, NoMemory, l, <<>>, x)
    PROVE  Loaded(t) \in Memory /\ Agree(t, Loaded(t), l, {}, x)
<1>. DEFINE m == Loaded(t)
<1>0. /\ t.owner \in [Items -> Players \cup {None}] /\ t.slot \in [Items -> BOOLEAN]
      /\ t.object \in [Items -> ObjectStatus] /\ t.house \in SUBSET Items
  BY DEF Tables
<1>. DEFINE kept(p) == IF \E i \in Items : t.owner[i] = p /\ t.slot[i]
                       THEN CHOOSE i \in Items : t.owner[i] = p /\ t.slot[i] ELSE None
<1>1. /\ m.owners = [i \in Items |-> {t.owner[i]} \ {None}]
      /\ m.world = {i \in Items : t.object[i] = "active"}
      /\ m.house = t.house
      /\ m.shield = [p \in Players |-> kept(p)]
  BY DEF Loaded
<1>2. ASSUME NEW p \in Players, NEW i \in Items
      PROVE  kept(p) = i <=> t.owner[i] = p /\ t.slot[i]
  <2>1. CASE \E j \in Items : t.owner[j] = p /\ t.slot[j]
    <3>1. PICK k \in Items : k = kept(p) /\ t.owner[k] = p /\ t.slot[k]
      BY <2>1
    <3>2. t.owner[i] = p /\ t.slot[i] => i = k
      BY <3>1 DEF SlotsOwned
    <3>. HIDE DEF kept
    <3>. QED
      BY <3>1, <3>2
  <2>2. CASE ~\E j \in Items : t.owner[j] = p /\ t.slot[j]
    BY <2>2
  <2>. QED
    BY <2>1, <2>2
<1>3. \A p \in Players : kept(p) \in Items \cup {None}
  OBVIOUS
<1>4. m \in Memory
  <2>1. /\ [i \in Items |-> {t.owner[i]} \ {None}] \in [Items -> SUBSET Players]
        /\ [p \in Players |-> kept(p)] \in [Players -> Items \cup {None}]
    <3>. HIDE DEF kept
    <3>. QED BY <1>0, <1>3
  <2>. QED
    BY <1>0, <2>1 DEF Memory, Loaded
<1>. HIDE DEF kept, m
<1>5. ShieldsAgree(t, m)
  BY <1>1, <1>2 DEF ShieldsAgree
<1>6. ASSUME NEW i \in Items PROVE ItemAgrees(t, m, l, {}, x, i)
  <2>1. ItemBetween(t, NoMemory, l, <<>>, x, i)
    BY DEF Between
  <2>2. i \notin NoMemory.world /\ i \notin Torn(l, <<>>)
    BY DEF NoMemory, Torn
  <2>3. InTables(t, i) => Named(l, i)
    BY <2>1 DEF ItemBetween, Handed, InLog, Named
  <2>. QED
    BY <1>1, <2>1, <2>2, <2>3 DEF ItemAgrees, ItemBetween, InTables
<1>. QED
  BY <1>4, <1>5, <1>6 DEF Agree, m

(* The last three receipts of a purchase. *)
LEMMA ShopSuffix ==
    ASSUME NEW p \in Players, NEW i \in Items, NEW s \in Seq(Receipts),
           IsSuffix(ShopReceipts(p, i), s)
    PROVE  /\ Len(s) >= 3
           /\ s[Len(s)] = Receipt("item_added", p, i)
           /\ s[Len(s) - 1] = Receipt("item_minted", p, i)
           /\ s[Len(s) - 2] = Receipt("wallet_debit", p, i)
<1>. DEFINE a == ShopReceipts(p, i)
            b == Reverse(a)
            c == Reverse(s)
<1>1. PICK n \in Nat : n = Len(s) /\ DOMAIN s = 1..n
  BY LenProperties
<1>2. /\ Len(a) = 3 /\ a[1] = Receipt("wallet_debit", p, i)
      /\ a[2] = Receipt("item_minted", p, i) /\ a[3] = Receipt("item_added", p, i)
  BY DEF ShopReceipts
<1>3. b = [k \in 1..3 |-> a[(3 - k) + 1]] /\ c = [k \in 1..n |-> s[(n - k) + 1]]
  <2>. HIDE DEF a
  <2>. QED BY <1>1, <1>2 DEF Reverse
<1>. HIDE DEF a
<1>4. Len(b) = 3 /\ Len(c) = n
  BY <1>1, <1>3
<1>5. n >= 3 /\ SubSeq(b, 1, 3) = SubSeq(c, 1, 3)
  <2>1. Len(b) <= Len(c) /\ SubSeq(b, 1, Len(b)) = SubSeq(c, 1, Len(b))
    BY DEF IsSuffix, IsPrefix, a
  <2>. HIDE DEF b, c
  <2>. QED
    BY <2>1, <1>1, <1>4
<1>6. \A k \in 1..3 : SubSeq(b, 1, 3)[k] = b[k] /\ SubSeq(c, 1, 3)[k] = c[k]
  <2>. HIDE DEF b, c
  <2>. QED BY <1>4, <1>5
<1>7. \A k \in 1..3 : a[(3 - k) + 1] = s[(n - k) + 1]
  <2>1. \A k \in 1..3 : b[k] = c[k]
    <3>. HIDE DEF b, c
    <3>. QED BY <1>5, <1>6
  <2>. QED
    BY <2>1, <1>3, <1>5
<1>8. a[3] = s[n] /\ a[2] = s[n - 1] /\ a[1] = s[n - 2]
  <2>1. /\ 1 \in 1..3 /\ (3 - 1) + 1 = 3 /\ (n - 1) + 1 = n
        /\ 2 \in 1..3 /\ (3 - 2) + 1 = 2 /\ (n - 2) + 1 = n - 1
        /\ 3 \in 1..3 /\ (3 - 3) + 1 = 1 /\ (n - 3) + 1 = n - 2
    BY <1>1
  <2>. QED
    BY <1>7, <2>1
<1>. QED
  BY <1>1, <1>2, <1>5, <1>8

-----------------------------------------------------------------------------
(* The steps of the process *)

LEMMA Initially == Init => CustodyInvariant
<1>. SUFFICES ASSUME Init PROVE CustodyInvariant
  OBVIOUS
<1>. USE DEF Init
<1>0. <<>> \in Seq(Receipts) /\ Len(<<>>) = 0 /\ <<>> \o <<>> = <<>>
  BY EmptySeq, ConcatEmptySeq
<1>1. NoMemory \in Memory /\ NoTables \in Tables
  BY NoTablesBlank DEF NoMemory, Memory
<1>2. Types /\ Quiet /\ MissedRows
  BY <1>0, <1>1 DEF Types, Quiet, MissedRows
<1>3. Replay(NoTables, <<>>) = NoTables
  BY ReplayEmpty, NoTablesBlank
<1>4. TablesFromLog
  BY <1>3, NoTablesBlank DEF TablesFromLog, Canon, SameRows
<1>5. Agree(NoTables, NoMemory, <<>>, {}, {})
  <2>1. ASSUME NEW i \in Items PROVE ItemAgrees(NoTables, NoMemory, <<>>, {}, {}, i)
    <3>1. ~InTables(NoTables, i) /\ OnePlace(NoTables, i) /\ NoTables.owner[i] = None
          /\ NoTables.object[i] # "active" /\ i \notin NoTables.house
      BY DEF NoTables, InTables, OnePlace
    <3>2. NoMemory.owners[i] = {} /\ i \notin NoMemory.world /\ i \notin NoMemory.house
      BY DEF NoMemory
    <3>. QED
      BY <3>1, <3>2, InEmptyLog DEF ItemAgrees
  <2>2. ShieldsAgree(NoTables, NoMemory)
    BY DEF ShieldsAgree, NoTables, NoMemory
  <2>. QED
    BY <2>1, <2>2 DEF Agree
<1>6. HandlerEnds /\ HandlerRuns
  <2>0. Away = {}
    BY DEF Away
  <2>1. HandlerEnds
    BY <2>0, <1>0, <1>3, <1>5 DEF HandlerEnds
  <2>2. Between(NoTables, NoMemory, <<>>, <<>>, {})
    BY <1>5, AgreeBetween
  <2>3. Written(0) = <<>> /\ Unwritten(0) = <<>>
    BY DEF Written, Unwritten
  <2>4. \A n \in 0..Len(todo) : n = 0
    BY <1>0
  <2>. QED
    BY <1>0, <1>3, <2>0, <2>1, <2>2, <2>3, <2>4 DEF HandlerRuns
<1>7. MemoryHeld
  <2>1. \A i \in Items : OneHolder(mem, i) /\ OnePlace(db, i)
    BY DEF OneHolder, Places, OnePlace, NoMemory, NoTables
  <2>. QED
    BY <2>1 DEF MemoryHeld, NoMemory
<1>8. BootFinds /\ ShopStopped
  BY DEF BootFinds, ShopStopped, ShopRunning
<1>. QED
  BY <1>2, <1>4, <1>6, <1>7, <1>8 DEF CustodyInvariant

(* Between handlers, and wherever the process stops, the running handler has *)
(* written nothing yet in Written(0).                                        *)
LEMMA AtThisPoint ==
    ASSUME CustodyInvariant, up
    PROVE  /\ db \in Tables
           /\ Between(db, mem, log, todo, Away)
           /\ todo = <<>> => Agree(db, mem, log, used, Away)
<1>. USE DEF CustodyInvariant, Types
<1>1. db \in Tables
  OBVIOUS
<1>2. Written(0) = <<>> /\ Unwritten(0) = todo /\ 0 \in 0..Len(todo)
  <2>1. PICK n \in Nat : n = Len(todo)
    BY LenProperties
  <2>2. SubSeq(todo, 1, 0) = <<>>
    BY SubSeqEmpty
  <2>3. SubSeq(todo, 1, Len(todo)) = todo
    BY SubSeqFull
  <2>. QED
    BY <2>1, <2>2, <2>3 DEF Written, Unwritten
<1>3. Replay(db, <<>>) = db /\ log \o <<>> = log
  BY ReplayEmpty, ConcatEmptySeq
<1>4. (IF 0 = Len(todo) THEN after ELSE mem) = mem
  BY EmptySeq DEF Quiet
<1>5. Between(db, mem, log, todo, Away)
  BY <1>2, <1>3, <1>4 DEF HandlerRuns
<1>6. todo = <<>> => Agree(db, mem, log, used, Away)
  BY <1>3 DEF HandlerEnds, Quiet
<1>. QED
  BY <1>1, <1>5, <1>6

(* One more receipt, about another item, leaves a missed item missed. *)
LEMMA MissedStays ==
    ASSUME CustodyInvariant, NEW r \in Receipts, NEW i \in missed, r.item # i
    PROVE  LET c == Materialize(Canon, r) IN
           /\ Handed(Append(log, r), i)
           /\ c.owner[i] \in Players /\ ~c.slot[i] /\ c.object[i] # "active" /\ i \notin c.house
<1>1. log \in Seq(Receipts) /\ i \in Items /\ Canon \in Tables
  BY ReplayTables, NoTablesBlank DEF CustodyInvariant, Types, Canon
<1>2. /\ Handed(log, i) /\ Canon.owner[i] \in Players /\ ~Canon.slot[i]
      /\ Canon.object[i] # "active" /\ i \notin Canon.house
  BY DEF CustodyInvariant, MissedRows
<1>3. Handed(Append(log, r), i)
  BY <1>1, <1>2, InLongerLog DEF Handed
<1>. QED
  BY <1>1, <1>2, <1>3, OtherItems, NoSlotFromOthers

(* While a purchase runs, what it has yet to write is about its item, and its *)
(* last receipt is the one that hands the item over.                          *)
LEMMA ShopReceiptsLeft ==
    ASSUME CustodyInvariant, up, ShopRunning
    PROVE  LET r == Head(todo)
               d == Tail(todo) IN
           /\ r.action \in {"wallet_debit", "item_minted", "item_added"} /\ r.item \in Items
           /\ r.action = "item_added" => d = <<>> /\ r.player \in Players
           /\ r.action # "item_added" => r.item \in Torn(Append(log, r), d)
           /\ d # <<>> => r.action # "item_added" /\ Head(d).item = r.item
           /\ Torn(log, todo) \subseteq {r.item}
<1>. DEFINE r == Head(todo)
            d == Tail(todo)
<1>0. todo # <<>>
  BY DEF ShopRunning
<1>1. log \in Seq(Receipts) /\ todo \in Seq(Receipts)
  BY DEF CustodyInvariant, Types
<1>2. PICK m \in Nat : m = Len(todo) /\ m > 0 /\ m <= 3
  BY <1>0, <1>1, EmptySeq, LenProperties DEF CustodyInvariant, ShopStopped
<1>3. r \in Receipts /\ d \in Seq(Receipts) /\ Len(d) = m - 1 /\ r = todo[1]
  BY <1>0, <1>1, <1>2, FirstAndRest
<1>4. PICK p \in Players, i \in Items : IsSuffix(ShopReceipts(p, i), log \o todo)
  BY DEF ShopRunning
<1>5. /\ m = 1 => todo[1] = Receipt("item_added", p, i)
      /\ m = 2 => todo[1] = Receipt("item_minted", p, i) /\ todo[2] = Receipt("item_added", p, i)
      /\ m = 3 => todo[1] = Receipt("wallet_debit", p, i) /\ todo[2] = Receipt("item_minted", p, i)
  <2>. DEFINE s == log \o todo
  <2>1. PICK k \in Nat : k = Len(log)
    BY <1>1, LenProperties
  <2>2. s \in Seq(Receipts) /\ Len(s) = k + m /\ \A j \in 1..k + m : s[j] = IF j <= k THEN log[j] ELSE todo[j - k]
    BY <1>1, <1>2, <2>1, ConcatProperties
  <2>3. /\ s[k + m] = Receipt("item_added", p, i)
        /\ s[k + m - 1] = Receipt("item_minted", p, i)
        /\ s[k + m - 2] = Receipt("wallet_debit", p, i)
    <3>1. IsSuffix(ShopReceipts(p, i), s)
      BY <1>4
    <3>. HIDE DEF s
    <3>2. /\ s[Len(s)] = Receipt("item_added", p, i)
          /\ s[Len(s) - 1] = Receipt("item_minted", p, i)
          /\ s[Len(s) - 2] = Receipt("wallet_debit", p, i)
      BY <3>1, <2>2, ShopSuffix
    <3>. QED
      BY <3>2, <2>2
  <2>. HIDE DEF s
  <2>4. CASE m = 1
    <3>1. s[k + 1] = todo[1] /\ k + m = k + 1
      BY <2>1, <2>2, <2>4
    <3>. QED
      BY <2>3, <2>4, <3>1
  <2>5. CASE m = 2
    <3>1. s[k + 2] = todo[2] /\ s[k + 1] = todo[1]
      BY <2>1, <2>2, <2>5
    <3>2. k + m = k + 2 /\ k + m - 1 = k + 1
      BY <2>1, <2>5
    <3>. QED
      BY <2>3, <2>5, <3>1, <3>2
  <2>6. CASE m = 3
    <3>1. s[k + 2] = todo[2] /\ s[k + 1] = todo[1]
      BY <2>1, <2>2, <2>6
    <3>2. k + m - 1 = k + 2 /\ k + m - 2 = k + 1
      BY <2>1, <2>6
    <3>. QED
      BY <2>3, <2>6, <3>1, <3>2
  <2>. QED
    BY <1>2, <2>4, <2>5, <2>6
<1>6. m > 1 => d # <<>> /\ Head(d) = todo[2]
  <2>1. SUFFICES ASSUME m > 1 PROVE d # <<>> /\ Head(d) = todo[2]
    OBVIOUS
  <2>2. 1 \in 1..Len(d) /\ Head(d) = d[1] /\ Tail(todo)[1] = todo[2]
    BY <1>0, <1>1, <1>2, <1>3, <2>1, HeadTailProperties DEF d
  <2>3. d # <<>>
    BY <2>2, EmptySeq
  <2>. QED
    BY <2>2, <2>3
<1>7. m = 1 => d = <<>>
  <2>. HIDE DEF d
  <2>. QED BY <1>3, EmptySeq
<1>8. Torn(log, todo) \subseteq {r.item}
  BY DEF Torn
<1>. HIDE DEF r, d
<1>9. CASE m = 1
  BY <1>3, <1>5, <1>7, <1>8, <1>9 DEF Receipt, r, d
<1>10. CASE m = 2
  <2>1. /\ r.action = "item_minted" /\ r.item = i
        /\ d # <<>> /\ Head(d).action = "item_added" /\ Head(d).item = i
    BY <1>3, <1>5, <1>6, <1>10 DEF Receipt
  <2>2. i \in Torn(Append(log, r), d)
    BY <2>1 DEF Torn
  <2>. QED
    BY <1>8, <2>1, <2>2 DEF r, d
<1>11. CASE m = 3
  <2>1. /\ r.action = "wallet_debit" /\ r.item = i
        /\ d # <<>> /\ Head(d).action = "item_minted" /\ Head(d).item = i
    BY <1>3, <1>5, <1>6, <1>11 DEF Receipt
  <2>2. InLog(Append(log, r), i, {"wallet_debit"})
    BY <1>1, <1>3, <2>1, InLongerLog
  <2>3. i \in Torn(Append(log, r), d)
    BY <2>1, <2>2 DEF Torn
  <2>. QED
    BY <1>8, <2>1, <2>3 DEF r, d
<1>. QED
  BY <1>2, <1>9, <1>10, <1>11

(* Until it hands the item over, the receipts a purchase writes change       *)
(* neither tables nor memory; x has the item, which is promised.             *)
LEMMA PromiseAgrees ==
    ASSUME NEW t, NEW m, NEW l \in Seq(Receipts), NEW u, NEW x, NEW y,
           NEW r \in Receipts, Agree(t, m, l, u, x),
           x \subseteq y \cup {r.item}, r.item \in y,
           r.action \in {"wallet_debit", "item_minted", "item_added"},
           r.action = "item_added" => ~Handed(l, r.item) /\ r.item \notin m.world
    PROVE  Agree(t, m, Append(l, r), u, y)
<1>1. ASSUME NEW j \in Items PROVE ItemAgrees(t, m, Append(l, r), u, y, j)
  <2>1. ItemAgrees(t, m, l, u, x, j)
    BY DEF Agree
  <2>2. /\ Handed(Append(l, r), j) <=> Handed(l, j) \/ (r.item = j /\ r.action = "item_added")
        /\ Decayed(Append(l, r), j) <=> Decayed(l, j)
        /\ Named(Append(l, r), j) <=> Named(l, j) \/ r.item = j
    BY InLongerLog DEF Handed, Decayed
  <2>3. CASE r.item = j
    BY <2>1, <2>2, <2>3 DEF ItemAgrees, InTables
  <2>4. CASE r.item # j
    BY <2>1, <2>2, <2>4 DEF ItemAgrees
  <2>. QED
    BY <2>3, <2>4
<1>. QED
  BY <1>1 DEF Agree

(* One receipt is written: the tables and the log are one further on. *)
LEMMA WriteStep ==
    ASSUME CustodyInvariant, WriteReceipt
    PROVE  CustodyInvariant'
<1>. DEFINE r == Head(todo)
            d == Tail(todo)
<1>0. /\ todo # <<>> /\ up /\ up' = TRUE
      /\ log' = Append(log, r) /\ db' = Materialize(db, r) /\ todo' = d
      /\ mem' = IF d = <<>> THEN after ELSE mem
      /\ after' = after /\ crashes' = crashes /\ used' = used /\ lost' = lost
      /\ missed' = missed /\ Away' = Away
  BY DEF WriteReceipt, CustodyInvariant, Types, Away
<1>1. /\ mem \in Memory /\ after \in Memory /\ db \in Tables
      /\ log \in Seq(Receipts) /\ todo \in Seq(Receipts)
      /\ crashes \in 0..MaxCrashes /\ used \subseteq Items /\ lost \subseteq Items
      /\ missed \subseteq Items
  BY DEF CustodyInvariant, Types
<1>2. PICK m \in Nat : m = Len(todo) /\ m > 0
  BY <1>0, <1>1, EmptySeq, LenProperties
<1>3. r \in Receipts /\ d \in Seq(Receipts) /\ Len(d) = m - 1 /\ todo = <<r>> \o d
  BY <1>0, <1>1, <1>2, FirstAndRest
<1>4. log' \in Seq(Receipts) /\ db' \in Tables
  BY <1>0, <1>1, <1>3, AppendProperties, MaterializeTables
<1>. HIDE DEF r, d
<1>5. d = <<>> <=> m = 1
  <2>1. Len(d) = 0 <=> m = 1
    BY <1>2, <1>3
  <2>. QED
    BY <1>3, <2>1, EmptySeq
<1>6. Types'
  BY <1>0, <1>1, <1>3, <1>4 DEF Types
<1>7. Quiet'
  BY <1>0 DEF Quiet
<1>8. TablesFromLog'
  <2>1. Blank(db, log) /\ SlotsOwned(db) /\ \A i \in Items \ missed : SameRows(db, Canon, i)
    BY <1>0 DEF CustodyInvariant, TablesFromLog
  <2>2. Blank(db', log') /\ SlotsOwned(db')
    BY <1>0, <1>1, <1>3, <2>1, BlankStep, SlotsStayOwned
  <2>3. Canon' = Materialize(Canon, r) /\ Canon \in Tables
    BY <1>0, <1>1, <1>3, ReplayAppend, ReplayTables, NoTablesBlank DEF Canon
  <2>4. ASSUME NEW i \in Items \ missed PROVE SameRows(db', Canon', i)
    BY <1>0, <1>1, <1>3, <2>1, <2>3, SameRowsStep
  <2>. QED
    BY <1>0, <2>2, <2>4 DEF TablesFromLog
<1>16. MissedRows'
  <2>1. /\ r.item \notin missed
        /\ \A n \in DOMAIN d : d[n].item \notin missed
    <3>1. DOMAIN todo = 1..m /\ DOMAIN d = 1..m - 1 /\ r = todo[1]
      BY <1>0, <1>1, <1>2, <1>3, LenProperties, FirstAndRest DEF r
    <3>2. \A n \in 1..m - 1 : d[n] = todo[n + 1] /\ n + 1 \in 1..m
      BY <1>0, <1>1, <1>2, <1>3, HeadTailProperties DEF d
    <3>3. \A n \in 1..m : todo[n].item \notin missed
      BY <3>1 DEF CustodyInvariant, MissedRows
    <3>. QED
      BY <1>2, <3>1, <3>2, <3>3
  <2>2. Canon' = Materialize(Canon, r)
    BY <1>0, <1>1, <1>3, ReplayAppend, NoTablesBlank DEF Canon
  <2>3. ASSUME NEW i \in missed
        PROVE  /\ Handed(log', i) /\ ~InTables(db', i)
               /\ Canon'.owner[i] \in Players /\ ~Canon'.slot[i]
               /\ Canon'.object[i] # "active" /\ i \notin Canon'.house
    <3>1. ~InTables(db, i) /\ i \in Items /\ r.item # i
      BY <1>1, <2>1 DEF CustodyInvariant, MissedRows
    <3>2. ~InTables(db', i)
      BY <1>0, <1>1, <1>3, <3>1, OtherItems DEF InTables
    <3>. QED
      BY <1>0, <1>3, <2>2, <3>1, <3>2, MissedStays
  <2>. QED
    BY <1>0, <2>1, <2>3 DEF MissedRows
<1>9. \A s \in Seq(Receipts) : /\ Replay(db', s) = Replay(db, <<r>> \o s)
                               /\ log' \o s = log \o (<<r>> \o s)
  <2>1. SUFFICES ASSUME NEW s \in Seq(Receipts)
        PROVE  /\ Replay(Materialize(db, r), s) = Replay(db, <<r>> \o s)
               /\ Append(log, r) \o s = log \o (<<r>> \o s)
    BY <1>0
  <2>2. Replay(Materialize(db, r), s) = Replay(db, <<r>> \o s)
    BY <1>1, <1>3, ReplayFirst
  <2>3. Append(log, r) \o s = log \o (<<r>> \o s)
    BY <1>1, <1>3, AppendThenRest
  <2>. QED
    BY <2>2, <2>3
<1>10. HandlerEnds'
  <2>1. Agree(Replay(db, todo), after, log \o todo, used, Away)
    BY <1>0 DEF CustodyInvariant, HandlerEnds
  <2>. QED
    BY <2>1, <1>0, <1>3, <1>9 DEF HandlerEnds
<1>11. HandlerRuns'
  <2>1. SUFFICES ASSUME NEW n \in 0..m - 1
        PROVE  Between(Replay(db', SubSeq(d, 1, n)), IF n = m - 1 THEN after ELSE mem',
                       log' \o SubSeq(d, 1, n), SubSeq(d, n + 1, m - 1), Away)
    BY <1>0, <1>3 DEF HandlerRuns, Written, Unwritten
  <2>2. n + 1 \in 0..m /\ (n + 1 = m <=> n = m - 1)
    BY <1>2
  <2>3. Between(Replay(db, SubSeq(todo, 1, n + 1)), IF n + 1 = m THEN after ELSE mem,
                log \o SubSeq(todo, 1, n + 1), SubSeq(todo, (n + 1) + 1, m), Away)
    BY <1>0, <1>2, <2>2 DEF CustodyInvariant, HandlerRuns, Written, Unwritten
  <2>4. /\ SubSeq(todo, 1, n + 1) = <<r>> \o SubSeq(d, 1, n)
        /\ SubSeq(todo, (n + 1) + 1, m) = SubSeq(d, n + 1, m - 1)
        /\ SubSeq(d, 1, n) \in Seq(Receipts)
    <3>1. n \in 0..Len(todo) - 1 /\ (n + 1) + 1 = n + 2
      BY <1>2
    <3>. QED
      BY <3>1, <1>0, <1>1, <1>2, OneFurther DEF r, d
  <2>5. (IF n = m - 1 THEN after ELSE mem') = (IF n + 1 = m THEN after ELSE mem)
    BY <1>0, <1>2, <1>5, <2>2
  <2>. QED
    BY <2>3, <2>4, <2>5, <1>9
<1>12. d = <<>> => Agree(db', after, log', used, Away)
  <2>1. SUFFICES ASSUME d = <<>> PROVE Agree(db', after, log', used, Away)
    OBVIOUS
  <2>2. Replay(db', <<>>) = db' /\ log' \o <<>> = log'
    BY <1>4, ReplayEmpty, ConcatEmptySeq
  <2>. QED
    BY <2>1, <2>2, <1>0, <1>10 DEF HandlerEnds
<1>13. MemoryHeld'
  <2>1. \A i \in Items : OnePlace(db', i)
    <3>1. 0 \in 0..Len(todo')
      BY <1>0, <1>2, <1>3
    <3>2. Written(0)' = <<>> /\ Replay(db', <<>>) = db'
      BY <1>4, ReplayEmpty, SubSeqEmpty DEF Written
    <3>. QED
      BY <1>0, <1>11, <3>1, <3>2 DEF HandlerRuns, Between, ItemBetween
  <2>2. CASE d = <<>>
    <3>1. mem' = after /\ Agree(db', after, log', used, Away)
      BY <1>0, <1>12, <2>2
    <3>2. \A i \in Items : OneHolder(after, i)
      BY <3>1, AgreeOneHolder
    <3>3. \A p \in Players : after.shield[p] \in used \cup {None}
                             \/ p \in after.owners[after.shield[p]]
      BY <3>1, <1>1, AgreeShields
    <3>4. \A i \in Items : OneHolder(mem', i)
      BY <3>1, <3>2
    <3>. QED
      BY <3>1, <3>3, <3>4, <1>0, <2>1 DEF MemoryHeld, OneHolder, Places
  <2>3. CASE d # <<>>
    BY <1>0, <2>1, <2>3 DEF CustodyInvariant, MemoryHeld, OneHolder, Places
  <2>. QED
    BY <2>2, <2>3
<1>14. BootFinds'
  BY <1>0 DEF BootFinds
<1>15. ShopStopped'
  <2>1. SUFFICES ASSUME ShopRunning'
        PROVE  /\ Len(d) <= 3 /\ Agree(db', mem', log', used, Away \cup Torn(log', d))
               /\ ~Handed(log', Head(d).item) /\ Head(d).item \notin mem'.world
    BY <1>0 DEF ShopStopped
  <2>2. ShopRunning
    <3>1. log' \o todo' = log \o todo
      BY <1>0, <1>3, <1>9
    <3>. QED
      BY <1>0, <2>1, <3>1 DEF ShopRunning
  <2>3. /\ m <= 3 /\ Agree(db, mem, log, used, Away \cup Torn(log, todo))
        /\ ~Handed(log, r.item) /\ r.item \notin mem.world
    BY <1>0, <1>2, <2>2 DEF CustodyInvariant, ShopStopped, r
  <2>4. mem' = mem /\ d # <<>>
    BY <1>0, <2>1 DEF ShopRunning
  <2>5. /\ r.action \in {"wallet_debit", "item_minted"} /\ Head(d).item = r.item
        /\ r.item \in Torn(log', d) /\ Torn(log, todo) \subseteq {r.item}
    BY <1>0, <2>2, <2>4, ShopReceiptsLeft DEF r, d
  <2>6. db' = db
    BY <1>0, <2>5 DEF Materialize
  <2>7. Agree(db, mem, log', used, Away \cup Torn(log', d))
    <3>. DEFINE x == Away \cup Torn(log, todo)
                y == Away \cup Torn(log', d)
    <3>1. x \subseteq y \cup {r.item} /\ r.item \in y /\ Agree(db, mem, log, used, x)
      BY <2>3, <2>5
    <3>. HIDE DEF x, y
    <3>2. Agree(db, mem, Append(log, r), used, y)
      BY <1>1, <1>3, <2>5, <3>1, PromiseAgrees
    <3>. QED
      BY <1>0, <3>2 DEF y
  <2>8. ~Handed(log', r.item)
    BY <1>0, <1>1, <1>3, <2>3, <2>5, InLongerLog DEF Handed
  <2>9. Len(d) <= 3
    BY <1>2, <1>3, <2>3
  <2>. QED
    BY <2>3, <2>4, <2>5, <2>6, <2>7, <2>8, <2>9
<1>. QED
  BY <1>6, <1>7, <1>8, <1>10, <1>11, <1>13, <1>14, <1>15, <1>16 DEF CustodyInvariant

(* What a step that ends the process leaves in memory. *)
LEMMA DownFacts ==
    ASSUME CustodyInvariant, Down
    PROVE  /\ up /\ ~up' /\ todo' = <<>> /\ db' = db
           /\ mem' = NoMemory /\ after' = NoMemory /\ used' = {} /\ missed' = {}
           /\ NoMemory \in Memory /\ crashes' \in 0..MaxCrashes /\ up' \in BOOLEAN
           /\ MissedRows' /\ Quiet' /\ MemoryHeld' /\ HandlerEnds' /\ HandlerRuns' /\ ShopStopped'
<1>1. /\ up /\ up' = FALSE /\ todo' = <<>> /\ db' = db
      /\ mem' = NoMemory /\ after' = NoMemory /\ used' = {} /\ missed' = {}
      /\ crashes' = crashes + 1 /\ crashes < MaxCrashes
  BY DEF Down
<1>2. NoMemory \in Memory
  BY DEF NoMemory, Memory
<1>3. crashes' \in 0..MaxCrashes
  BY <1>1 DEF CustodyInvariant, Types
<1>4. Quiet' /\ MissedRows'
  BY <1>1 DEF Quiet, MissedRows
<1>5. MemoryHeld'
  <2>1. \A i \in Items : OneHolder(NoMemory, i) /\ OnePlace(db, i)
    BY DEF CustodyInvariant, MemoryHeld, OneHolder, Places, NoMemory
  <2>2. \A p \in Players : NoMemory.shield[p] = None
    BY DEF NoMemory
  <2>. QED
    BY <1>1, <2>1, <2>2 DEF MemoryHeld, OneHolder, Places
<1>6. HandlerEnds' /\ HandlerRuns' /\ ShopStopped'
  BY <1>1 DEF HandlerEnds, HandlerRuns, ShopStopped
<1>. QED
  BY <1>1, <1>2, <1>3, <1>4, <1>5, <1>6

LEMMA CrashStep ==
    ASSUME CustodyInvariant, Crash
    PROVE  CustodyInvariant'
<1>0. Down /\ log' = log /\ lost' = lost \cup Torn(log, todo) \cup Loose(log, mem)
  BY DEF Crash
<1>1. /\ up /\ ~up' /\ todo' = <<>> /\ db' = db /\ mem' = NoMemory /\ after' = NoMemory
      /\ used' = {} /\ missed' = {}
      /\ NoMemory \in Memory /\ crashes' \in 0..MaxCrashes /\ up' \in BOOLEAN
      /\ MissedRows' /\ Quiet' /\ MemoryHeld' /\ HandlerEnds' /\ HandlerRuns' /\ ShopStopped'
  BY <1>0, DownFacts
<1>2. /\ mem \in Memory /\ db \in Tables /\ log \in Seq(Receipts) /\ todo \in Seq(Receipts)
      /\ lost \subseteq Items /\ missed \subseteq Items
  BY DEF CustodyInvariant, Types
<1>3. Torn(log, todo) \subseteq Items /\ Loose(log, mem) \subseteq Items
  <2>1. todo # <<>> => Head(todo).item \in Items
    BY <1>2, FirstAndRest DEF Receipts
  <2>. QED
    BY <1>2, <2>1 DEF Torn, Loose, Memory
<1>4. Types'
  BY <1>0, <1>1, <1>2, <1>3, EmptySeq DEF Types
<1>5. TablesFromLog'
  BY <1>0, <1>1 DEF CustodyInvariant, TablesFromLog
<1>6. BootFinds'
  <2>1. /\ Between(db, mem, log, todo, Away)
        /\ \A i \in Items \ missed : SameRows(db, Canon, i)
    BY <1>1, AtThisPoint DEF CustodyInvariant, TablesFromLog
  <2>2. ASSUME NEW i \in Items \ missed PROVE ItemBetween(Canon, NoMemory, log, <<>>, lost', i)
    <3>1. ItemBetween(db, mem, log, todo, lost, i)
      BY <2>1 DEF Between, ItemBetween, Away
    <3>2. i \in mem.world /\ ~Handed(log, i) => i \in Loose(log, mem)
      BY DEF Loose, Handed
    <3>3. SameRows(db, Canon, i)
      BY <2>1
    <3>. QED
      BY <1>0, <3>1, <3>2, <3>3 DEF ItemBetween, SameRows, OnePlace, InTables
  <2>3. ASSUME NEW i \in missed PROVE ItemBetween(Canon, NoMemory, log, <<>>, lost', i)
    <3>1. Canon.owner[i] # None
      BY DEF CustodyInvariant, MissedRows
    <3>. QED
      BY <3>1 DEF CustodyInvariant, MissedRows, ItemBetween, OnePlace, InTables
  <2>4. Canon' = Canon
    BY <1>0 DEF Canon
  <2>. QED
    BY <1>0, <2>2, <2>3, <2>4 DEF BootFinds, Between
<1>. QED
  BY <1>1, <1>4, <1>5, <1>6 DEF CustodyInvariant

LEMMA CrashAfterFsyncStep ==
    ASSUME CustodyInvariant, CrashAfterFsync
    PROVE  CustodyInvariant'
<1>. DEFINE r == Head(todo)
            d == Tail(todo)
<1>0. /\ todo # <<>> /\ Down /\ log' = Append(log, r)
      /\ lost' = lost \cup Torn(log', d) \cup Loose(log', mem) \cup Loose(log', after)
  BY DEF CrashAfterFsync
<1>1. /\ up /\ ~up' /\ todo' = <<>> /\ db' = db /\ mem' = NoMemory /\ after' = NoMemory
      /\ used' = {} /\ missed' = {}
      /\ NoMemory \in Memory /\ crashes' \in 0..MaxCrashes /\ up' \in BOOLEAN
      /\ MissedRows' /\ Quiet' /\ MemoryHeld' /\ HandlerEnds' /\ HandlerRuns' /\ ShopStopped'
  BY <1>0, DownFacts
<1>2. /\ mem \in Memory /\ after \in Memory /\ db \in Tables
      /\ log \in Seq(Receipts) /\ todo \in Seq(Receipts) /\ lost \subseteq Items
      /\ missed \subseteq Items
  BY DEF CustodyInvariant, Types
<1>3. PICK m \in Nat : m = Len(todo) /\ m > 0
  BY <1>0, <1>2, EmptySeq, LenProperties
<1>4. r \in Receipts /\ d \in Seq(Receipts) /\ Len(d) = m - 1
  BY <1>0, <1>2, <1>3, FirstAndRest
<1>. HIDE DEF r, d
<1>5. log' \in Seq(Receipts)
  BY <1>0, <1>2, <1>4, AppendProperties
<1>6. Torn(log', d) \subseteq Items /\ Loose(log', mem) \subseteq Items /\ Loose(log', after) \subseteq Items
  <2>1. d # <<>> => Head(d).item \in Items
    BY <1>4, FirstAndRest DEF Receipts
  <2>. QED
    BY <1>2, <2>1 DEF Torn, Loose, Memory
<1>7. Types'
  BY <1>0, <1>1, <1>2, <1>5, <1>6, EmptySeq DEF Types
<1>8. /\ Blank(db, log) /\ SlotsOwned(db) /\ Canon \in Tables
      /\ \A i \in Items \ missed : SameRows(db, Canon, i)
  BY <1>1, <1>2, ReplayTables, NoTablesBlank DEF CustodyInvariant, TablesFromLog, Canon
<1>9. TablesFromLog'
  BY <1>0, <1>1, <1>2, <1>4, <1>8, BlankStep DEF TablesFromLog
<1>10. BootFinds'
  <2>. DEFINE t == Materialize(db, r)
              w == IF 1 = m THEN after ELSE mem
  <2>1. Between(t, w, log', d, Away)
    <3>1. 1 \in 0..m
      BY <1>3
    <3>2. Between(Replay(db, SubSeq(todo, 1, 1)), w, log \o SubSeq(todo, 1, 1), SubSeq(todo, 1 + 1, m), Away)
      BY <1>1, <1>3, <3>1 DEF CustodyInvariant, HandlerRuns, Written, Unwritten
    <3>3. SubSeq(todo, 1, 1) = <<r>>
      <4>1. 0 \in 0..Len(todo) - 1 /\ 0 + 1 = 1
        BY <1>3
      <4>2. SubSeq(todo, 1, 1) = <<Head(todo)>> \o SubSeq(Tail(todo), 1, 0)
        BY <4>1, <1>0, <1>2, OneFurther
      <4>3. SubSeq(Tail(todo), 1, 0) = <<>> /\ <<r>> \in Seq(Receipts)
        BY <1>4, SubSeqEmpty
      <4>. QED
        BY <4>2, <4>3, ConcatEmptySeq DEF r
    <3>4. SubSeq(todo, 1 + 1, m) = d
      BY <1>0, <1>2, <1>3, TailIsSubSeq DEF d
    <3>5. Replay(db, <<r>>) = t /\ log \o <<r>> = log'
      BY <1>0, <1>2, <1>4, ReplayOne, AppendIsConcat
    <3>. QED
      BY <3>2, <3>3, <3>4, <3>5
  <2>. DEFINE c == Materialize(Canon, r)
  <2>2. Canon' = c
    BY <1>0, <1>2, <1>4, ReplayAppend, NoTablesBlank DEF Canon
  <2>3. ASSUME NEW i \in Items \ missed PROVE ItemBetween(c, NoMemory, log', <<>>, lost', i)
    <3>1. ItemBetween(t, w, log', d, lost, i)
      <4>. HIDE DEF t, w
      <4>. QED BY <2>1 DEF Between, ItemBetween, Away
    <3>2. i \in w.world /\ ~Handed(log', i) => i \in Loose(log', mem) \cup Loose(log', after)
      BY DEF Loose, Handed
    <3>3. SameRows(t, c, i)
      BY <1>2, <1>4, <1>8, SameRowsStep
    <3>. HIDE DEF t, w, c
    <3>. QED
      BY <1>0, <3>1, <3>2, <3>3 DEF ItemBetween, SameRows, OnePlace, InTables
  <2>4. ASSUME NEW i \in missed PROVE ItemBetween(c, NoMemory, log', <<>>, lost', i)
    <3>1. r.item # i
      <4>1. 1 \in DOMAIN todo /\ r = todo[1]
        BY <1>0, <1>2, <1>3, FirstAndRest, LenProperties DEF r
      <4>. QED
        BY <4>1 DEF CustodyInvariant, MissedRows
    <3>2. /\ Handed(log', i) /\ c.owner[i] # None
          /\ c.object[i] # "active" /\ i \notin c.house
      BY <1>0, <1>4, <3>1, MissedStays
    <3>. HIDE DEF c
    <3>. QED
      BY <3>2 DEF ItemBetween, OnePlace, InTables
  <2>. HIDE DEF c
  <2>. QED
    BY <1>1, <2>2, <2>3, <2>4 DEF BootFinds, Between
<1>. QED
  BY <1>1, <1>7, <1>9, <1>10 DEF CustodyInvariant

(* With no handler running, agreement is all there is to show. *)
LEMMA AtRest ==
    ASSUME up', todo' = <<>>, db' \in Tables, log' \in Seq(Receipts),
           after' = mem', Agree(db', mem', log', used', Away'),
           mem' \in Memory, \A i \in Items : OnePlace(db', i)
    PROVE  Quiet' /\ MemoryHeld' /\ HandlerEnds' /\ HandlerRuns' /\ BootFinds' /\ ShopStopped'
<1>1. Replay(db', <<>>) = db' /\ log' \o <<>> = log' /\ Len(<<>>) = 0
  BY ReplayEmpty, ConcatEmptySeq, EmptySeq
<1>2. HandlerEnds'
  BY <1>1 DEF HandlerEnds
<1>3. HandlerRuns'
  <2>1. Between(db', mem', log', <<>>, Away')
    BY AgreeBetween
  <2>2. Written(0)' = <<>> /\ Unwritten(0)' = <<>>
    BY SubSeqEmpty, <1>1 DEF Written, Unwritten
  <2>3. \A n \in 0..Len(todo') : n = 0
    BY <1>1
  <2>. QED
    BY <1>1, <2>1, <2>2, <2>3 DEF HandlerRuns
<1>4. MemoryHeld'
  <2>1. \A i \in Items : OneHolder(mem', i)
    BY AgreeOneHolder
  <2>2. \A p \in Players : mem'.shield[p] \in used' \cup {None} \/ p \in mem'.owners[mem'.shield[p]]
    BY AgreeShields
  <2>. QED
    BY <2>1, <2>2 DEF MemoryHeld, OneHolder, Places
<1>. QED
  BY <1>2, <1>3, <1>4 DEF Quiet, BootFinds, ShopStopped, ShopRunning

(* A caught error: the receipt is nowhere, or in the log and in no table. *)
LEMMA RouteStep ==
    ASSUME CustodyInvariant, RouteCatches
    PROVE  CustodyInvariant'
<1>. DEFINE r == Head(todo)
            d == Tail(todo)
<1>0. /\ up /\ todo # <<>> /\ crashes < MaxCrashes
      /\ ShopRunning /\ crashes' = crashes + 1
      /\ todo' = <<>> /\ after' = mem
      /\ mem' = mem /\ db' = db /\ up' = up /\ used' = used
  BY DEF RouteCatches, ShopRunning
<1>1. /\ mem \in Memory /\ db \in Tables /\ log \in Seq(Receipts) /\ todo \in Seq(Receipts)
      /\ lost \subseteq Items /\ used \subseteq Items /\ missed \subseteq Items
      /\ crashes \in 0..MaxCrashes /\ up \in BOOLEAN
  BY DEF CustodyInvariant, Types
<1>2. /\ Agree(db, mem, log, used, Away \cup Torn(log, todo)) /\ \A i \in Items : OnePlace(db, i)
      /\ ~Handed(log, r.item) /\ r.item \notin mem.world
  BY <1>0 DEF CustodyInvariant, ShopStopped, MemoryHeld
<1>3. r \in Receipts /\ r.item \in Items /\ d \in Seq(Receipts)
  BY <1>0, <1>1, FirstAndRest DEF Receipts
<1>4. /\ r.action \in {"wallet_debit", "item_minted", "item_added"}
      /\ r.action = "item_added" => d = <<>> /\ r.player \in Players
      /\ r.action # "item_added" => r.item \in Torn(Append(log, r), d)
      /\ Torn(log, todo) \subseteq {r.item}
  BY <1>0, ShopReceiptsLeft
<1>5. ~\E n \in DOMAIN <<>> : TRUE
  OBVIOUS
<1>6. CASE lost' = lost \cup Torn(log, todo) /\ log' = log /\ missed' = missed
  <2>1. Types'
    <3>1. lost' \subseteq Items
      BY <1>1, <1>3, <1>4, <1>6
    <3>. QED
      BY <1>0, <1>1, <1>6, <3>1, EmptySeq DEF Types
  <2>2. Canon' = Canon
    BY <1>6 DEF Canon
  <2>3. TablesFromLog'
    BY <1>0, <1>6, <2>2 DEF CustodyInvariant, TablesFromLog
  <2>4. MissedRows'
    BY <1>0, <1>5, <1>6, <2>2 DEF CustodyInvariant, MissedRows
  <2>5. Away' = Away \cup Torn(log, todo)
    BY <1>6 DEF Away
  <2>6. Quiet' /\ MemoryHeld' /\ HandlerEnds' /\ HandlerRuns' /\ BootFinds' /\ ShopStopped'
    BY <1>0, <1>1, <1>2, <1>6, <2>5, AtRest
  <2>. QED
    BY <2>1, <2>3, <2>4, <2>6 DEF CustodyInvariant
<1>7. CASE /\ log' = Append(log, r)
           /\ lost' = lost \cup Torn(log', d)
           /\ missed' = missed \cup Missed(r)
  <2>0. r.item \notin missed
    <3>1. 1 \in DOMAIN todo /\ r = todo[1]
      BY <1>0, <1>1, FirstAndRest, LenProperties, EmptySeq
    <3>. QED
      BY <3>1 DEF CustodyInvariant, MissedRows
  <2>. HIDE DEF r, d
  <2>1. Missed(r) = IF r.action = "item_added" THEN {r.item} ELSE {}
    BY DEF Missed
  <2>2. Torn(log', d) \subseteq Items
    <3>1. d # <<>> => Head(d).item \in Items
      BY <1>3, FirstAndRest DEF Receipts
    <3>. QED
      BY <3>1 DEF Torn
  <2>3. log' \in Seq(Receipts)
    BY <1>1, <1>3, <1>7, AppendProperties
  <2>4. Types'
    BY <1>0, <1>1, <1>3, <1>7, <2>1, <2>2, <2>3, EmptySeq DEF Types
  <2>5. /\ Blank(db, log) /\ SlotsOwned(db) /\ Canon \in Tables
        /\ \A i \in Items \ missed : SameRows(db, Canon, i)
    BY <1>0, <1>1, ReplayTables, NoTablesBlank DEF CustodyInvariant, TablesFromLog, Canon
  <2>6. Canon' = Materialize(Canon, r)
    BY <1>1, <1>3, <1>7, ReplayAppend, NoTablesBlank DEF Canon
  <2>7. TablesFromLog'
    <3>1. Blank(db, log')
      BY <1>1, <1>3, <1>7, <2>5, BlankStep
    <3>2. ASSUME NEW i \in Items \ missed' PROVE SameRows(db, Canon', i)
      <4>1. SameRows(db, Canon, i)
        BY <1>7, <2>5
      <4>2. CASE r.action = "item_added"
        <5>1. r.item # i
          BY <1>7, <2>1, <4>2
        <5>2. /\ Canon'.owner[i] = Canon.owner[i] /\ Canon'.slot[i] = Canon.slot[i]
              /\ Canon'.object[i] = Canon.object[i]
              /\ i \in Canon'.house <=> i \in Canon.house
          BY <1>3, <2>5, <2>6, <4>2, <5>1, OtherItems, SlotsOfOthers
        <5>. QED
          BY <4>1, <5>2 DEF SameRows
      <4>3. CASE r.action # "item_added"
        BY <1>4, <2>6, <4>1, <4>3 DEF Materialize
      <4>. QED
        BY <4>2, <4>3
    <3>. QED
      BY <1>0, <2>5, <3>1, <3>2 DEF TablesFromLog
  <2>8. ASSUME NEW i \in missed'
        PROVE  /\ Handed(log', i) /\ ~InTables(db, i)
               /\ Canon'.owner[i] \in Players /\ ~Canon'.slot[i]
               /\ Canon'.object[i] # "active" /\ i \notin Canon'.house
    <3>1. CASE i \in missed
      <4>1. ~InTables(db, i) /\ r.item # i
        BY <2>0, <3>1 DEF CustodyInvariant, MissedRows
      <4>. QED
        BY <1>3, <1>7, <2>6, <3>1, <4>1, MissedStays
    <3>2. CASE i \notin missed
      <4>1. r.action = "item_added" /\ r.item = i /\ r.player \in Players /\ i \in Items
        BY <1>3, <1>4, <1>7, <2>1, <3>2
      <4>2. Handed(log', i)
        BY <1>1, <1>3, <1>7, <4>1, InLongerLog DEF Handed
      <4>3. ~InTables(db, i)
        BY <1>2, <4>1 DEF Agree, ItemAgrees, r
      <4>4. i \notin Canon.house
        BY <2>5, <3>2, <4>1, <4>3 DEF SameRows, InTables
      <4>. QED
        BY <1>3, <2>5, <2>6, <4>1, <4>2, <4>3, <4>4, SameItem
    <3>. QED
      BY <3>1, <3>2
  <2>9. MissedRows'
    BY <1>0, <1>5, <2>8 DEF MissedRows
  <2>10. Agree(db, mem, log', used, Away')
    <3>. DEFINE x == Away \cup Torn(log, todo)
    <3>1. Away' = Away \cup Torn(log', d) \cup Missed(r)
      BY <1>7 DEF Away
    <3>2. x \subseteq Away' \cup {r.item} /\ r.item \in Away'
      BY <1>4, <1>7, <2>1, <3>1
    <3>3. Agree(db, mem, log, used, x)
      BY <1>2
    <3>. HIDE DEF x
    <3>4. ~Handed(log, r.item) /\ r.item \notin mem.world
      BY <1>2
    <3>5. Agree(db, mem, Append(log, r), used, Away')
      BY <1>1, <1>3, <1>4, <3>2, <3>3, <3>4, PromiseAgrees
    <3>. QED
      BY <1>7, <3>5
  <2>11. Quiet' /\ MemoryHeld' /\ HandlerEnds' /\ HandlerRuns' /\ BootFinds' /\ ShopStopped'
    BY <1>0, <1>1, <1>2, <2>3, <2>10, AtRest
  <2>. QED
    BY <2>4, <2>7, <2>9, <2>11 DEF CustodyInvariant
<1>. QED
  BY <1>6, <1>7 DEF RouteCatches

LEMMA BootStep ==
    ASSUME CustodyInvariant, Boot
    PROVE  CustodyInvariant'
<1>0. /\ ~up /\ up' = TRUE
      /\ db' = Replay(db, log) /\ mem' = Loaded(Replay(db, log)) /\ after' = mem'
      /\ log' = log /\ todo' = todo /\ crashes' = crashes /\ used' = used /\ lost' = lost
      /\ missed' = missed
  BY DEF Boot, Rematerialized, Replay
<1>1. /\ db \in Tables /\ log \in Seq(Receipts) /\ lost \subseteq Items /\ crashes \in 0..MaxCrashes
      /\ todo = <<>> /\ used = {} /\ missed = {}
  BY <1>0 DEF CustodyInvariant, Types, Quiet
<1>2. Blank(db, log) /\ SlotsOwned(db)
  BY DEF CustodyInvariant, TablesFromLog
<1>3. db' = Canon /\ Canon' = Canon /\ Canon \in Tables
  BY <1>0, <1>1, <1>2, ReplayOverBlank, ReplayTables DEF Canon
<1>4. TablesFromLog'
  <2>1. Blank(db', log') /\ SlotsOwned(db')
    BY <1>0, <1>1, <1>2, BlankReplay, SlotsAfterReplay
  <2>. QED
    BY <1>3, <2>1 DEF TablesFromLog, SameRows
<1>5. Between(Canon, NoMemory, log, <<>>, lost)
  BY <1>0 DEF CustodyInvariant, BootFinds
<1>6. mem' \in Memory /\ Agree(db', mem', log', used', Away')
  <2>1. Away' = lost
    BY <1>0, <1>1 DEF Away
  <2>. QED
    BY <2>1, <1>0, <1>1, <1>3, <1>4, <1>5, LoadedAgrees DEF TablesFromLog
<1>10. MissedRows'
  BY <1>0, <1>1 DEF MissedRows
<1>7. \A i \in Items : OnePlace(db', i)
  BY <1>3, <1>5 DEF Between, ItemBetween
<1>8. Types'
  BY <1>0, <1>1, <1>3, <1>6, EmptySeq DEF Types
<1>9. Quiet' /\ MemoryHeld' /\ HandlerEnds' /\ HandlerRuns' /\ BootFinds' /\ ShopStopped'
  BY <1>0, <1>1, <1>3, <1>6, <1>7, AtRest
<1>. QED
  BY <1>4, <1>8, <1>9, <1>10 DEF CustodyInvariant

-----------------------------------------------------------------------------
(* The handlers *)

(* What a handler has to show: that its receipts bring the tables to the     *)
(* memory it ends with, and that no item is in two places or out of sight    *)
(* after any number of them.                                                 *)
LEMMA HandlerStarts ==
    ASSUME CustodyInvariant, NEW rs \in Seq(Receipts), rs # <<>>, NEW m \in Memory,
           Handle(rs, m), used \subseteq used', used' \subseteq Items,
           Agree(Replay(db, rs), m, log \o rs, used', Away),
           \A n \in 1..Len(rs) - 1 :
               Between(Replay(db, SubSeq(rs, 1, n)), mem, log \o SubSeq(rs, 1, n),
                       SubSeq(rs, n + 1, Len(rs)), Away),
           \A n \in 1..Len(rs) : rs[n].item \notin missed,
           \/ rs[Len(rs)].action # "item_added"
           \/ /\ used' = used /\ Len(rs) \in {2, 3}
              /\ rs[1].action \in {"wallet_debit", "item_minted"} => ~Named(log, rs[1].item)
    PROVE  CustodyInvariant'
<1>0. /\ up /\ todo = <<>> /\ todo' = rs /\ after' = m
      /\ log' = log /\ mem' = mem /\ db' = db /\ up' = up
      /\ crashes' = crashes /\ lost' = lost /\ missed' = missed /\ Away' = Away
  BY DEF Handle, Idle, Away
<1>1. /\ mem \in Memory /\ db \in Tables /\ log \in Seq(Receipts)
      /\ lost \subseteq Items /\ missed \subseteq Items /\ crashes \in 0..MaxCrashes /\ up \in BOOLEAN
  BY DEF CustodyInvariant, Types
<1>2. PICK k \in Nat : k = Len(rs) /\ k > 0
  BY EmptySeq, LenProperties
<1>3. Agree(db, mem, log, used, Away)
  BY <1>0, AtThisPoint
<1>4. Types' /\ Quiet'
  BY <1>0, <1>1 DEF Types, Quiet, CustodyInvariant
<1>5. TablesFromLog' /\ BootFinds' /\ MissedRows'
  <2>1. Canon' = Canon /\ DOMAIN rs = 1..Len(rs)
    BY <1>0, LenProperties DEF Canon
  <2>. QED
    BY <1>0, <2>1 DEF CustodyInvariant, TablesFromLog, BootFinds, MissedRows
<1>6. MemoryHeld'
  BY <1>0 DEF CustodyInvariant, MemoryHeld, OneHolder, Places
<1>7. HandlerEnds'
  BY <1>0 DEF HandlerEnds
<1>8. HandlerRuns'
  <2>1. SUFFICES ASSUME NEW n \in 0..k
        PROVE  Between(Replay(db, SubSeq(rs, 1, n)), IF n = k THEN m ELSE mem,
                       log \o SubSeq(rs, 1, n), SubSeq(rs, n + 1, k), Away)
    BY <1>0, <1>2 DEF HandlerRuns, Written, Unwritten
  <2>2. CASE n = k
    <3>1. SubSeq(rs, 1, k) = rs
      BY <1>2, SubSeqFull
    <3>2. Between(Replay(db, rs), m, log \o rs, SubSeq(rs, n + 1, k), Away)
      BY AgreeBetween
    <3>. QED
      BY <2>2, <3>1, <3>2
  <2>3. CASE n = 0
    <3>1. SubSeq(rs, 1, 0) = <<>> /\ SubSeq(rs, 0 + 1, k) = rs
      BY <1>2, SubSeqEmpty, SubSeqFull
    <3>2. Replay(db, <<>>) = db /\ log \o <<>> = log
      BY <1>1, ReplayEmpty, ConcatEmptySeq
    <3>3. Between(db, mem, log, rs, Away)
      BY <1>3, AgreeBetween
    <3>4. /\ (IF n = k THEN m ELSE mem) = mem
          /\ SubSeq(rs, 1, n) = <<>> /\ SubSeq(rs, n + 1, k) = rs
      BY <1>2, <2>3, <3>1
    <3>. QED
      BY <3>2, <3>3, <3>4
  <2>4. CASE n # 0 /\ n # k
    <3>1. n \in 1..Len(rs) - 1
      BY <1>2, <2>4
    <3>. QED
      BY <1>2, <2>4, <3>1
  <2>. QED
    BY <2>2, <2>3, <2>4
<1>9. ShopStopped'
  <2>1. SUFFICES ASSUME ShopRunning'
        PROVE  /\ k <= 3 /\ Agree(db, mem, log, used', Away \cup Torn(log, rs))
               /\ ~Handed(log, rs[1].item) /\ rs[1].item \notin mem.world
    <3>1. Head(rs) = rs[1]
      BY FirstAndRest
    <3>. QED
      BY <1>0, <1>2, <3>1 DEF ShopStopped
  <2>2. PICK p \in Players, item \in Items : IsSuffix(ShopReceipts(p, item), log \o rs)
    BY <1>0, <2>1 DEF ShopRunning
  <2>3. /\ rs[k] = Receipt("item_added", p, item)
        /\ k > 1 => rs[k - 1] = Receipt("item_minted", p, item)
        /\ k > 2 => rs[k - 2] = Receipt("wallet_debit", p, item)
    <3>. DEFINE s == log \o rs
    <3>1. PICK n \in Nat : n = Len(log)
      BY <1>1, LenProperties
    <3>2. /\ s \in Seq(Receipts) /\ Len(s) = n + k
          /\ \A j \in 1..n + k : s[j] = IF j <= n THEN log[j] ELSE rs[j - n]
      BY <1>1, <1>2, <3>1, ConcatProperties
    <3>3. IsSuffix(ShopReceipts(p, item), s)
      BY <2>2
    <3>. HIDE DEF s
    <3>4. /\ s[Len(s)] = Receipt("item_added", p, item)
          /\ s[Len(s) - 1] = Receipt("item_minted", p, item)
          /\ s[Len(s) - 2] = Receipt("wallet_debit", p, item)
      BY <3>2, <3>3, ShopSuffix
    <3>5. s[n + k] = rs[k]
      BY <1>2, <3>1, <3>2
    <3>6. k > 1 => s[n + k - 1] = rs[k - 1]
      <4>1. k > 1 => n + k - 1 \in 1..n + k /\ ~(n + k - 1 <= n) /\ n + k - 1 - n = k - 1
        BY <1>2, <3>1
      <4>. QED
        BY <3>2, <4>1
    <3>7. k > 2 => s[n + k - 2] = rs[k - 2]
      <4>1. k > 2 => n + k - 2 \in 1..n + k /\ ~(n + k - 2 <= n) /\ n + k - 2 - n = k - 2
        BY <1>2, <3>1
      <4>. QED
        BY <3>2, <4>1
    <3>. QED
      BY <3>2, <3>4, <3>5, <3>6, <3>7
  <2>4. used' = used /\ (k = 2 \/ k = 3) /\ rs[1].item = item /\ ~Named(log, item)
    <3>1. /\ used' = used /\ (k = 2 \/ k = 3)
          /\ rs[1].action \in {"wallet_debit", "item_minted"} => ~Named(log, rs[1].item)
      BY <1>2, <2>3 DEF Receipt
    <3>2. rs[1].action \in {"wallet_debit", "item_minted"} /\ rs[1].item = item
      <4>1. CASE k = 2
        BY <2>3, <4>1 DEF Receipt
      <4>2. CASE k = 3
        BY <2>3, <4>2 DEF Receipt
      <4>. QED
        BY <3>1, <4>1, <4>2
    <3>. QED
      BY <3>1, <3>2
  <2>6. ~Handed(log, item) /\ item \notin mem.world
    BY <1>3, <2>4 DEF Agree, ItemAgrees, Handed, InLog, Named
  <2>5. ASSUME NEW i \in Items PROVE ItemAgrees(db, mem, log, used, Away \cup Torn(log, rs), i)
    <3>1. ItemAgrees(db, mem, log, used, Away, i)
      BY <1>3 DEF Agree
    <3>. QED
      BY <3>1 DEF ItemAgrees
  <2>7. Agree(db, mem, log, used, Away \cup Torn(log, rs))
    BY <1>3, <2>5 DEF Agree
  <2>. QED
    BY <2>4, <2>6, <2>7
<1>. QED
  BY <1>4, <1>5, <1>6, <1>7, <1>8, <1>9 DEF CustodyInvariant

(* What agreement says of an item that a handler finds somewhere, or nowhere. *)
LEMMA WhereItIs ==
    ASSUME NEW t \in Tables, NEW m \in Memory, NEW l, NEW u, NEW x,
           Agree(t, m, l, u, x), SlotsOwned(t), NEW i \in Items
    PROVE  /\ \A p \in Players : p \in m.owners[i] =>
                  /\ i \notin u /\ t.owner[i] = p /\ Handed(l, i)
                  /\ t.object[i] # "active" /\ i \notin t.house
                  /\ i \notin m.world /\ i \notin m.house
                  /\ m.owners[i] = {p}
           /\ i \in m.world =>
                  /\ i \notin u /\ t.owner[i] = None /\ ~t.slot[i] /\ Named(l, i)
                  /\ i \notin t.house /\ m.owners[i] = {} /\ i \notin m.house
           /\ i \in m.house =>
                  /\ i \notin u /\ t.owner[i] = None /\ ~t.slot[i] /\ Handed(l, i)
                  /\ t.object[i] # "active" /\ i \in t.house
                  /\ m.owners[i] = {} /\ i \notin m.world
           /\ ~Named(l, i) =>
                  /\ i \notin u /\ t.owner[i] = None /\ ~t.slot[i] /\ ~Handed(l, i)
                  /\ t.object[i] # "active" /\ i \notin t.house
                  /\ m.owners[i] = {} /\ i \notin m.world /\ i \notin m.house
<1>1. ItemAgrees(t, m, l, u, x, i)
  BY DEF Agree
<1>2. Handed(l, i) => Named(l, i)
  BY DEF Handed, InLog, Named
<1>3. t.slot[i] => t.owner[i] # None
  BY DEF SlotsOwned
<1>4. \A p \in Players : p # None
  OBVIOUS
<1>. QED
  BY <1>1, <1>2, <1>3, <1>4 DEF ItemAgrees, InTables, OnePlace

(* A log that grows by one or by two receipts. *)
LEMMA GrowsByOne ==
    ASSUME NEW t \in Tables, NEW l \in Seq(Receipts), NEW a \in Receipts
    PROVE  /\ <<a>> \in Seq(Receipts) /\ <<a>> # <<>> /\ Len(<<a>>) = 1
           /\ Replay(t, <<a>>) = Materialize(t, a) /\ l \o <<a>> = Append(l, a)
           /\ \A i \in Items :
                  /\ Handed(Append(l, a), i) <=> Handed(l, i) \/ (a.item = i /\ a.action = "item_added")
                  /\ Named(Append(l, a), i) <=> Named(l, i) \/ a.item = i
                  /\ Decayed(Append(l, a), i) <=> Decayed(l, i) \/ (a.item = i /\ a.action = "world_object_removed")
<1>1. <<a>> \in Seq(Receipts) /\ <<a>> # <<>> /\ Len(<<a>>) = 1
  OBVIOUS
<1>2. Replay(t, <<a>>) = Materialize(t, a) /\ l \o <<a>> = Append(l, a)
  BY ReplayOne, AppendIsConcat
<1>3. \A i \in Items :
          /\ Handed(Append(l, a), i) <=> Handed(l, i) \/ (a.item = i /\ a.action = "item_added")
          /\ Named(Append(l, a), i) <=> Named(l, i) \/ a.item = i
          /\ Decayed(Append(l, a), i) <=> Decayed(l, i) \/ (a.item = i /\ a.action = "world_object_removed")
  BY InLongerLog DEF Handed, Decayed
<1>. QED
  BY <1>1, <1>2, <1>3

LEMMA GrowsByTwo ==
    ASSUME NEW t \in Tables, NEW l \in Seq(Receipts), NEW a \in Receipts, NEW b \in Receipts
    PROVE  /\ <<a, b>> \in Seq(Receipts) /\ <<a, b>> # <<>> /\ Len(<<a, b>>) = 2
           /\ Replay(t, <<a, b>>) = Materialize(Materialize(t, a), b)
           /\ l \o <<a, b>> = Append(Append(l, a), b)
           /\ SubSeq(<<a, b>>, 1, 1) = <<a>> /\ SubSeq(<<a, b>>, 2, 2) = <<b>>
<1>1. /\ <<a, b>> \in Seq(Receipts) /\ <<a, b>> # <<>> /\ Len(<<a, b>>) = 2
      /\ <<a>> \in Seq(Receipts) /\ Append(<<a>>, b) = <<a, b>>
  <2>1. <<a>> \in Seq(Receipts)
    BY OneEntry, Zenon
  <2>2. <<a, b>> \in Seq(Receipts) /\ <<a, b>> # <<>> /\ Len(<<a, b>>) = 2
        /\ <<a, b>> = Append(<<a>>, b)
    BY TwoEntries, Zenon
  <2>. QED
    BY <2>1, <2>2, Zenon
<1>2. Replay(t, Append(<<a>>, b)) = Materialize(Materialize(t, a), b)
  <2>1. Replay(t, Append(<<a>>, b)) = Materialize(Replay(t, <<a>>), b)
    BY <1>1, ReplayAppend
  <2>. QED
    BY <2>1, ReplayOne
<1>3. l \o Append(<<a>>, b) = Append(Append(l, a), b)
  <2>1. <<b>> \in Seq(Receipts) /\ Append(l, a) \in Seq(Receipts)
    BY AppendProperties
  <2>2. Append(Append(l, a), b) = (l \o <<a>>) \o <<b>> /\ Append(<<a>>, b) = <<a>> \o <<b>>
    BY <1>1, <2>1, AppendIsConcat
  <2>. QED
    BY <1>1, <2>1, <2>2, ConcatAssociative
<1>4. SubSeq(<<a, b>>, 1, 1) = <<a>> /\ SubSeq(<<a, b>>, 2, 2) = <<b>>
  BY TwoEntries
<1>. QED
  BY <1>1, <1>2, <1>3, <1>4

(* Two receipts about one item, the first of which puts it nowhere. *)
LEMMA BetweenTwo ==
    ASSUME NEW t \in Tables, NEW m, NEW l \in Seq(Receipts), NEW u, NEW x,
           Agree(t, m, l, u, x),
           NEW a \in Receipts, NEW b \in Receipts, a.item = b.item,
           a.action \in {"item_minted", "item_removed", "item_picked_up", "house_item_retrieved"},
           b.action \in {"item_added", "item_dropped", "house_item_stored"}
    PROVE  Between(Materialize(t, a), m, Append(l, a), <<b>>, x)
<1>. DEFINE v == Materialize(t, a)
            k == Append(l, a)
<1>1. SUFFICES ASSUME NEW i \in Items PROVE ItemBetween(v, m, k, <<b>>, x, i)
  BY DEF Between
<1>2. ItemAgrees(t, m, l, u, x, i)
  BY DEF Agree
<1>3. /\ Handed(k, i) <=> Handed(l, i)
      /\ Named(k, i) <=> Named(l, i) \/ a.item = i
      /\ Decayed(k, i) <=> Decayed(l, i)
  BY GrowsByOne
<1>4. Torn(k, <<b>>) = {a.item}
  BY DEF Torn
<1>. HIDE DEF k
<1>5. CASE a.item = i
  <2>. HIDE DEF v
  <2>1. /\ v.owner[i] = IF a.action = "item_removed" THEN None ELSE t.owner[i]
        /\ v.object[i] = "active" => t.object[i] = "active"
        /\ i \in v.house => i \in t.house
    BY <1>5, SameItem DEF v
  <2>. QED
    BY <1>2, <1>3, <1>4, <1>5, <2>1 DEF ItemAgrees, ItemBetween, InTables, OnePlace
<1>6. CASE a.item # i
  <2>1. v.owner[i] = t.owner[i] /\ v.object[i] = t.object[i] /\ (i \in v.house <=> i \in t.house)
    BY <1>6, OtherItems
  <2>. HIDE DEF v
  <2>. QED
    BY <1>2, <1>3, <1>6, <2>1 DEF ItemAgrees, ItemBetween, InTables, OnePlace
<1>. QED
  BY <1>5, <1>6

(* Agreement about the other items survives a receipt about this one. *)
LEMMA OthersAgree ==
    ASSUME NEW t \in Tables, NEW m, NEW l \in Seq(Receipts), NEW u, NEW x, NEW i \in Items,
           ItemAgrees(t, m, l, u, x, i),
           NEW a \in Receipts, a.item # i,
           NEW n, n.owners[i] = m.owners[i], i \in n.world <=> i \in m.world,
           i \in n.house <=> i \in m.house
    PROVE  ItemAgrees(Materialize(t, a), n, Append(l, a), u, x, i)
<1>1. /\ Handed(Append(l, a), i) <=> Handed(l, i)
      /\ Named(Append(l, a), i) <=> Named(l, i)
      /\ Decayed(Append(l, a), i) <=> Decayed(l, i)
  BY GrowsByOne
<1>2. /\ Materialize(t, a).owner[i] = t.owner[i]
      /\ Materialize(t, a).object[i] = t.object[i]
      /\ i \in Materialize(t, a).house <=> i \in t.house
  BY OtherItems
<1>. QED
  BY <1>1, <1>2 DEF ItemAgrees, InTables, OnePlace

(* What a handler starts from. *)
LEMMA AtTheStart ==
    ASSUME CustodyInvariant, NEW rs, NEW m, Handle(rs, m)
    PROVE  /\ mem \in Memory /\ db \in Tables /\ log \in Seq(Receipts)
           /\ used \subseteq Items /\ SlotsOwned(db)
           /\ Agree(db, mem, log, used, Away)
<1>1. todo = <<>> /\ up
  BY DEF Handle, Idle
<1>2. Agree(db, mem, log, used, Away)
  BY <1>1, AtThisPoint
<1>. QED
  BY <1>2 DEF CustodyInvariant, Types, TablesFromLog

(* An item that a handler finds somewhere, or that no receipt names, is not   *)
(* missed.                                                                   *)
LEMMA NotMissed ==
    ASSUME CustodyInvariant, Idle, NEW i \in Items,
           \/ mem.owners[i] # {} \/ i \in mem.world \/ i \in mem.house
           \/ ~Named(log, i)
    PROVE  i \notin missed
<1>1. Agree(db, mem, log, used, Away)
  BY AtThisPoint DEF Idle
<1>2. ItemAgrees(db, mem, log, used, Away, i)
  BY <1>1 DEF Agree
<1>3. i \in missed => Handed(log, i) /\ ~InTables(db, i)
  BY DEF CustodyInvariant, MissedRows
<1>4. Handed(log, i) => Named(log, i)
  BY DEF Handed, InLog, Named
<1>. QED
  BY <1>2, <1>3, <1>4 DEF ItemAgrees, InTables

(* A handler with one receipt has to show agreement about its own item. *)
LEMMA OneReceipt ==
    ASSUME CustodyInvariant, NEW a \in Receipts, NEW m \in Memory, Handle(<<a>>, m),
           used \subseteq used', used' \subseteq Items, a.action # "item_added",
           a.item \notin missed,
           \A j \in Items \ {a.item} :
               /\ j \in used' <=> j \in used
               /\ m.owners[j] = mem.owners[j]
               /\ j \in m.world <=> j \in mem.world
               /\ j \in m.house <=> j \in mem.house,
           ItemAgrees(Materialize(db, a), m, Append(log, a), used', Away, a.item),
           ShieldsAgree(Materialize(db, a), m)
    PROVE  CustodyInvariant'
<1>1. mem \in Memory /\ db \in Tables /\ log \in Seq(Receipts) /\ Agree(db, mem, log, used, Away)
  BY AtTheStart
<1>. DEFINE t == Materialize(db, a)
            l == Append(log, a)
<1>2. ASSUME NEW j \in Items PROVE ItemAgrees(t, m, l, used', Away, j)
  <2>1. CASE j = a.item
    BY <2>1
  <2>2. CASE j # a.item
    <3>1. ItemAgrees(db, mem, log, used, Away, j)
      BY <1>1 DEF Agree
    <3>2. ItemAgrees(t, m, l, used, Away, j)
      BY <1>1, <2>2, <3>1, OthersAgree
    <3>. HIDE DEF t, l
    <3>. QED
      BY <2>2, <3>2 DEF ItemAgrees
  <2>. QED
    BY <2>1, <2>2
<1>3. Agree(t, m, l, used', Away)
  BY <1>2 DEF Agree
<1>4. /\ <<a>> \in Seq(Receipts) /\ <<a>> # <<>> /\ Len(<<a>>) = 1
      /\ Replay(db, <<a>>) = t /\ log \o <<a>> = l
  BY <1>1, GrowsByOne
<1>5. \A n \in 1..Len(<<a>>) - 1 : FALSE
  BY <1>4
<1>6. /\ <<a>>[Len(<<a>>)].action # "item_added"
      /\ \A n \in 1..Len(<<a>>) : <<a>>[n].item \notin missed
  BY <1>4
<1>. HIDE DEF t, l
<1>. DEFINE rs == <<a>>
<1>7. /\ rs \in Seq(Receipts) /\ rs # <<>> /\ Handle(rs, m)
      /\ Agree(Replay(db, rs), m, log \o rs, used', Away)
      /\ rs[Len(rs)].action # "item_added"
      /\ \A n \in 1..Len(rs) : rs[n].item \notin missed
      /\ \A n \in 1..Len(rs) - 1 : FALSE
  BY <1>3, <1>4, <1>5, <1>6
<1>. HIDE DEF rs
<1>. QED
  BY <1>7, HandlerStarts

(* The same for the handlers with two receipts. *)
LEMMA TwoReceipts ==
    ASSUME CustodyInvariant, NEW a \in Receipts, NEW b \in Receipts, a.item = b.item,
           a.action \in {"item_minted", "item_removed", "item_picked_up", "house_item_retrieved"},
           b.action \in {"item_added", "item_dropped", "house_item_stored"},
           a.item \notin missed, a.action = "item_minted" => ~Named(log, a.item),
           NEW m \in Memory, Handle(<<a, b>>, m), used' = used,
           \A j \in Items \ {a.item} :
               /\ m.owners[j] = mem.owners[j]
               /\ j \in m.world <=> j \in mem.world
               /\ j \in m.house <=> j \in mem.house,
           ItemAgrees(Materialize(Materialize(db, a), b), m, Append(Append(log, a), b), used, Away, a.item),
           ShieldsAgree(Materialize(Materialize(db, a), b), m)
    PROVE  CustodyInvariant'
<1>1. /\ mem \in Memory /\ db \in Tables /\ log \in Seq(Receipts) /\ used \subseteq Items
      /\ Agree(db, mem, log, used, Away)
  BY AtTheStart
<1>. DEFINE s == Materialize(db, a)
            t == Materialize(s, b)
            k == Append(log, a)
            l == Append(k, b)
<1>0. s \in Tables /\ k \in Seq(Receipts)
  BY <1>1, MaterializeTables, AppendProperties
<1>2. ASSUME NEW j \in Items PROVE ItemAgrees(t, m, l, used, Away, j)
  <2>1. CASE j = a.item
    BY <2>1
  <2>2. CASE j # a.item
    <3>1. ItemAgrees(db, mem, log, used, Away, j)
      BY <1>1 DEF Agree
    <3>2. ItemAgrees(s, mem, k, used, Away, j)
      BY <1>1, <2>2, <3>1, OthersAgree
    <3>. HIDE DEF s, k
    <3>. QED
      BY <1>0, <2>2, <3>2, OthersAgree
  <2>. QED
    BY <2>1, <2>2
<1>3. Agree(t, m, l, used', Away)
  BY <1>2 DEF Agree
<1>4. Between(s, mem, k, <<b>>, Away)
  BY <1>1, BetweenTwo
<1>. DEFINE rs == <<a, b>>
<1>5. /\ rs \in Seq(Receipts) /\ rs # <<>> /\ Len(rs) = 2
      /\ Replay(db, rs) = t /\ log \o rs = l
      /\ SubSeq(rs, 1, 1) = <<a>> /\ SubSeq(rs, 2, 2) = <<b>>
  BY <1>1, GrowsByTwo
<1>11. rs[1] = a /\ rs[2] = b
  OBVIOUS
<1>6. Replay(db, <<a>>) = s /\ log \o <<a>> = k
  BY <1>1, GrowsByOne
<1>7. Handle(rs, m)
  OBVIOUS
<1>. HIDE DEF s, t, k, l, rs
<1>8. ASSUME NEW n \in 1..Len(rs) - 1
      PROVE  Between(Replay(db, SubSeq(rs, 1, n)), mem, log \o SubSeq(rs, 1, n),
                     SubSeq(rs, n + 1, Len(rs)), Away)
  <2>1. n = 1 /\ n + 1 = 2 /\ Len(rs) = 2
    BY <1>5
  <2>. QED
    BY <1>4, <1>5, <1>6, <2>1
<1>9. Agree(Replay(db, rs), m, log \o rs, used', Away)
  BY <1>3, <1>5
<1>10. /\ \A n \in 1..Len(rs) : rs[n].item \notin missed
       /\ Len(rs) \in {2, 3} /\ used' = used
       /\ rs[1].action \in {"wallet_debit", "item_minted"} => ~Named(log, rs[1].item)
  <2>1. \A n \in 1..2 : n = 1 \/ n = 2
    OBVIOUS
  <2>. QED
    BY <1>5, <1>11, <2>1
<1>. QED
  BY <1>1, <1>5, <1>7, <1>8, <1>9, <1>10, HandlerStarts

LEMMA ShieldsSame ==
    ASSUME NEW t, NEW v, NEW m, NEW n, ShieldsAgree(t, m),
           v.owner = t.owner, v.slot = t.slot, n.shield = m.shield
    PROVE  ShieldsAgree(v, n)
BY DEF ShieldsAgree

(* An item whose slot is cleared is nobody's protected item. *)
LEMMA ShieldCleared ==
    ASSUME NEW t, NEW v, NEW m \in Memory, NEW n, NEW i \in Items, ShieldsAgree(t, m),
           \A j \in Items \ {i} : v.owner[j] = t.owner[j] /\ v.slot[j] = t.slot[j],
           ~v.slot[i],
           \A p \in Players : n.shield[p] = IF m.shield[p] = i THEN None ELSE m.shield[p]
    PROVE  ShieldsAgree(v, n)
<1>1. SUFFICES ASSUME NEW p \in Players, NEW j \in Items
      PROVE  n.shield[p] = j <=> v.owner[j] = p /\ v.slot[j]
  BY DEF ShieldsAgree
<1>2. m.shield[p] = j <=> t.owner[j] = p /\ t.slot[j]
  BY DEF ShieldsAgree
<1>3. j # None
  OBVIOUS
<1>4. CASE j = i
  BY <1>3, <1>4
<1>5. CASE j # i
  BY <1>2, <1>3, <1>5
<1>. QED
  BY <1>4, <1>5

LEMMA SpawnLootStep ==
    ASSUME CustodyInvariant, NEW p \in Players, NEW i \in Items, SpawnLoot(p, i)
    PROVE  CustodyInvariant'
<1>. DEFINE a == Receipt("item_minted", p, i)
            m == [mem EXCEPT !.world = @ \cup {i}]
<1>1. Handle(<<a>>, m) /\ Fresh(i) /\ used' = used
  BY DEF SpawnLoot
<1>2. /\ mem \in Memory /\ db \in Tables /\ log \in Seq(Receipts)
      /\ used \subseteq Items /\ SlotsOwned(db)
      /\ Agree(db, mem, log, used, Away)
  BY <1>1, AtTheStart
<1>3. ~Named(log, i)
  <2>1. DOMAIN log = 1..Len(log)
    BY <1>2, LenProperties
  <2>. QED
    BY <1>1, <2>1 DEF Fresh, Named
<1>4. /\ i \notin used /\ db.owner[i] = None /\ ~Handed(log, i)
      /\ db.object[i] # "active" /\ i \notin db.house
      /\ mem.owners[i] = {} /\ i \notin mem.world /\ i \notin mem.house
  BY <1>2, <1>3, WhereItIs
<1>5. a \in Receipts /\ a.action = "item_minted" /\ a.item = i
  BY DEF Receipt, Receipts, Actions
<1>6. /\ m \in Memory /\ m.owners = mem.owners /\ m.house = mem.house /\ m.shield = mem.shield
      /\ m.world = mem.world \cup {i}
  BY <1>2 DEF Memory
<1>7. Materialize(db, a) = db
  BY <1>5 DEF Materialize
<1>8. /\ ~Handed(Append(log, a), i) /\ Named(Append(log, a), i)
  BY <1>2, <1>4, <1>5, GrowsByOne
<1>. HIDE DEF a, m
<1>9. ItemAgrees(Materialize(db, a), m, Append(log, a), used, Away, i)
  BY <1>4, <1>6, <1>7, <1>8 DEF ItemAgrees, InTables, OnePlace
<1>10. ShieldsAgree(Materialize(db, a), m)
  BY <1>2, <1>6, <1>7 DEF Agree, ShieldsAgree
<1>11. i \notin missed
  BY <1>1, <1>3, NotMissed DEF Handle
<1>. QED
  BY <1>1, <1>2, <1>5, <1>6, <1>9, <1>10, <1>11, OneReceipt

LEMMA DecayStep ==
    ASSUME CustodyInvariant, NEW i \in Items, Decay(i)
    PROVE  CustodyInvariant'
<1>. DEFINE a == Receipt("world_object_removed", None, i)
            m == [mem EXCEPT !.world = @ \ {i}]
<1>1. Handle(<<a>>, m) /\ i \in mem.world /\ used' = used
  BY DEF Decay
<1>2. /\ mem \in Memory /\ db \in Tables /\ log \in Seq(Receipts)
      /\ used \subseteq Items /\ SlotsOwned(db)
      /\ Agree(db, mem, log, used, Away)
  BY <1>1, AtTheStart
<1>4. /\ i \notin used /\ db.owner[i] = None
      /\ i \notin db.house /\ mem.owners[i] = {} /\ i \notin mem.house
  BY <1>1, <1>2, WhereItIs
<1>5. a \in Receipts /\ a.action = "world_object_removed" /\ a.item = i
  BY DEF Receipt, Receipts, Actions
<1>6. /\ m \in Memory /\ m.owners = mem.owners /\ m.house = mem.house /\ m.shield = mem.shield
      /\ m.world = mem.world \ {i}
  BY <1>2 DEF Memory
<1>7. /\ Materialize(db, a).owner = db.owner /\ Materialize(db, a).slot = db.slot
      /\ Materialize(db, a).house = db.house
      /\ Materialize(db, a).object[i] # "active"
  BY <1>2, <1>5 DEF Materialize, ObjectUpdated, Tables
<1>8. Decayed(Append(log, a), i) /\ Named(Append(log, a), i)
  BY <1>2, <1>5, GrowsByOne
<1>. HIDE DEF a, m
<1>9. ItemAgrees(Materialize(db, a), m, Append(log, a), used, Away, i)
  BY <1>4, <1>6, <1>7, <1>8 DEF ItemAgrees, InTables, OnePlace
<1>10. ShieldsAgree(Materialize(db, a), m)
  BY <1>2, <1>6, <1>7, ShieldsSame DEF Agree
<1>11. i \notin missed
  BY <1>1, NotMissed DEF Handle
<1>. QED
  BY <1>1, <1>2, <1>5, <1>6, <1>9, <1>10, <1>11, OneReceipt

LEMMA ProtectStep ==
    ASSUME CustodyInvariant, NEW p \in Players, NEW i \in Items, Protect(p, i)
    PROVE  CustodyInvariant'
<1>. DEFINE a == Receipt("inventory_slot_changed", p, i)
            m == [mem EXCEPT !.shield[p] = i]
            t == Materialize(db, a)
<1>1. Handle(<<a>>, m) /\ p \in mem.owners[i] /\ used' = used
  BY DEF Protect, Has
<1>2. /\ mem \in Memory /\ db \in Tables /\ log \in Seq(Receipts)
      /\ used \subseteq Items /\ SlotsOwned(db)
      /\ Agree(db, mem, log, used, Away)
  BY <1>1, AtTheStart
<1>4. db.owner[i] = p
  BY <1>1, <1>2, WhereItIs
<1>5. a \in Receipts /\ a.action = "inventory_slot_changed" /\ a.item = i /\ a.player = p
  BY DEF Receipt, Receipts, Actions
<1>6. /\ m \in Memory /\ m.owners = mem.owners /\ m.house = mem.house /\ m.world = mem.world
      /\ \A q \in Players : m.shield[q] = IF q = p THEN i ELSE mem.shield[q]
  BY <1>2 DEF Memory
<1>7. /\ t.owner = db.owner /\ t.object = db.object /\ t.house = db.house
      /\ \A j \in Items : t.slot[j] = IF db.owner[j] = p THEN j = i ELSE db.slot[j]
  BY <1>2, <1>5 DEF Materialize, SlotChanged, Tables
<1>8. /\ Handed(Append(log, a), i) <=> Handed(log, i)
      /\ Decayed(Append(log, a), i) <=> Decayed(log, i)
      /\ Named(Append(log, a), i)
  BY <1>2, <1>5, GrowsByOne
<1>. HIDE DEF a, m, t
<1>9. ItemAgrees(t, m, Append(log, a), used, Away, i)
  <2>1. ItemAgrees(db, mem, log, used, Away, i)
    BY <1>2 DEF Agree
  <2>2. InTables(t, i)
    BY <1>4, <1>7 DEF InTables
  <2>. QED
    BY <1>6, <1>7, <1>8, <2>1, <2>2 DEF ItemAgrees, InTables, OnePlace
<1>10. ShieldsAgree(t, m)
  <2>1. SUFFICES ASSUME NEW q \in Players, NEW j \in Items
        PROVE  m.shield[q] = j <=> t.owner[j] = q /\ t.slot[j]
    BY DEF ShieldsAgree
  <2>2. mem.shield[q] = j <=> db.owner[j] = q /\ db.slot[j]
    BY <1>2 DEF Agree, ShieldsAgree
  <2>3. t.owner[j] = db.owner[j] /\ t.slot[j] = IF db.owner[j] = p THEN j = i ELSE db.slot[j]
    BY <1>7
  <2>4. m.shield[q] = IF q = p THEN i ELSE mem.shield[q]
    BY <1>6
  <2>5. CASE q = p
    BY <1>4, <2>3, <2>4, <2>5, Zenon
  <2>6. CASE q # p
    <3>1. m.shield[q] = j <=> db.owner[j] = q /\ db.slot[j]
      BY <2>2, <2>4, <2>6
    <3>2. CASE db.owner[j] = p
      BY <2>3, <2>6, <3>1, <3>2
    <3>3. CASE db.owner[j] # p
      <4>1. t.slot[j] = db.slot[j] /\ t.owner[j] = db.owner[j]
        BY <2>3, <3>3, Zenon
      <4>. QED
        BY <3>1, <4>1, Zenon
    <3>. QED
      BY <3>2, <3>3
  <2>. QED
    BY <2>5, <2>6
<1>11. i \notin missed
  BY <1>1, NotMissed DEF Handle
<1>. QED
  BY <1>1, <1>2, <1>5, <1>6, <1>9, <1>10, <1>11, OneReceipt DEF t

LEMMA UseItemStep ==
    ASSUME CustodyInvariant, NEW p \in Players, NEW i \in Items, UseItem(p, i)
    PROVE  CustodyInvariant'
<1>. DEFINE a == Receipt("item_used", p, i)
            m == Taken(mem, p, {i})
<1>1. Handle(<<a>>, m) /\ p \in mem.owners[i] /\ used' = used \cup {i}
  BY DEF UseItem, Has
<1>2. /\ mem \in Memory /\ db \in Tables /\ log \in Seq(Receipts)
      /\ used \subseteq Items /\ SlotsOwned(db)
      /\ Agree(db, mem, log, used, Away)
  BY <1>1, AtTheStart
<1>4. /\ db.owner[i] = p /\ mem.owners[i] = {p} /\ Handed(log, i)
      /\ db.object[i] # "active" /\ i \notin db.house
      /\ i \notin mem.world /\ i \notin mem.house
  BY <1>1, <1>2, WhereItIs
<1>5. a \in Receipts /\ a.action = "item_used" /\ a.item = i
  BY DEF Receipt, Receipts, Actions
<1>6. /\ m \in Memory /\ m.house = mem.house /\ m.world = mem.world /\ m.shield = mem.shield
      /\ \A j \in Items : m.owners[j] = IF j = i THEN mem.owners[j] \ {p} ELSE mem.owners[j]
  <2>1. mem.owners \in [Items -> SUBSET Players]
    BY <1>2 DEF Memory
  <2>2. [j \in Items |-> IF j \in {i} THEN mem.owners[j] \ {p} ELSE mem.owners[j]]
            \in [Items -> SUBSET Players]
    BY <2>1
  <2>. QED
    BY <1>2, <2>2 DEF Memory, Taken
<1>7. Materialize(db, a) = db
  BY <1>5 DEF Materialize
<1>8. Handed(Append(log, a), i)
  BY <1>2, <1>4, <1>5, GrowsByOne
<1>. HIDE DEF a, m
<1>9. ItemAgrees(Materialize(db, a), m, Append(log, a), used', Away, i)
  BY <1>1, <1>4, <1>6, <1>7, <1>8 DEF ItemAgrees, InTables, OnePlace
<1>10. ShieldsAgree(Materialize(db, a), m)
  BY <1>2, <1>6, <1>7 DEF Agree, ShieldsAgree
<1>11. /\ used \subseteq used' /\ used' \subseteq Items
       /\ \A j \in Items \ {a.item} :
               /\ j \in used' <=> j \in used
               /\ m.owners[j] = mem.owners[j]
               /\ j \in m.world <=> j \in mem.world
               /\ j \in m.house <=> j \in mem.house
  BY <1>1, <1>2, <1>5, <1>6
<1>12. i \notin missed
  BY <1>1, NotMissed DEF Handle
<1>. QED
  BY <1>1, <1>5, <1>6, <1>9, <1>10, <1>11, <1>12, OneReceipt

(* What Given, Taken and Unshielded do to a memory. *)
LEMMA GivenMemory ==
    ASSUME NEW p \in Players, NEW i \in Items, NEW n \in Memory,
           NEW m, m = Given(n, p, i)
    PROVE  /\ m \in Memory /\ m.world = n.world /\ m.house = n.house /\ m.shield = n.shield
           /\ \A j \in Items : m.owners[j] = IF j = i THEN n.owners[j] \cup {p} ELSE n.owners[j]
<1>1. n.owners \in [Items -> SUBSET Players]
  BY DEF Memory
<1>2. [n.owners EXCEPT ![i] = @ \cup {p}] \in [Items -> SUBSET Players]
  BY <1>1
<1>3. m = [n EXCEPT !.owners = [n.owners EXCEPT ![i] = @ \cup {p}]]
  BY DEF Given, Memory
<1>4. /\ m \in Memory /\ m.world = n.world /\ m.house = n.house /\ m.shield = n.shield
      /\ m.owners = [n.owners EXCEPT ![i] = @ \cup {p}]
  BY <1>2, <1>3 DEF Memory
<1>. QED
  BY <1>1, <1>4

LEMMA TakenMemory ==
    ASSUME NEW p \in Players, NEW I \in SUBSET Items, NEW n \in Memory,
           NEW m, m = Taken(n, p, I)
    PROVE  /\ m \in Memory /\ m.world = n.world /\ m.house = n.house /\ m.shield = n.shield
           /\ \A j \in Items : m.owners[j] = IF j \in I THEN n.owners[j] \ {p} ELSE n.owners[j]
<1>1. n.owners \in [Items -> SUBSET Players]
  BY DEF Memory
<1>2. [j \in Items |-> IF j \in I THEN n.owners[j] \ {p} ELSE n.owners[j]]
            \in [Items -> SUBSET Players]
  BY <1>1
<1>. QED
  BY <1>2 DEF Memory, Taken

LEMMA UnshieldedMemory ==
    ASSUME NEW p \in Players, NEW I \in SUBSET Items, NEW n \in Memory,
           NEW m, m = Unshielded(n, p, I)
    PROVE  /\ m \in Memory /\ m.world = n.world /\ m.house = n.house /\ m.owners = n.owners
           /\ \A q \in Players :
                  m.shield[q] = IF q = p /\ n.shield[p] \in I THEN None ELSE n.shield[q]
BY DEF Unshielded, Memory

(* The receipts that a handler writes about one item. *)
LEMMA ReceiptsOf ==
    ASSUME NEW p \in Players, NEW i \in Items,
           NEW action \in Actions \ {"inventory_slot_changed"}
    PROVE  LET a == Receipt(action, p, i) IN
           a \in Receipts /\ a.action = action /\ a.player = p /\ a.item = i
BY DEF Receipt, Receipts

(* The tables after two receipts about item i. *)
LEMMA OthersKept ==
    ASSUME NEW t \in Tables, NEW a \in Receipts, NEW b \in Receipts, NEW i \in Items,
           a.item = i, b.item = i,
           a.action # "inventory_slot_changed", b.action # "inventory_slot_changed"
    PROVE  \A j \in Items \ {i} :
               LET v == Materialize(Materialize(t, a), b) IN
               v.owner[j] = t.owner[j] /\ v.slot[j] = t.slot[j]
<1>1. SUFFICES ASSUME NEW j \in Items, j # i
      PROVE  LET v == Materialize(Materialize(t, a), b) IN
             v.owner[j] = t.owner[j] /\ v.slot[j] = t.slot[j]
  OBVIOUS
<1>2. Materialize(t, a) \in Tables
  BY MaterializeTables
<1>3. Materialize(t, a).owner[j] = t.owner[j] /\ Materialize(t, a).slot[j] = t.slot[j]
  BY <1>1, OtherItems, SlotsOfOthers
<1>. DEFINE s == Materialize(t, a)
<1>. HIDE DEF s
<1>4. s \in Tables => Materialize(s, b).owner[j] = s.owner[j] /\ Materialize(s, b).slot[j] = s.slot[j]
  BY <1>1, OtherItems, SlotsOfOthers
<1>. QED
  BY <1>2, <1>3, <1>4 DEF s

(* An item that nobody holds goes to a player who gets it by item_added. *)
LEMMA Handover ==
    ASSUME CustodyInvariant, NEW p \in Players, NEW i \in Items, NEW m \in Memory,
           NEW first \in {"item_minted", "item_picked_up", "house_item_retrieved"},
           Handle(<<Receipt(first, p, i), Receipt("item_added", p, i)>>, m), used' = used,
           \A j \in Items \ {i} :
               /\ m.owners[j] = mem.owners[j]
               /\ j \in m.world <=> j \in mem.world
               /\ j \in m.house <=> j \in mem.house,
           m.owners[i] = {p}, i \notin m.world, i \notin m.house, m.shield = mem.shield,
           i \notin used, i \notin missed, db.owner[i] = None,
           first = "item_minted" => ~Named(log, i),
           i \in db.house => first = "house_item_retrieved"
    PROVE  CustodyInvariant'
<1>. DEFINE a == Receipt(first, p, i)
            b == Receipt("item_added", p, i)
            s == Materialize(db, a)
            t == Materialize(s, b)
            k == Append(log, a)
            l == Append(k, b)
<1>1. /\ mem \in Memory /\ db \in Tables /\ log \in Seq(Receipts)
      /\ used \subseteq Items /\ SlotsOwned(db)
      /\ Agree(db, mem, log, used, Away)
  BY AtTheStart
<1>2. a \in Receipts /\ a.action = first /\ a.player = p /\ a.item = i
  BY ReceiptsOf DEF Actions
<1>3. b \in Receipts /\ b.action = "item_added" /\ b.player = p /\ b.item = i
  BY ReceiptsOf DEF Actions
<1>4. Handle(<<a, b>>, m)
  OBVIOUS
<1>. HIDE DEF a, b
<1>5. s \in Tables /\ t \in Tables /\ k \in Seq(Receipts)
  BY <1>1, <1>2, <1>3, MaterializeTables, AppendProperties
<1>6. /\ s.owner[i] = None /\ i \notin s.house
  BY <1>1, <1>2, SameItem
<1>7. /\ t.owner[i] = p /\ t.object[i] # "active" /\ i \notin t.house /\ ~t.slot[i]
  <2>. HIDE DEF s
  <2>. QED
    BY <1>3, <1>5, <1>6, SameItem
<1>8. Handed(l, i)
  <2>. HIDE DEF k
  <2>. QED
    BY <1>3, <1>5, GrowsByOne
<1>9. \A j \in Items \ {i} : t.owner[j] = db.owner[j] /\ t.slot[j] = db.slot[j]
  BY <1>1, <1>2, <1>3, OthersKept
<1>. HIDE DEF s, t, k, l
<1>10. ItemAgrees(t, m, l, used, Away, i)
  BY <1>7, <1>8 DEF ItemAgrees, InTables, OnePlace
<1>11. ShieldsAgree(t, m)
  <2>1. ShieldsAgree(db, mem)
    BY <1>1 DEF Agree
  <2>2. \A q \in Players : mem.shield[q] # i
    BY <2>1 DEF ShieldsAgree
  <2>3. \A q \in Players : m.shield[q] = IF mem.shield[q] = i THEN None ELSE mem.shield[q]
    BY <2>2
  <2>. QED
    BY <1>1, <1>7, <1>9, <2>1, <2>3, ShieldCleared
<1>. QED
  BY <1>2, <1>3, <1>4, <1>10, <1>11, TwoReceipts DEF s, t, k, l

LEMMA MintItemStep ==
    ASSUME CustodyInvariant, NEW p \in Players, NEW i \in Items, MintItem(p, i)
    PROVE  CustodyInvariant'
<1>. DEFINE m == Given(mem, p, i)
<1>1. /\ Handle(<<Receipt("item_minted", p, i), Receipt("item_added", p, i)>>, m)
      /\ Fresh(i) /\ used' = used
  BY DEF MintItem
<1>2. /\ mem \in Memory /\ db \in Tables /\ log \in Seq(Receipts)
      /\ used \subseteq Items /\ SlotsOwned(db)
      /\ Agree(db, mem, log, used, Away)
  BY <1>1, AtTheStart
<1>3. ~Named(log, i)
  <2>1. DOMAIN log = 1..Len(log)
    BY <1>2, LenProperties
  <2>. QED
    BY <1>1, <2>1 DEF Fresh, Named
<1>4. /\ i \notin used /\ db.owner[i] = None /\ i \notin db.house
      /\ mem.owners[i] = {} /\ i \notin mem.world /\ i \notin mem.house
  BY <1>2, <1>3, WhereItIs
<1>5. /\ m \in Memory /\ m.world = mem.world /\ m.house = mem.house /\ m.shield = mem.shield
      /\ \A j \in Items : m.owners[j] = IF j = i THEN mem.owners[j] \cup {p} ELSE mem.owners[j]
  <2>1. m = Given(mem, p, i) /\ mem \in Memory
    BY <1>2
  <2>. HIDE DEF m
  <2>. QED
    BY <2>1, GivenMemory
<1>. HIDE DEF m
<1>6. m.owners[i] = {p}
  BY <1>4, <1>5
<1>7. i \notin missed
  BY <1>1, <1>3, NotMissed DEF Handle
<1>. QED
  BY <1>1, <1>3, <1>4, <1>5, <1>6, <1>7, Handover

LEMMA PickUpStep ==
    ASSUME CustodyInvariant, NEW p \in Players, NEW i \in Items, PickUp(p, i)
    PROVE  CustodyInvariant'
<1>. DEFINE g == Given(mem, p, i)
            m == [g EXCEPT !.world = @ \ {i}]
<1>1. /\ Handle(<<Receipt("item_picked_up", p, i), Receipt("item_added", p, i)>>, m)
      /\ i \in mem.world /\ used' = used
  BY DEF PickUp
<1>2. /\ mem \in Memory /\ db \in Tables /\ log \in Seq(Receipts)
      /\ used \subseteq Items /\ SlotsOwned(db)
      /\ Agree(db, mem, log, used, Away)
  BY <1>1, AtTheStart
<1>4. /\ i \notin used /\ db.owner[i] = None /\ i \notin db.house
      /\ mem.owners[i] = {} /\ i \notin mem.house
  BY <1>1, <1>2, WhereItIs
<1>5. /\ g \in Memory /\ g.world = mem.world /\ g.house = mem.house /\ g.shield = mem.shield
      /\ \A j \in Items : g.owners[j] = IF j = i THEN mem.owners[j] \cup {p} ELSE mem.owners[j]
  <2>1. g = Given(mem, p, i) /\ mem \in Memory
    BY <1>2
  <2>. HIDE DEF g
  <2>. QED
    BY <2>1, GivenMemory
<1>. HIDE DEF g
<1>6. /\ m \in Memory /\ m.world = mem.world \ {i} /\ m.house = mem.house
      /\ m.shield = mem.shield /\ m.owners = g.owners
  BY <1>5 DEF Memory
<1>. HIDE DEF m
<1>7. /\ m.owners[i] = {p} /\ i \notin m.world /\ i \notin m.house
      /\ \A j \in Items \ {i} :
               /\ m.owners[j] = mem.owners[j]
               /\ j \in m.world <=> j \in mem.world
               /\ j \in m.house <=> j \in mem.house
      /\ m \in Memory /\ m.shield = mem.shield
  BY <1>4, <1>5, <1>6
<1>. HIDE DEF g
<1>8. i \notin missed
  BY <1>1, NotMissed DEF Handle
<1>. QED
  BY <1>1, <1>4, <1>7, <1>8, Handover

LEMMA RetrieveStep ==
    ASSUME CustodyInvariant, NEW p \in Players, NEW i \in Items, RetrieveFromHouse(p, i)
    PROVE  CustodyInvariant'
<1>. DEFINE g == Given(mem, p, i)
            m == [g EXCEPT !.house = @ \ {i}]
<1>1. /\ Handle(<<Receipt("house_item_retrieved", p, i), Receipt("item_added", p, i)>>, m)
      /\ i \in mem.house /\ used' = used
  BY DEF RetrieveFromHouse
<1>2. /\ mem \in Memory /\ db \in Tables /\ log \in Seq(Receipts)
      /\ used \subseteq Items /\ SlotsOwned(db)
      /\ Agree(db, mem, log, used, Away)
  BY <1>1, AtTheStart
<1>4. /\ i \notin used /\ db.owner[i] = None
      /\ mem.owners[i] = {} /\ i \notin mem.world
  BY <1>1, <1>2, WhereItIs
<1>5. /\ g \in Memory /\ g.world = mem.world /\ g.house = mem.house /\ g.shield = mem.shield
      /\ \A j \in Items : g.owners[j] = IF j = i THEN mem.owners[j] \cup {p} ELSE mem.owners[j]
  <2>1. g = Given(mem, p, i) /\ mem \in Memory
    BY <1>2
  <2>. HIDE DEF g
  <2>. QED
    BY <2>1, GivenMemory
<1>. HIDE DEF g
<1>6. /\ m \in Memory /\ m.world = mem.world /\ m.house = mem.house \ {i}
      /\ m.shield = mem.shield /\ m.owners = g.owners
  BY <1>5 DEF Memory
<1>. HIDE DEF m
<1>7. /\ m.owners[i] = {p} /\ i \notin m.world /\ i \notin m.house
      /\ \A j \in Items \ {i} :
               /\ m.owners[j] = mem.owners[j]
               /\ j \in m.world <=> j \in mem.world
               /\ j \in m.house <=> j \in mem.house
      /\ m \in Memory /\ m.shield = mem.shield
  BY <1>4, <1>5, <1>6
<1>. HIDE DEF g
<1>8. i \notin missed
  BY <1>1, NotMissed DEF Handle
<1>. QED
  BY <1>1, <1>4, <1>7, <1>8, Handover

(* Two memories that differ in what they say of item i. *)
SameElsewhere(m, n, i) ==
    \A j \in Items \ {i} :
        /\ m.owners[j] = n.owners[j]
        /\ j \in m.world <=> j \in n.world
        /\ j \in m.house <=> j \in n.house

ShieldLost(m, n, i) ==
    \A q \in Players : m.shield[q] = IF n.shield[q] = i THEN None ELSE n.shield[q]

(* A player's item goes to the world or into the house. *)
LEMMA Release ==
    ASSUME CustodyInvariant, NEW p \in Players, NEW i \in Items, NEW m \in Memory,
           NEW last \in {"item_dropped", "house_item_stored"},
           Handle(<<Receipt("item_removed", p, i), Receipt(last, p, i)>>, m), used' = used,
           p \in mem.owners[i],
           SameElsewhere(m, mem, i), ShieldLost(m, mem, i), m.owners[i] = {},
           i \in m.world <=> last = "item_dropped",
           i \in m.house <=> last = "house_item_stored"
    PROVE  CustodyInvariant'
<1>. DEFINE a == Receipt("item_removed", p, i)
            b == Receipt(last, p, i)
            s == Materialize(db, a)
            t == Materialize(s, b)
            k == Append(log, a)
            l == Append(k, b)
<1>1. /\ mem \in Memory /\ db \in Tables /\ log \in Seq(Receipts)
      /\ used \subseteq Items /\ SlotsOwned(db)
      /\ Agree(db, mem, log, used, Away)
  BY AtTheStart
<1>2. a \in Receipts /\ a.action = "item_removed" /\ a.player = p /\ a.item = i
  BY ReceiptsOf DEF Actions
<1>3. b \in Receipts /\ b.action = last /\ b.player = p /\ b.item = i
  BY ReceiptsOf DEF Actions
<1>4. Handle(<<a, b>>, m)
  OBVIOUS
<1>. HIDE DEF a, b
<1>5. s \in Tables /\ t \in Tables /\ k \in Seq(Receipts)
  BY <1>1, <1>2, <1>3, MaterializeTables, AppendProperties
<1>6. /\ i \notin used /\ Handed(log, i) /\ db.object[i] # "active" /\ i \notin db.house
  BY <1>1, WhereItIs
<1>7. /\ s.owner[i] = None /\ s.object[i] = db.object[i] /\ i \notin s.house /\ ~s.slot[i]
  BY <1>1, <1>2, <1>6, SameItem
<1>8. /\ t.owner[i] = None /\ ~t.slot[i]
      /\ t.object[i] = "active" <=> last = "item_dropped"
      /\ i \in t.house <=> last = "house_item_stored"
  <2>. HIDE DEF s
  <2>. QED
    BY <1>3, <1>5, <1>6, <1>7, SameItem
<1>9. Handed(l, i) /\ Named(l, i)
  <2>1. Handed(k, i)
    BY <1>1, <1>2, <1>6, GrowsByOne
  <2>. HIDE DEF k
  <2>. QED
    BY <1>3, <1>5, <2>1, GrowsByOne
<1>10. \A j \in Items \ {i} : t.owner[j] = db.owner[j] /\ t.slot[j] = db.slot[j]
  BY <1>1, <1>2, <1>3, OthersKept
<1>. HIDE DEF s, t, k, l
<1>11. ItemAgrees(t, m, l, used, Away, i)
  BY <1>6, <1>8, <1>9 DEF ItemAgrees, InTables, OnePlace
<1>12. ShieldsAgree(t, m)
  <2>1. ShieldsAgree(db, mem)
    BY <1>1 DEF Agree
  <2>. QED
    BY <1>1, <1>8, <1>10, <2>1, ShieldCleared DEF ShieldLost
<1>13. i \notin missed
  BY NotMissed DEF Handle
<1>. QED
  BY <1>2, <1>3, <1>4, <1>11, <1>12, <1>13, TwoReceipts DEF s, t, k, l, SameElsewhere

LEMMA TakenAndUnshielded ==
    ASSUME CustodyInvariant, Idle, NEW p \in Players, NEW i \in Items, p \in mem.owners[i]
    PROVE  LET m == Unshielded(Taken(mem, p, {i}), p, {i}) IN
           /\ m \in Memory /\ m.world = mem.world /\ m.house = mem.house
           /\ m.owners[i] = {} /\ SameElsewhere(m, mem, i) /\ ShieldLost(m, mem, i)
           /\ i \notin mem.world /\ i \notin mem.house
<1>1. /\ mem \in Memory /\ db \in Tables /\ SlotsOwned(db)
      /\ Agree(db, mem, log, used, Away)
  <2>1. todo = <<>> /\ up
    BY DEF Idle
  <2>2. Agree(db, mem, log, used, Away)
    BY <2>1, AtThisPoint
  <2>. QED
    BY <2>2 DEF CustodyInvariant, Types, TablesFromLog
<1>2. /\ db.owner[i] = p /\ mem.owners[i] = {p} /\ i \notin mem.world /\ i \notin mem.house
  BY <1>1, WhereItIs
<1>. DEFINE I == {i}
            n == Taken(mem, p, I)
            m == Unshielded(n, p, I)
<1>3. I \in SUBSET Items /\ n = Taken(mem, p, I) /\ m = Unshielded(n, p, I)
  OBVIOUS
<1>4. \A j : j \in I <=> j = i
  OBVIOUS
<1>. HIDE DEF I, n, m
<1>5. /\ n \in Memory /\ n.world = mem.world /\ n.house = mem.house /\ n.shield = mem.shield
      /\ \A j \in Items : n.owners[j] = IF j \in I THEN mem.owners[j] \ {p} ELSE mem.owners[j]
  <2>1. mem \in Memory
    BY <1>1
  <2>. QED
    BY <1>3, <2>1, TakenMemory
<1>6. /\ m \in Memory /\ m.world = n.world /\ m.house = n.house /\ m.owners = n.owners
      /\ \A q \in Players :
             m.shield[q] = IF q = p /\ n.shield[p] \in I THEN None ELSE n.shield[q]
  <2>1. n \in Memory
    BY <1>5
  <2>. QED
    BY <1>3, <2>1, UnshieldedMemory
<1>7. ShieldLost(m, mem, i)
  <2>1. SUFFICES ASSUME NEW q \in Players
        PROVE  m.shield[q] = IF mem.shield[q] = i THEN None ELSE mem.shield[q]
    BY DEF ShieldLost
  <2>2. mem.shield[q] = i => q = p
    BY <1>1, <1>2 DEF Agree, ShieldsAgree
  <2>. QED
    BY <1>4, <1>5, <1>6, <2>2
<1>8. SameElsewhere(m, mem, i) /\ m.owners[i] = {}
  BY <1>2, <1>4, <1>5, <1>6 DEF SameElsewhere
<1>. QED
  BY <1>2, <1>5, <1>6, <1>7, <1>8 DEF m, n, I

LEMMA DropItemStep ==
    ASSUME CustodyInvariant, NEW p \in Players, NEW i \in Items, DropItem(p, i)
    PROVE  CustodyInvariant'
<1>. DEFINE g == Unshielded(Taken(mem, p, {i}), p, {i})
            m == [g EXCEPT !.world = @ \cup {i}]
<1>1. /\ Handle(<<Receipt("item_removed", p, i), Receipt("item_dropped", p, i)>>, m)
      /\ p \in mem.owners[i] /\ used' = used
  BY DEF DropItem, Has, DropReceipts
<1>2. Idle
  BY <1>1 DEF Handle
<1>3. /\ g \in Memory /\ g.world = mem.world /\ g.house = mem.house
      /\ g.owners[i] = {} /\ SameElsewhere(g, mem, i) /\ ShieldLost(g, mem, i)
      /\ i \notin mem.world /\ i \notin mem.house
  BY <1>1, <1>2, TakenAndUnshielded
<1>. HIDE DEF g
<1>4. /\ m \in Memory /\ m.world = mem.world \cup {i} /\ m.house = mem.house
      /\ m.owners = g.owners /\ m.shield = g.shield
  BY <1>3 DEF Memory
<1>. HIDE DEF m
<1>5. /\ SameElsewhere(m, mem, i) /\ ShieldLost(m, mem, i)
      /\ m.owners[i] = {} /\ i \in m.world /\ i \notin m.house
  BY <1>3, <1>4 DEF SameElsewhere, ShieldLost
<1>. QED
  BY <1>1, <1>4, <1>5, Release

LEMMA StoreStep ==
    ASSUME CustodyInvariant, NEW p \in Players, NEW i \in Items, StoreInHouse(p, i)
    PROVE  CustodyInvariant'
<1>. DEFINE g == Unshielded(Taken(mem, p, {i}), p, {i})
            m == [g EXCEPT !.house = @ \cup {i}]
<1>1. /\ Handle(<<Receipt("item_removed", p, i), Receipt("house_item_stored", p, i)>>, m)
      /\ p \in mem.owners[i] /\ used' = used
  BY DEF StoreInHouse, Has
<1>2. Idle
  BY <1>1 DEF Handle
<1>3. /\ g \in Memory /\ g.world = mem.world /\ g.house = mem.house
      /\ g.owners[i] = {} /\ SameElsewhere(g, mem, i) /\ ShieldLost(g, mem, i)
      /\ i \notin mem.world /\ i \notin mem.house
  BY <1>1, <1>2, TakenAndUnshielded
<1>. HIDE DEF g
<1>4. /\ m \in Memory /\ m.world = mem.world /\ m.house = mem.house \cup {i}
      /\ m.owners = g.owners /\ m.shield = g.shield
  BY <1>3 DEF Memory
<1>. HIDE DEF m
<1>5. /\ SameElsewhere(m, mem, i) /\ ShieldLost(m, mem, i)
      /\ m.owners[i] = {} /\ i \notin m.world /\ i \in m.house
  BY <1>3, <1>4 DEF SameElsewhere, ShieldLost
<1>. QED
  BY <1>1, <1>4, <1>5, Release

(* The receipts of a purchase move the item with the last one only. *)
LEMMA BuyFromShopStep ==
    ASSUME CustodyInvariant, NEW p \in Players, NEW i \in Items, BuyFromShop(p, i)
    PROVE  CustodyInvariant'
<1>. DEFINE a == Receipt("wallet_debit", p, i)
            b == Receipt("item_minted", p, i)
            c == Receipt("item_added", p, i)
            rs == <<a, b, c>>
            m == Given(mem, p, i)
            t == Materialize(db, c)
            j == Append(log, a)
            k == Append(j, b)
            l == Append(k, c)
<1>1. Handle(rs, m) /\ Fresh(i) /\ used' = used
  BY DEF BuyFromShop, ShopReceipts
<1>2. /\ mem \in Memory /\ db \in Tables /\ log \in Seq(Receipts)
      /\ used \subseteq Items /\ SlotsOwned(db)
      /\ Agree(db, mem, log, used, Away)
  BY <1>1, AtTheStart
<1>3. ~Named(log, i)
  <2>1. DOMAIN log = 1..Len(log)
    BY <1>2, LenProperties
  <2>. QED
    BY <1>1, <2>1 DEF Fresh, Named
<1>4. /\ i \notin used /\ db.owner[i] = None /\ i \notin db.house /\ ~db.slot[i]
      /\ db.object[i] # "active"
      /\ mem.owners[i] = {} /\ i \notin mem.world /\ i \notin mem.house
  BY <1>2, <1>3, WhereItIs
<1>5. /\ m \in Memory /\ m.world = mem.world /\ m.house = mem.house /\ m.shield = mem.shield
      /\ \A y \in Items : m.owners[y] = IF y = i THEN mem.owners[y] \cup {p} ELSE mem.owners[y]
  <2>1. m = Given(mem, p, i) /\ mem \in Memory
    BY <1>2
  <2>. HIDE DEF m
  <2>. QED
    BY <2>1, GivenMemory
<1>. HIDE DEF m
<1>6. /\ a \in Receipts /\ a.action = "wallet_debit" /\ a.item = i
      /\ b \in Receipts /\ b.action = "item_minted" /\ b.item = i
      /\ c \in Receipts /\ c.action = "item_added" /\ c.item = i /\ c.player = p
  BY ReceiptsOf DEF Actions
<1>. HIDE DEF a, b, c
<1>7. /\ rs \in Seq(Receipts) /\ rs # <<>> /\ Len(rs) = 3
      /\ rs[1] = a /\ rs[2] = b /\ rs[3] = c
      /\ rs = Append(<<a, b>>, c)
      /\ SubSeq(rs, 1, 1) = <<a>> /\ SubSeq(rs, 1, 2) = <<a, b>>
      /\ SubSeq(rs, 2, 3) = <<b, c>> /\ SubSeq(rs, 3, 3) = <<c>>
  BY <1>6, ThreeEntries
<1>. HIDE DEF rs
<1>8. Materialize(db, a) = db /\ Materialize(db, b) = db
  BY <1>6 DEF Materialize
<1>9. /\ j \in Seq(Receipts) /\ k \in Seq(Receipts) /\ l \in Seq(Receipts)
  BY <1>2, <1>6, AppendProperties
<1>10. /\ Replay(db, <<a>>) = db /\ log \o <<a>> = j
       /\ Replay(db, <<a, b>>) = db /\ log \o <<a, b>> = k /\ <<a, b>> \in Seq(Receipts)
  BY <1>2, <1>6, <1>8, GrowsByOne, GrowsByTwo
<1>11. Replay(db, rs) = t /\ log \o rs = l
  <2>. DEFINE ab == <<a, b>>
  <2>1. ab \in Seq(Receipts) /\ Replay(db, ab) = db /\ log \o ab = k /\ rs = Append(ab, c)
    BY <1>7, <1>10
  <2>. HIDE DEF ab, k
  <2>2. Replay(db, rs) = Materialize(db, c)
    BY <1>2, <1>6, <2>1, ReplayAppend
  <2>3. log \o Append(ab, c) = Append(log \o ab, c)
    <3>1. <<c>> \in Seq(Receipts) /\ log \o ab \in Seq(Receipts)
      BY <1>2, <1>6, <2>1, ReplayOne, ConcatProperties
    <3>2. Append(ab, c) = ab \o <<c>> /\ Append(log \o ab, c) = (log \o ab) \o <<c>>
      BY <1>6, <2>1, <3>1, AppendIsConcat
    <3>. QED
      BY <1>2, <2>1, <3>1, <3>2, ConcatAssociative
  <2>. QED
    BY <2>1, <2>2, <2>3
<1>12. \A y \in Items :
          /\ Handed(j, y) <=> Handed(log, y)
          /\ Decayed(j, y) <=> Decayed(log, y)
          /\ Named(j, y) <=> Named(log, y) \/ y = i
  BY <1>2, <1>6, GrowsByOne
<1>13. \A y \in Items :
          /\ Handed(k, y) <=> Handed(log, y)
          /\ Decayed(k, y) <=> Decayed(log, y)
          /\ Named(k, y) <=> Named(log, y) \/ y = i
  <2>. HIDE DEF j
  <2>. QED
    BY <1>2, <1>6, <1>9, <1>12, GrowsByOne
<1>14. \A y \in Items :
          /\ Handed(l, y) <=> Handed(log, y) \/ y = i
          /\ Decayed(l, y) <=> Decayed(log, y)
          /\ Named(l, y) <=> Named(log, y) \/ y = i
  <2>1. SUFFICES ASSUME NEW y \in Items
        PROVE  /\ Handed(l, y) <=> Handed(log, y) \/ y = i
               /\ Decayed(l, y) <=> Decayed(log, y)
               /\ Named(l, y) <=> Named(log, y) \/ y = i
    OBVIOUS
  <2>. HIDE DEF k
  <2>2. /\ Handed(l, y) <=> Handed(k, y) \/ c.item = y
        /\ Decayed(l, y) <=> Decayed(k, y)
        /\ Named(l, y) <=> Named(k, y) \/ c.item = y
    BY <1>2, <1>6, <1>9, GrowsByOne
  <2>. QED
    BY <1>6, <1>13, <2>2
<1>15. i \in Torn(j, <<b, c>>)
  <2>1. InLog(j, i, {"wallet_debit"})
    BY <1>2, <1>6, InLongerLog
  <2>2. Head(<<b, c>>) = b /\ <<b, c>> # <<>>
    BY <1>6, TwoEntries
  <2>. HIDE DEF j
  <2>. QED
    BY <1>6, <2>1, <2>2 DEF Torn
<1>16. i \in Torn(k, <<c>>)
  BY <1>6 DEF Torn
<1>. HIDE DEF j, k, l
<1>17. Between(db, mem, j, <<b, c>>, Away)
  <2>1. SUFFICES ASSUME NEW y \in Items PROVE ItemBetween(db, mem, j, <<b, c>>, Away, y)
    BY DEF Between
  <2>2. ItemAgrees(db, mem, log, used, Away, y)
    BY <1>2 DEF Agree
  <2>. QED
    BY <1>12, <1>15, <2>2 DEF ItemAgrees, ItemBetween, InTables
<1>18. Between(db, mem, k, <<c>>, Away)
  <2>1. SUFFICES ASSUME NEW y \in Items PROVE ItemBetween(db, mem, k, <<c>>, Away, y)
    BY DEF Between
  <2>2. ItemAgrees(db, mem, log, used, Away, y)
    BY <1>2 DEF Agree
  <2>. QED
    BY <1>13, <1>16, <2>2 DEF ItemAgrees, ItemBetween, InTables
<1>19. ASSUME NEW n \in 1..Len(rs) - 1
       PROVE  Between(Replay(db, SubSeq(rs, 1, n)), mem, log \o SubSeq(rs, 1, n),
                      SubSeq(rs, n + 1, Len(rs)), Away)
  <2>1. Len(rs) = 3 /\ (n = 1 \/ n = 2)
    BY <1>7
  <2>2. CASE n = 1
    <3>1. n + 1 = 2
      BY <2>2
    <3>. QED
      BY <1>7, <1>10, <1>17, <2>1, <2>2, <3>1
  <2>3. CASE n = 2
    <3>1. n + 1 = 3
      BY <2>3
    <3>. QED
      BY <1>7, <1>10, <1>18, <2>1, <2>3, <3>1
  <2>. QED
    BY <2>1, <2>2, <2>3
<1>20. /\ t.owner[i] = p /\ t.object[i] # "active" /\ i \notin t.house /\ ~t.slot[i]
  BY <1>2, <1>4, <1>6, SameItem
<1>21. \A y \in Items \ {i} :
          /\ t.owner[y] = db.owner[y] /\ t.slot[y] = db.slot[y] /\ t.object[y] = db.object[y]
          /\ y \in t.house <=> y \in db.house
  BY <1>2, <1>6, OtherItems, SlotsOfOthers
<1>. HIDE DEF t
<1>22. ASSUME NEW y \in Items PROVE ItemAgrees(t, m, l, used, Away, y)
  <2>1. CASE y = i
    BY <1>4, <1>5, <1>14, <1>20, <2>1 DEF ItemAgrees, InTables, OnePlace
  <2>2. CASE y # i
    <3>1. ItemAgrees(db, mem, log, used, Away, y)
      BY <1>2 DEF Agree
    <3>2. /\ t.owner[y] = db.owner[y] /\ t.slot[y] = db.slot[y] /\ t.object[y] = db.object[y]
          /\ y \in t.house <=> y \in db.house
      BY <1>21, <2>2
    <3>3. m.owners[y] = mem.owners[y] /\ m.world = mem.world /\ m.house = mem.house
      BY <1>5, <2>2
    <3>4. /\ Handed(l, y) <=> Handed(log, y)
          /\ Decayed(l, y) <=> Decayed(log, y)
          /\ Named(l, y) <=> Named(log, y)
      BY <1>14, <2>2
    <3>. QED
      BY <3>1, <3>2, <3>3, <3>4 DEF ItemAgrees, InTables, OnePlace
  <2>. QED
    BY <2>1, <2>2
<1>23. ShieldsAgree(t, m)
  <2>1. ShieldsAgree(db, mem)
    BY <1>2 DEF Agree
  <2>2. \A q \in Players : mem.shield[q] # i
    BY <1>4, <2>1 DEF ShieldsAgree
  <2>3. \A q \in Players : m.shield[q] = IF mem.shield[q] = i THEN None ELSE mem.shield[q]
    BY <1>5, <2>2
  <2>. QED
    BY <1>2, <1>20, <1>21, <2>1, <2>3, ShieldCleared
<1>24. Agree(Replay(db, rs), m, log \o rs, used', Away)
  BY <1>1, <1>11, <1>22, <1>23 DEF Agree
<1>25. /\ used \subseteq used' /\ used' \subseteq Items /\ used' = used
       /\ Len(rs) \in {2, 3} /\ ~Named(log, rs[1].item)
  BY <1>1, <1>2, <1>3, <1>6, <1>7
<1>26. \A n \in 1..Len(rs) : rs[n].item \notin missed
  <2>1. i \notin missed
    BY <1>1, <1>3, NotMissed DEF Handle
  <2>2. \A n \in 1..3 : n = 1 \/ n = 2 \/ n = 3
    OBVIOUS
  <2>. QED
    BY <1>6, <1>7, <2>1, <2>2
<1>. QED
  BY <1>1, <1>5, <1>7, <1>19, <1>24, <1>25, <1>26, HandlerStarts

(* The receipts of a death: of each item a removal and then a drop. *)
DropsOf(p, I) == {Receipt(action, p, i) : action \in {"item_removed", "item_dropped"}, i \in I}

Paired(s) ==
    \A n \in 1..Len(s) :
        s[n].action = "item_removed" =>
            /\ n + 1 \in 1..Len(s)
            /\ s[n + 1].action = "item_dropped" /\ s[n + 1].item = s[n].item

LEMMA DropsAreReceipts ==
    ASSUME NEW p \in Players, NEW I \in SUBSET Items
    PROVE  /\ DropsOf(p, I) \subseteq Receipts
           /\ \A r \in DropsOf(p, I) : r.action \in {"item_removed", "item_dropped"} /\ r.item \in I
<1>1. SUFFICES ASSUME NEW r \in DropsOf(p, I)
      PROVE  /\ r \in Receipts
             /\ r.action \in {"item_removed", "item_dropped"} /\ r.item \in I
  OBVIOUS
<1>2. PICK action \in {"item_removed", "item_dropped"}, i \in I : r = Receipt(action, p, i)
  BY DEF DropsOf
<1>. QED
  BY <1>2, ReceiptsOf DEF Actions

(* What such receipts do to the tables, an item at a time. *)
AfterDrops(t, s, i) ==
    /\ Replay(t, s).owner[i] = IF Named(s, i) THEN None ELSE t.owner[i]
    /\ Replay(t, s).slot[i] = IF Named(s, i) THEN FALSE ELSE t.slot[i]
    /\ Replay(t, s).object[i] = IF InLog(s, i, {"item_dropped"}) THEN "active" ELSE t.object[i]
    /\ i \in Replay(t, s).house <=> i \in t.house

LEMMA ReplayDrops ==
    ASSUME NEW t \in Tables, NEW p \in Players, NEW I \in SUBSET Items
    PROVE  \A s \in Seq(DropsOf(p, I)) :
               s \in Seq(Receipts) /\ \A i \in Items : AfterDrops(t, s, i)
<1>. DEFINE S == DropsOf(p, I)
            P == {s \in Seq(S) : s \in Seq(Receipts) /\ \A i \in Items : AfterDrops(t, s, i)}
<1>1. <<>> \in P
  <2>1. Replay(t, <<>>) = t /\ <<>> \in Seq(S) /\ <<>> \in Seq(Receipts)
    BY ReplayEmpty, EmptySeq
  <2>2. \A i \in Items : AfterDrops(t, <<>>, i)
    BY <2>1, InEmptyLog DEF AfterDrops
  <2>. QED
    BY <2>1, <2>2
<1>2. ASSUME NEW s \in Seq(S), NEW r \in S, s \in P
      PROVE  Append(s, r) \in P
  <2>1. r \in Receipts /\ r.action \in {"item_removed", "item_dropped"} /\ s \in Seq(Receipts)
    BY <1>2, DropsAreReceipts
  <2>2. Append(s, r) \in Seq(S) /\ Append(s, r) \in Seq(Receipts)
    BY <2>1, AppendProperties
  <2>3. ASSUME NEW i \in Items PROVE AfterDrops(t, Append(s, r), i)
    <3>1. AfterDrops(t, s, i)
      BY <1>2
    <3>2. /\ Replay(t, Append(s, r)) = Materialize(Replay(t, s), r)
          /\ Replay(t, s) \in Tables
      BY <2>1, ReplayAppend, ReplayTables
    <3>3. /\ Named(Append(s, r), i) <=> Named(s, i) \/ r.item = i
          /\ InLog(Append(s, r), i, {"item_dropped"})
                <=> InLog(s, i, {"item_dropped"}) \/ (r.item = i /\ r.action \in {"item_dropped"})
      BY <2>1, InLongerLog
    <3>. DEFINE u == Replay(t, s)
                v == Materialize(u, r)
    <3>. HIDE DEF u
    <3>4. u \in Tables /\ v = Replay(t, Append(s, r))
      BY <3>2 DEF u
    <3>5. CASE r.item = i
      <4>1. /\ v.owner[i] = None /\ v.slot[i] = FALSE
            /\ v.object[i] = IF r.action = "item_dropped" THEN "active" ELSE u.object[i]
            /\ i \in v.house <=> i \in u.house
        <5>1. v.slot \in [Items -> BOOLEAN]
          BY <2>1, <3>4, MaterializeTables DEF Tables
        <5>2. ~v.slot[i]
          BY <2>1, <3>4, <3>5, SameItem
        <5>. QED
          BY <2>1, <3>4, <3>5, <5>1, <5>2, SameItem
      <4>. HIDE DEF v
      <4>. QED
        BY <3>1, <3>3, <3>4, <3>5, <4>1 DEF u, AfterDrops
    <3>6. CASE r.item # i
      <4>1. /\ v.owner[i] = u.owner[i] /\ v.slot[i] = u.slot[i] /\ v.object[i] = u.object[i]
            /\ i \in v.house <=> i \in u.house
        BY <2>1, <3>4, <3>6, OtherItems, SlotsOfOthers
      <4>. HIDE DEF v
      <4>. QED
        BY <3>1, <3>3, <3>4, <3>6, <4>1 DEF u, AfterDrops
    <3>. QED
      BY <3>5, <3>6
  <2>. QED
    BY <2>2, <2>3
<1>3. Seq(S) \subseteq P
  <2>. HIDE DEF P, S
  <2>. QED BY <1>1, <1>2, SequenceInduction
<1>. QED
  BY <1>3

LEMMA PairedJoin ==
    ASSUME NEW S \in SUBSET Receipts, NEW s \in Seq(S), Paired(s), NEW a \in S, NEW b \in S,
           a.action = "item_removed", b.action = "item_dropped", a.item = b.item
    PROVE  /\ s \o <<a, b>> \in Seq(S) /\ s \o <<a, b>> # <<>> /\ Paired(s \o <<a, b>>)
           /\ \A i \in Items : InLog(s \o <<a, b>>, i, {"item_dropped"})
                                   <=> InLog(s, i, {"item_dropped"}) \/ b.item = i
<1>. DEFINE d == <<a, b>>
            u == s \o d
<1>1. PICK n \in Nat : n = Len(s)
  BY LenProperties
<1>2. d \in Seq(S) /\ Len(d) = 2 /\ d[1] = a /\ d[2] = b /\ d = Append(<<a>>, b)
  <2>1. d \in Seq(S) /\ Len(d) = 2 /\ d[1] = a /\ d[2] = b
    OBVIOUS
  <2>2. d = Append(<<a>>, b)
    BY TwoEntries, Zenon
  <2>. QED
    BY <2>1, <2>2
<1>3. s \in Seq(Receipts) /\ a \in Receipts /\ b \in Receipts
  BY SeqMonotonic
<1>4. \A i \in Items : InLog(d, i, {"item_dropped"}) <=> b.item = i
  <2>1. SUFFICES ASSUME NEW i \in Items PROVE InLog(d, i, {"item_dropped"}) <=> b.item = i
    OBVIOUS
  <2>2. DOMAIN d = 1..2 /\ \A j \in 1..2 : j = 1 \/ j = 2
    BY <1>2, LenProperties
  <2>. HIDE DEF d
  <2>. QED
    BY <1>2, <2>2 DEF InLog
<1>. HIDE DEF d
<1>5. /\ u \in Seq(S) /\ Len(u) = n + 2
      /\ \A j \in 1..n + 2 : u[j] = IF j <= n THEN s[j] ELSE d[j - n]
  BY <1>1, <1>2, ConcatProperties
<1>6. \A i \in Items : InLog(u, i, {"item_dropped"})
                           <=> InLog(s, i, {"item_dropped"}) \/ b.item = i
  <2>1. d \in Seq(Receipts)
    BY <1>2, SeqMonotonic
  <2>. QED
    BY <1>3, <1>4, <2>1, InJoinedLog
<1>. HIDE DEF u
<1>7. u # <<>>
  BY <1>5, EmptySeq
<1>8. Paired(u)
  <2>1. SUFFICES ASSUME NEW j \in 1..n + 2, u[j].action = "item_removed"
        PROVE  /\ j + 1 \in 1..n + 2
               /\ u[j + 1].action = "item_dropped" /\ u[j + 1].item = u[j].item
    BY <1>5 DEF Paired
  <2>2. CASE j <= n
    <3>1. u[j] = s[j] /\ j \in 1..Len(s)
      BY <1>1, <1>5, <2>2
    <3>2. /\ j + 1 \in 1..n
          /\ s[j + 1].action = "item_dropped" /\ s[j + 1].item = s[j].item
      BY <1>1, <2>1, <3>1 DEF Paired
    <3>3. u[j + 1] = s[j + 1]
      BY <1>5, <3>2
    <3>. QED
      BY <3>1, <3>2, <3>3
  <2>3. CASE j = n + 1
    <3>1. u[j] = d[1] /\ j + 1 \in 1..n + 2 /\ u[j + 1] = d[2]
      BY <1>5, <2>3
    <3>. QED
      BY <1>2, <3>1
  <2>4. CASE j = n + 2
    <3>1. u[j] = d[2]
      BY <1>5, <2>4
    <3>. QED
      BY <1>2, <2>1, <3>1
  <2>. QED
    BY <2>2, <2>3, <2>4
<1>. QED
  BY <1>5, <1>6, <1>7, <1>8 DEF u, d

LEMMA DeathReceipts ==
    ASSUME NEW p \in Players, NEW I \in SUBSET Items, IsFiniteSet(I), I # {},
           NEW order \in SetToSeqs(I), NEW rs,
           rs = FlattenSeq([n \in DOMAIN order |-> DropReceipts(p, order[n])])
    PROVE  /\ rs \in Seq(DropsOf(p, I)) /\ rs # <<>> /\ Paired(rs)
           /\ \A i \in I : InLog(rs, i, {"item_dropped"})
<1>1. PICK k \in Nat : k = Cardinality(I) /\ k > 0
  BY FS_EmptySet, FS_CardinalityType
<1>2. order \in [1..k -> I] /\ \A i, j \in 1..k : i # j => order[i] # order[j]
  BY <1>1 DEF SetToSeqs
<1>3. \A i \in I : \E n \in 1..k : order[n] = i
  <2>1. order \in Injection(1..k, I)
    BY <1>2 DEF Injection, IsInjective
  <2>2. Cardinality(1..k) = k
    BY FS_Interval
  <2>3. order \in Surjection(1..k, I)
    BY <1>1, <2>1, <2>2, FS_Injection
  <2>. QED
    BY <2>3 DEF Surjection
<1>. DEFINE S == DropsOf(p, I)
            q == [n \in DOMAIN order |-> DropReceipts(p, order[n])]
<1>4. S \in SUBSET Receipts
  BY DropsAreReceipts
<1>5. ASSUME NEW n \in 1..k
      PROVE  /\ q[n] = <<Receipt("item_removed", p, order[n]), Receipt("item_dropped", p, order[n])>>
             /\ Receipt("item_removed", p, order[n]) \in S /\ Receipt("item_dropped", p, order[n]) \in S
             /\ q[n] \in Seq(S)
  <2>1. q[n] = DropReceipts(p, order[n]) /\ order[n] \in I
    BY <1>2
  <2>2. Receipt("item_removed", p, order[n]) \in S /\ Receipt("item_dropped", p, order[n]) \in S
    BY <2>1 DEF DropsOf
  <2>3. q[n] = <<Receipt("item_removed", p, order[n]), Receipt("item_dropped", p, order[n])>>
    BY <2>1 DEF DropReceipts
  <2>. HIDE DEF q, S
  <2>4. q[n] \in Seq(S)
    <3>1. PICK a \in S, b \in S : q[n] = <<a, b>>
      BY <2>2, <2>3
    <3>2. <<a, b>> \in Seq(S)
      BY TwoEntries
    <3>. QED
      BY <3>1, <3>2
  <2>. QED
    BY <2>2, <2>3, <2>4
<1>6. q \in Seq(Seq(S)) /\ Len(q) = k
  <2>1. DOMAIN q = 1..k /\ q = [n \in 1..k |-> q[n]]
    BY <1>2
  <2>. HIDE DEF q, S
  <2>2. q \in [1..k -> Seq(S)]
    BY <1>5, <2>1
  <2>. QED
    BY <2>2, SeqDef, LenProperties
<1>. HIDE DEF q, S
<1>7. PICK f : FlattenSeq(q) = f[k] /\ Flattens(f, q, k)
  BY <1>1, <1>6, Flattened, Zenon
<1>. DEFINE Good(s, m) == /\ s \in Seq(S) /\ s # <<>> /\ Paired(s)
                         /\ \A n \in 1..m : InLog(s, order[n], {"item_dropped"})
            P == {m \in 0..k : m # 0 => Good(f[m], m)}
<1>8. 0 \in P
  OBVIOUS
<1>9. ASSUME NEW m \in 1..k, m - 1 \in P PROVE m \in P
  <2>. DEFINE a == Receipt("item_removed", p, order[m])
              b == Receipt("item_dropped", p, order[m])
              s == IF m = 1 THEN <<>> ELSE f[m - 1]
  <2>0. order[m] \in Items /\ order[m] \in I
    BY <1>2
  <2>1. /\ a \in S /\ a.action = "item_removed" /\ a.item = order[m]
        /\ b \in S /\ b.action = "item_dropped" /\ b.item = order[m]
        /\ q[m] = <<a, b>>
    BY <1>5, <2>0, ReceiptsOf DEF Actions
  <2>2. f[m] = s \o <<a, b>>
    <3>1. f[m] = IF m = 1 THEN q[m] ELSE f[m - 1] \o q[m]
      BY <1>7 DEF Flattens
    <3>2. <<>> \o <<a, b>> = <<a, b>>
      <4>1. <<a, b>> \in Seq(S)
        BY <2>1, TwoEntries, Zenon
      <4>. QED
        BY <4>1, ConcatEmptySeq
    <3>. HIDE DEF a, b
    <3>. QED
      BY <2>1, <3>1, <3>2
  <2>. HIDE DEF a, b
  <2>3. s \in Seq(S) /\ Paired(s) /\ \A n \in 1..m - 1 : InLog(s, order[n], {"item_dropped"})
    <3>1. CASE m = 1
      BY <3>1, EmptySeq DEF Paired
    <3>2. CASE m # 1
      BY <1>9, <3>2
    <3>. QED
      BY <3>1, <3>2
  <2>. HIDE DEF s
  <2>4. /\ f[m] \in Seq(S) /\ f[m] # <<>> /\ Paired(f[m])
        /\ \A i \in Items : InLog(f[m], i, {"item_dropped"})
                                   <=> InLog(s, i, {"item_dropped"}) \/ b.item = i
    BY <1>4, <2>1, <2>2, <2>3, PairedJoin
  <2>5. ASSUME NEW n \in 1..m PROVE InLog(f[m], order[n], {"item_dropped"})
    <3>1. order[n] \in Items /\ (n \in 1..m - 1 \/ n = m)
      BY <1>2
    <3>. QED
      BY <2>1, <2>3, <2>4, <3>1
  <2>. QED
    BY <2>4, <2>5
<1>10. k \in P
  <2>1. 0..k \subseteq P
    <3>. HIDE DEF P
    <3>. QED BY <1>8, <1>9, IndexInduction
  <2>. QED
    BY <2>1
<1>11. Good(f[k], k) /\ rs = f[k]
  BY <1>1, <1>7, <1>10 DEF q
<1>. QED
  BY <1>3, <1>11 DEF S

(* What a player holds was handed out in the log, so it is finite. *)
LEMMA HeldIsFinite ==
    ASSUME NEW l \in Seq(Receipts), NEW I, \A i \in I : Named(l, i)
    PROVE  IsFiniteSet(I)
<1>1. PICK n \in Nat : n = Len(l) /\ DOMAIN l = 1..n
  BY LenProperties
<1>. DEFINE N == {j \in 1..n : l[j].item \in I}
            f == [j \in N |-> l[j].item]
<1>2. IsFiniteSet(N)
  <2>1. IsFiniteSet(1..n) /\ N \in SUBSET (1..n)
    BY FS_Interval
  <2>. HIDE DEF N
  <2>. QED BY <2>1, FS_Subset
<1>3. f \in [N -> I]
  OBVIOUS
<1>4. ASSUME NEW i \in I PROVE \E j \in N : f[j] = i
  <2>1. PICK j \in 1..n : l[j].item = i
    BY <1>1 DEF Named
  <2>. QED
    BY <2>1
<1>5. f \in Surjection(N, I)
  <2>. HIDE DEF f, N
  <2>. QED BY <1>3, <1>4 DEF Surjection
<1>. HIDE DEF f, N
<1>. QED
  BY <1>2, <1>5, FS_Surjection

(* A death: after any number of its receipts every item is where it was, in  *)
(* the world, or torn.                                                       *)
LEMMA DeathDropStep ==
    ASSUME CustodyInvariant, NEW p \in Players, NEW I \in SUBSET Items, DeathDrop(p, I)
    PROVE  CustodyInvariant'
<1>. DEFINE g == Taken(mem, p, I)
            m == [g EXCEPT !.world = @ \cup I]
<1>1. PICK order \in SetToSeqs(I) :
          Handle(FlattenSeq([n \in DOMAIN order |-> DropReceipts(p, order[n])]), m)
  BY DEF DeathDrop
<1>2. /\ I # {} /\ used' = used
      /\ \A i \in I : p \in mem.owners[i] /\ i # mem.shield[p]
  BY DEF DeathDrop, Droppable, Has
<1>3. PICK rs : rs = FlattenSeq([n \in DOMAIN order |-> DropReceipts(p, order[n])])
  OBVIOUS
<1>4. Handle(rs, m)
  BY <1>1, <1>3
<1>5. /\ mem \in Memory /\ db \in Tables /\ log \in Seq(Receipts)
      /\ used \subseteq Items /\ SlotsOwned(db)
      /\ Agree(db, mem, log, used, Away)
  BY <1>4, AtTheStart
<1>6. ASSUME NEW i \in I
      PROVE  /\ i \notin used /\ db.owner[i] = p /\ Handed(log, i)
             /\ db.object[i] # "active" /\ i \notin db.house
             /\ i \notin mem.world /\ i \notin mem.house
             /\ mem.owners[i] = {p} /\ Named(log, i)
  <2>1. i \in Items /\ p \in mem.owners[i]
    BY <1>2
  <2>2. Handed(log, i) => Named(log, i)
    BY DEF Handed, InLog, Named
  <2>. QED
    BY <1>5, <2>1, <2>2, WhereItIs
<1>7. /\ rs \in Seq(DropsOf(p, I)) /\ rs # <<>> /\ Paired(rs)
      /\ \A i \in I : InLog(rs, i, {"item_dropped"})
  <2>1. IsFiniteSet(I)
    BY <1>5, <1>6, HeldIsFinite
  <2>. QED
    BY <1>2, <1>3, <2>1, DeathReceipts
<1>8. \A r \in DropsOf(p, I) :
          r \in Receipts /\ r.action \in {"item_removed", "item_dropped"} /\ r.item \in I
  BY DropsAreReceipts
<1>9. PICK k \in Nat : k = Len(rs) /\ k > 0 /\ DOMAIN rs = 1..k
  BY <1>7, LenProperties, EmptySeq
<1>10. \A n \in 1..k : rs[n] \in DropsOf(p, I)
  BY <1>7, <1>9, ElementOfSeq
<1>11. /\ g \in Memory /\ g.world = mem.world /\ g.house = mem.house /\ g.shield = mem.shield
       /\ \A j \in Items : g.owners[j] = IF j \in I THEN mem.owners[j] \ {p} ELSE mem.owners[j]
  <2>1. g = Taken(mem, p, I) /\ mem \in Memory
    BY <1>5
  <2>. HIDE DEF g
  <2>. QED
    BY <2>1, TakenMemory
<1>. HIDE DEF g
<1>12. /\ m \in Memory /\ m.world = mem.world \cup I /\ m.house = mem.house
       /\ m.owners = g.owners /\ m.shield = mem.shield
  BY <1>11 DEF Memory
<1>. HIDE DEF m
(* what a prefix of the receipts does *)
<1>13. ASSUME NEW s \in Seq(DropsOf(p, I)), NEW i \in Items
       PROVE  /\ s \in Seq(Receipts)
              /\ Replay(db, s).owner[i] = IF Named(s, i) THEN None ELSE db.owner[i]
              /\ Replay(db, s).slot[i] = IF Named(s, i) THEN FALSE ELSE db.slot[i]
              /\ Replay(db, s).object[i] = IF InLog(s, i, {"item_dropped"}) THEN "active" ELSE db.object[i]
              /\ i \in Replay(db, s).house <=> i \in db.house
              /\ Named(s, i) => i \in I
              /\ Handed(log \o s, i) <=> Handed(log, i)
              /\ Decayed(log \o s, i) <=> Decayed(log, i)
              /\ Named(log \o s, i) <=> Named(log, i)
  <2>1. s \in Seq(Receipts)
    BY <1>5, ReplayDrops
  <2>2. \A n \in DOMAIN s : s[n].action \in {"item_removed", "item_dropped"} /\ s[n].item \in I
    <3>1. \A n \in DOMAIN s : s[n] \in DropsOf(p, I)
      BY ElementOfSeq, LenProperties
    <3>. QED
      BY <1>8, <3>1
  <2>3. Named(s, i) => i \in I
    BY <2>2 DEF Named
  <2>4. ~InLog(s, i, {"item_added"}) /\ ~InLog(s, i, {"world_object_removed"})
    BY <2>2 DEF InLog
  <2>5. /\ Handed(log \o s, i) <=> Handed(log, i)
        /\ Decayed(log \o s, i) <=> Decayed(log, i)
        /\ Named(log \o s, i) <=> Named(log, i)
    BY <1>5, <1>6, <2>1, <2>3, <2>4, InJoinedLog DEF Handed, Decayed
  <2>6. /\ Replay(db, s).owner[i] = IF Named(s, i) THEN None ELSE db.owner[i]
        /\ Replay(db, s).slot[i] = IF Named(s, i) THEN FALSE ELSE db.slot[i]
        /\ Replay(db, s).object[i] = IF InLog(s, i, {"item_dropped"}) THEN "active" ELSE db.object[i]
        /\ i \in Replay(db, s).house <=> i \in db.house
    <3>1. db \in Tables
      BY <1>5
    <3>2. AfterDrops(db, s, i)
      BY <3>1, ReplayDrops
    <3>. QED
      BY <3>2 DEF AfterDrops
  <2>. QED
    BY <2>1, <2>3, <2>5, <2>6
<1>14. Agree(Replay(db, rs), m, log \o rs, used', Away)
  <2>. DEFINE t == Replay(db, rs)
              l == log \o rs
  <2>1. ASSUME NEW i \in Items PROVE ItemAgrees(t, m, l, used, Away, i)
    <3>1. /\ t.owner[i] = IF Named(rs, i) THEN None ELSE db.owner[i]
          /\ t.object[i] = IF InLog(rs, i, {"item_dropped"}) THEN "active" ELSE db.object[i]
          /\ i \in t.house <=> i \in db.house
          /\ Named(rs, i) => i \in I
          /\ Handed(l, i) <=> Handed(log, i)
          /\ Decayed(l, i) <=> Decayed(log, i)
          /\ Named(l, i) <=> Named(log, i)
      BY <1>7, <1>13
    <3>2. InLog(rs, i, {"item_dropped"}) => Named(rs, i)
      BY DEF InLog, Named
    <3>3. m.owners[i] = IF i \in I THEN mem.owners[i] \ {p} ELSE mem.owners[i]
      BY <1>11, <1>12
    <3>4. ItemAgrees(db, mem, log, used, Away, i)
      BY <1>5 DEF Agree
    <3>. HIDE DEF t, l
    <3>5. CASE i \in I
      <4>1. InLog(rs, i, {"item_dropped"}) /\ Named(rs, i)
        BY <1>7, <3>2, <3>5
      <4>. QED
        BY <1>6, <1>12, <3>1, <3>3, <3>5, <4>1 DEF ItemAgrees, InTables, OnePlace
    <3>6. CASE i \notin I
      <4>1. ~InLog(rs, i, {"item_dropped"}) /\ ~Named(rs, i)
        BY <3>1, <3>2, <3>6
      <4>2. t.owner[i] = db.owner[i] /\ t.object[i] = db.object[i] /\ m.owners[i] = mem.owners[i]
        BY <3>1, <3>3, <3>6, <4>1
      <4>. QED
        BY <1>12, <3>1, <3>4, <3>6, <4>2 DEF ItemAgrees, InTables, OnePlace
    <3>. QED
      BY <3>5, <3>6
  <2>2. ShieldsAgree(t, m)
    <3>1. SUFFICES ASSUME NEW q \in Players, NEW i \in Items
          PROVE  m.shield[q] = i <=> t.owner[i] = q /\ t.slot[i]
      BY DEF ShieldsAgree
    <3>2. mem.shield[q] = i <=> db.owner[i] = q /\ db.slot[i]
      BY <1>5 DEF Agree, ShieldsAgree
    <3>3. /\ t.owner[i] = IF Named(rs, i) THEN None ELSE db.owner[i]
          /\ t.slot[i] = IF Named(rs, i) THEN FALSE ELSE db.slot[i]
          /\ Named(rs, i) => i \in I
      BY <1>7, <1>13
    <3>. HIDE DEF t
    <3>4. CASE Named(rs, i)
      <4>1. i \in I /\ ~t.slot[i] /\ db.owner[i] = p /\ mem.shield[p] # i
        BY <1>2, <1>6, <3>3, <3>4
      <4>. QED
        BY <1>12, <3>2, <4>1
    <3>5. CASE ~Named(rs, i)
      <4>1. t.owner[i] = db.owner[i] /\ t.slot[i] = db.slot[i]
        BY <3>3, <3>5
      <4>. QED
        BY <1>12, <3>2, <4>1
    <3>. QED
      BY <3>4, <3>5
  <2>. HIDE DEF t, l
  <2>3. Agree(t, m, l, used', Away)
    BY <1>2, <2>1, <2>2 DEF Agree
  <2>. QED
    BY <2>3 DEF t, l
<1>15. ASSUME NEW n \in 1..k - 1
       PROVE  Between(Replay(db, SubSeq(rs, 1, n)), mem, log \o SubSeq(rs, 1, n),
                      SubSeq(rs, n + 1, k), Away)
  <2>. DEFINE s == SubSeq(rs, 1, n)
              rest == SubSeq(rs, n + 1, k)
              t == Replay(db, s)
              l == log \o s
  <2>1. /\ s \in Seq(DropsOf(p, I)) /\ Len(s) = n /\ DOMAIN s = 1..n
        /\ \A j \in 1..n : s[j] = rs[j]
    BY <1>7, <1>9, SubSeqProperties
  <2>2. /\ rest \in Seq(DropsOf(p, I)) /\ rest # <<>> /\ Head(rest) = rs[n + 1]
    <3>1. rest \in Seq(DropsOf(p, I)) /\ Len(rest) = k - n /\ rest[1] = rs[n + 1]
      BY <1>7, <1>9, SubSeqProperties
    <3>. HIDE DEF rest
    <3>2. rest # <<>>
      BY <3>1, EmptySeq
    <3>. QED
      BY <3>1, <3>2, FirstAndRest
  <2>3. SUFFICES ASSUME NEW i \in Items PROVE ItemBetween(t, mem, l, rest, Away, i)
    BY DEF Between
  <2>4. /\ t.owner[i] = IF Named(s, i) THEN None ELSE db.owner[i]
        /\ t.object[i] = IF InLog(s, i, {"item_dropped"}) THEN "active" ELSE db.object[i]
        /\ i \in t.house <=> i \in db.house
        /\ Named(s, i) => i \in I
        /\ Handed(l, i) <=> Handed(log, i)
        /\ Decayed(l, i) <=> Decayed(log, i)
        /\ Named(l, i) <=> Named(log, i)
    BY <1>13, <2>1
  <2>5. ItemAgrees(db, mem, log, used, Away, i)
    BY <1>5 DEF Agree
  <2>6. InLog(s, i, {"item_dropped"}) => Named(s, i)
    BY DEF InLog, Named
  <2>7. Named(s, i) => InLog(s, i, {"item_dropped"}) \/ i \in Torn(l, rest)
    <3>1. SUFFICES ASSUME Named(s, i), ~InLog(s, i, {"item_dropped"})
          PROVE  i \in Torn(l, rest)
      OBVIOUS
    <3>2. PICK j \in 1..n : s[j].item = i
      BY <2>1, <3>1 DEF Named
    <3>3. s[j].action # "item_dropped" /\ s[j] = rs[j]
      BY <2>1, <3>1, <3>2 DEF InLog
    <3>4. j \in 1..k /\ rs[j].action = "item_removed" /\ rs[j].item = i
      BY <1>8, <1>10, <3>2, <3>3
    <3>5. rs[j + 1].action = "item_dropped" /\ rs[j + 1].item = i
      BY <1>7, <1>9, <3>4 DEF Paired
    <3>6. CASE j + 1 \in 1..n
      <4>1. s[j + 1] = rs[j + 1]
        BY <2>1, <3>6
      <4>. QED
        BY <2>1, <3>1, <3>5, <3>6, <4>1 DEF InLog
    <3>7. CASE j + 1 \notin 1..n
      <4>1. j = n
        BY <3>7
      <4>2. Head(rest).action = "item_dropped" /\ Head(rest).item = i
        BY <2>2, <3>5, <4>1
      <4>. HIDE DEF rest, l
      <4>. QED
        BY <2>2, <4>2 DEF Torn
    <3>. QED
      BY <3>6, <3>7
  <2>. HIDE DEF s, rest, t, l
  <2>8. CASE Named(s, i)
    <3>1. i \in I /\ t.owner[i] = None
      BY <2>4, <2>8
    <3>. QED
      BY <1>6, <2>4, <2>5, <2>7, <2>8, <3>1 DEF ItemAgrees, ItemBetween, InTables, OnePlace
  <2>9. CASE ~Named(s, i)
    <3>1. t.owner[i] = db.owner[i] /\ t.object[i] = db.object[i]
      BY <2>4, <2>6, <2>9
    <3>. QED
      BY <2>4, <2>5, <3>1 DEF ItemAgrees, ItemBetween, InTables, OnePlace
  <2>. QED
    BY <2>8, <2>9
<1>16. rs \in Seq(Receipts)
  BY <1>7, <1>5, ReplayDrops, <1>2, <1>6
<1>17. rs[Len(rs)].action # "item_added"
  BY <1>8, <1>9, <1>10
<1>18. used \subseteq used' /\ used' \subseteq Items
  BY <1>2, <1>5
<1>19. \A n \in 1..Len(rs) : rs[n].item \notin missed
  <2>1. \A i \in I : i \notin missed
    BY <1>4, <1>6, NotMissed DEF Handle
  <2>. QED
    BY <1>8, <1>9, <1>10, <2>1
<1>. QED
  BY <1>4, <1>7, <1>9, <1>12, <1>14, <1>15, <1>16, <1>17, <1>18, <1>19, HandlerStarts

-----------------------------------------------------------------------------
LEMMA StutterStep ==
    ASSUME CustodyInvariant, UNCHANGED vars
    PROVE  CustodyInvariant'
<1>1. /\ log' = log /\ mem' = mem /\ db' = db /\ todo' = todo /\ after' = after /\ up' = up
      /\ crashes' = crashes /\ used' = used /\ lost' = lost /\ missed' = missed
  BY DEF vars
<1>2. Types' /\ Quiet' /\ TablesFromLog' /\ MissedRows' /\ MemoryHeld'
  BY <1>1 DEF CustodyInvariant, Types, Quiet, TablesFromLog, Canon, MissedRows, MemoryHeld,
              OneHolder, Places
<1>3. HandlerEnds' /\ HandlerRuns' /\ BootFinds' /\ ShopStopped'
  BY <1>1 DEF CustodyInvariant, HandlerEnds, HandlerRuns, Written, Unwritten, BootFinds, Canon,
              ShopStopped, ShopRunning, Away
<1>. QED
  BY <1>2, <1>3 DEF CustodyInvariant

(* The invariant behind the theorems below, in every reachable state: the     *)
(* tables are the replay of the log but for the items that a caught error of  *)
(* the HTTP shop left in the log alone, and those have their row in it.       *)
LEMMA CustodyInvariantHolds == Spec => []CustodyInvariant
<1>1. ASSUME CustodyInvariant, [Next]_vars PROVE CustodyInvariant'
  <2>1. ASSUME NEW p \in Players, NEW i \in Items,
               \/ MintItem(p, i) \/ BuyFromShop(p, i) \/ SpawnLoot(p, i)
               \/ DropItem(p, i) \/ PickUp(p, i) \/ Protect(p, i)
               \/ StoreInHouse(p, i) \/ RetrieveFromHouse(p, i) \/ UseItem(p, i)
        PROVE  CustodyInvariant'
    BY <1>1, <2>1, MintItemStep, BuyFromShopStep, SpawnLootStep, DropItemStep, PickUpStep,
       ProtectStep, StoreStep, RetrieveStep, UseItemStep
  <2>2. ASSUME NEW p \in Players, NEW I \in SUBSET Items, DeathDrop(p, I)
        PROVE  CustodyInvariant'
    BY <1>1, <2>2, DeathDropStep
  <2>3. ASSUME NEW i \in Items, Decay(i) PROVE CustodyInvariant'
    BY <1>1, <2>3, DecayStep
  <2>4. CASE WriteReceipt \/ Crash \/ CrashAfterFsync \/ RouteCatches \/ Boot
    BY <1>1, <2>4, WriteStep, CrashStep, CrashAfterFsyncStep, RouteStep, BootStep
  <2>5. CASE UNCHANGED vars
    BY <1>1, <2>5, StutterStep
  <2>. QED
    BY <1>1, <2>1, <2>2, <2>3, <2>4, <2>5 DEF Next
<1>. QED
  BY <1>1, Initially, PTL DEF Spec

-----------------------------------------------------------------------------
(* The maps, the rows and the receipts have their types, and a slot number   *)
(* stands in a row that has an owner: handleInventorySlotChanged never       *)
(* brings back a row that another receipt deleted.                           *)
THEOREM CustodyTypes == Spec => []TypeOK
<1>1. CustodyInvariant => TypeOK
  <2>. SUFFICES ASSUME CustodyInvariant PROVE TypeOK
    OBVIOUS
  <2>1. Receipts \subseteq [action : Actions, player : Players \cup {None}, item : Items]
    BY DEF Receipts
  <2>2. /\ log \in Seq([action : Actions, player : Players \cup {None}, item : Items])
        /\ todo \in Seq([action : Actions, player : Players \cup {None}, item : Items])
    BY <2>1, SeqMonotonic DEF CustodyInvariant, Types
  <2>. QED
    BY <2>2 DEF TypeOK, CustodyInvariant, Types, TablesFromLog, SlotsOwned
<1>. QED
  BY <1>1, CustodyInvariantHolds, PTL

(* No handler, however it is cut, and no boot puts an item in two places,    *)
(* neither in the maps of index.ts nor in the tables behind them.            *)
THEOREM NoDuplicates == Spec => []NeverInTwoPlaces
<1>1. CustodyInvariant => NeverInTwoPlaces
  <2>1. SUFFICES ASSUME CustodyInvariant, NEW i \in Items
        PROVE  OneHolder(mem, i) /\ OneHolder(Loaded(db), i)
    BY DEF NeverInTwoPlaces, OneHolder
  <2>2. OneHolder(mem, i) /\ OnePlace(db, i)
    BY <2>1 DEF CustodyInvariant, MemoryHeld
  <2>3. /\ Loaded(db).owners[i] = {db.owner[i]} \ {None}
        /\ i \in Loaded(db).world <=> db.object[i] = "active"
        /\ i \in Loaded(db).house <=> i \in db.house
    BY DEF Loaded
  <2>. QED
    BY <2>2, <2>3 DEF OneHolder, Places, OnePlace
<1>. QED
  BY <1>1, CustodyInvariantHolds, PTL

(* Between handlers every item that a receipt names is somewhere, or decayed, *)
(* or used since the last boot, or in the log alone until the next boot, or   *)
(* lost: of a handler that a crash or a caught error tore, or loot that lay   *)
(* in the world at a restart.  No other item vanishes; what the lost ones do  *)
(* to G7 is OwnedItemsStaySomewhere, which the code does not keep.            *)
THEOREM NothingVanishes == Spec => []ItemsAccountedFor
<1>1. CustodyInvariant => ItemsAccountedFor
  <2>1. SUFFICES ASSUME CustodyInvariant, Idle, NEW i \in Items
        PROVE  \/ Fresh(i) \/ Places(mem, i) # {}
               \/ i \in used \/ i \in lost \/ i \in missed
               \/ InLog(log, i, {"world_object_removed"})
    BY DEF ItemsAccountedFor
  <2>2. ItemAgrees(db, mem, log, used, Away, i)
    BY <2>1, AtThisPoint DEF Idle, Agree
  <2>3. ~Named(log, i) => Fresh(i)
    <3>1. DOMAIN log = 1..Len(log)
      BY <2>1, LenProperties DEF CustodyInvariant, Types
    <3>. QED
      BY <3>1 DEF Named, Fresh
  <2>4. InTables(db, i) => Places(mem, i) # {} \/ i \in used
    BY <2>2 DEF ItemAgrees, InTables, Places
  <2>5. i \in mem.world => Places(mem, i) # {}
    BY DEF Places
  <2>. QED
    BY <2>2, <2>3, <2>4, <2>5 DEF ItemAgrees, Decayed, Away
<1>. QED
  BY <1>1, CustodyInvariantHolds, PTL

(* Between handlers the rows show what memory holds, so that a boot from them *)
(* gives it back, with two exceptions: an item used since the last boot still *)
(* has its row, and loot that nobody has picked up has none.                  *)
THEOREM RestartKeepsItems == Spec => []TablesShowMemory
<1>1. CustodyInvariant => TablesShowMemory
  <2>1. SUFFICES ASSUME CustodyInvariant, Idle
        PROVE  /\ \A i \in Items \ used : Loaded(db).owners[i] = mem.owners[i]
               /\ Loaded(db).world = mem.world \ Loose(log, mem)
               /\ Loaded(db).house = mem.house
               /\ Loaded(db).shield = mem.shield
    BY DEF TablesShowMemory
  <2>2. (\A i \in Items : ItemAgrees(db, mem, log, used, Away, i)) /\ ShieldsAgree(db, mem)
    BY <2>1, AtThisPoint DEF Idle, Agree
  <2>3. mem \in Memory /\ db \in Tables
    BY <2>1 DEF CustodyInvariant, Types
  <2>4. ASSUME NEW i \in Items \ used PROVE Loaded(db).owners[i] = mem.owners[i]
    BY <2>2 DEF ItemAgrees, Loaded
  <2>5. Loaded(db).world = mem.world \ Loose(log, mem)
    BY <2>2, <2>3 DEF ItemAgrees, Handed, Loaded, Loose, Memory
  <2>6. Loaded(db).house = mem.house
    BY <2>2, <2>3 DEF ItemAgrees, Loaded, Memory, Tables
  <2>7. Loaded(db).shield = mem.shield
    <3>. DEFINE kept(p) == IF \E i \in Items : db.owner[i] = p /\ db.slot[i]
                           THEN CHOOSE i \in Items : db.owner[i] = p /\ db.slot[i] ELSE None
    <3>1. ASSUME NEW p \in Players PROVE kept(p) = mem.shield[p]
      <4>1. CASE \E i \in Items : db.owner[i] = p /\ db.slot[i]
        <5>1. PICK k \in Items : k = kept(p) /\ db.owner[k] = p /\ db.slot[k]
          BY <4>1
        <5>. HIDE DEF kept
        <5>. QED
          BY <2>2, <5>1 DEF ShieldsAgree
      <4>2. CASE ~\E i \in Items : db.owner[i] = p /\ db.slot[i]
        <5>1. mem.shield[p] \notin Items
          BY <2>2, <4>2 DEF ShieldsAgree
        <5>2. mem.shield[p] = None
          BY <2>3, <5>1 DEF Memory
        <5>. QED
          BY <4>2, <5>2
      <4>. QED
        BY <4>1, <4>2
    <3>2. Loaded(db).shield = [p \in Players |-> kept(p)]
      BY DEF Loaded
    <3>. HIDE DEF kept
    <3>. QED
      BY <2>3, <3>1, <3>2 DEF Memory
  <2>. QED
    BY <2>4, <2>5, <2>6, <2>7
<1>. QED
  BY <1>1, CustodyInvariantHolds, PTL

(* The replay of a boot leaves the rows of every item as a running process    *)
(* has them, and builds the same rows from empty tables; it gives an item     *)
(* whose receipt a caught error kept from the tables its missing row.         *)
THEOREM ReplayRebuildsItems == Spec => []ReplayRebuilds
<1>1. CustodyInvariant => ReplayRebuilds
  <2>1. SUFFICES ASSUME CustodyInvariant, up, NEW i \in Items, NEW t \in {db, NoTables}
        PROVE  IF i \in missed THEN db.owner[i] = None /\ Rematerialized(t).owner[i] # None
               ELSE RowsOf(Rematerialized(t), i) = RowsOf(db, i)
    BY DEF ReplayRebuilds
  <2>2. db \in Tables /\ log \in Seq(Receipts) /\ Blank(db, log)
    BY <2>1 DEF CustodyInvariant, Types, TablesFromLog
  <2>3. Rematerialized(t) = Canon
    <3>1. Blank(t, log) /\ t \in Tables
      BY <2>2, NoTablesBlank
    <3>2. Replay(t, log) = Canon
      BY <2>2, <3>1, ReplayOverBlank DEF Canon
    <3>. QED
      BY <3>2 DEF Rematerialized, Replay
  <2>4. CASE i \in missed
    BY <2>1, <2>3, <2>4 DEF CustodyInvariant, MissedRows, InTables
  <2>5. CASE i \notin missed
    <3>1. SameRows(db, Canon, i)
      BY <2>1, <2>5 DEF CustodyInvariant, TablesFromLog
    <3>. QED
      BY <2>3, <2>5, <3>1 DEF SameRows, RowsOf
  <2>. QED
    BY <2>4, <2>5
<1>. QED
  BY <1>1, CustodyInvariantHolds, PTL

(* A protected item stays with its player until the player stores or drops   *)
(* it, which ends the protection, or uses it, which does not; and a player    *)
(* has one at most.                                                           *)
THEOREM ProtectionHolds == Spec => []ProtectedStays
<1>1. CustodyInvariant => ProtectedStays
  BY DEF CustodyInvariant, MemoryHeld, TablesFromLog, SlotsOwned, ProtectedStays
<1>. QED
  BY <1>1, CustodyInvariantHolds, PTL

=============================================================================
