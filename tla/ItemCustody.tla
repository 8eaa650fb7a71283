----------------------------- MODULE ItemCustody -----------------------------
(***************************************************************************)
(* Where every item is: in a player's inventory, in the world or in a      *)
(* house, in the maps of index.ts and in the tables behind them.           *)
(*                                                                         *)
(* A handler checks memory once, writes its receipts one after the other   *)
(* (each is fsynced and materialized before the next) and changes memory   *)
(* last.  The process may die between two receipts, and between fsync and  *)
(* materialization; a purchase over HTTP survives an error at any of its   *)
(* writes.  A boot materializes the whole log over the tables again (see   *)
(* HouseDurable) and loads memory from the rows.                           *)
(*                                                                         *)
(* Item ids are derived from mint receipts and never repeat; a purchase is *)
(* known by the item it promises from its debit on.  Zones, tiles, item    *)
(* types and heat are left out; who owns the house is the market's affair, *)
(* so any player may be inside as its owner.                               *)
(***************************************************************************)
EXTENDS Integers, Sequences, SequencesExt

CONSTANTS
    Players,        \* player ids
    Items,          \* the item ids that mint receipts can produce
    None,           \* no player, no item
    MaxReceipts,    \* bound on the log
    MaxCrashes      \* bound on crashes and caught errors

ASSUME CustodyAssumption ==
    /\ None \notin Players /\ None \notin Items
    /\ MaxReceipts \in Nat /\ MaxCrashes \in Nat

VARIABLES
    log,        \* receipts.jsonl
    mem,        \* inventory, worldItems, houseStorage and protectedByPlayerId
    db,         \* inventory_items, world_objects and house_storage
    todo,       \* the receipts the running handler has yet to write
    after,      \* memory once it has written them
    up,         \* the process runs
    crashes,    \* auxiliary: crashes and caught errors so far
    used,       \* auxiliary: items used since the last boot
    lost,       \* auxiliary: items of a torn handler, and loot no table knew of
    missed      \* auxiliary: items added in the log and not in the tables since the last boot

vars == <<log, mem, db, todo, after, up, crashes, used, lost, missed>>

(* owners[i] is a set: inventory maps players to sets of items. *)
Memory == [owners : [Items -> SUBSET Players], world : SUBSET Items, house : SUBSET Items,
           shield : [Players -> Items \cup {None}]]

ObjectStatus == {"none", "active", "picked_up", "decayed"}
Tables == [owner : [Items -> Players \cup {None}], slot : [Items -> BOOLEAN],
           object : [Items -> ObjectStatus], house : SUBSET Items]

NoMemory == [owners |-> [i \in Items |-> {}], world |-> {}, house |-> {},
             shield |-> [p \in Players |-> None]]
NoTables == [owner |-> [i \in Items |-> None], slot |-> [i \in Items |-> FALSE],
             object |-> [i \in Items |-> "none"], house |-> {}]

Actions == {"wallet_debit", "item_minted", "item_added", "item_removed", "item_dropped",
            "item_picked_up", "world_object_removed", "house_item_stored",
            "house_item_retrieved", "inventory_slot_changed", "item_used"}
Receipt(action, p, i) == [action |-> action, player |-> p, item |-> i]

-----------------------------------------------------------------------------
(* Materializers *)

RowDeleted_LeavesSlot(t, i) == [t EXCEPT !.owner[i] = None]

RowDeleted(t, i) == [t EXCEPT !.owner[i] = None, !.slot[i] = FALSE]

(* handleItemAddedToInventory *)
Added(t, p, i) ==
    [t EXCEPT !.owner[i] = p, !.slot[i] = FALSE,
              !.object[i] = IF @ = "active" THEN "picked_up" ELSE @]

Dropped_InsertOnly(t, i) ==
    [RowDeleted(t, i) EXCEPT !.object[i] = IF @ = "none" THEN "active" ELSE @]

(* handleItemDroppedToWorld *)
Dropped(t, i) == [RowDeleted(t, i) EXCEPT !.object[i] = "active"]

(* Updates of world_objects that find no row do nothing. *)
ObjectUpdated(t, i, status) ==
    [t EXCEPT !.object[i] = IF @ = "none" THEN @ ELSE status]

Retrieved_LeavesRow(t, i) == t

(* handleHouseItemRetrieved *)
Retrieved(t, i) == [t EXCEPT !.house = @ \ {i}]

(* handleInventorySlotChanged: any other slot of the player is cleared. *)
SlotChanged(t, p, i) ==
    [t EXCEPT !.slot = [j \in Items |-> IF t.owner[j] = p THEN j = i ELSE @[j]]]

Materialize(t, r) ==
    CASE r.action = "item_added"             -> Added(t, r.player, r.item)
      [] r.action = "item_removed"           -> RowDeleted(t, r.item)
      [] r.action = "item_dropped"           -> Dropped(t, r.item)
      [] r.action = "item_picked_up"         -> ObjectUpdated(t, r.item, "picked_up")
      [] r.action = "world_object_removed"   -> ObjectUpdated(t, r.item, "decayed")
      [] r.action = "house_item_stored"      -> [t EXCEPT !.house = @ \cup {r.item}]
      [] r.action = "house_item_retrieved"   -> Retrieved(t, r.item)
      [] r.action = "inventory_slot_changed" -> SlotChanged(t, r.player, r.item)
      [] OTHER -> t

Rematerialized_LastLineUnread(t) == IF log = <<>> THEN t ELSE FoldLeft(Materialize, t, Front(log))

Rematerialized(t) == FoldLeft(Materialize, t, log)

(* loadInventories, loadWorldItems and the protected slots *)
Loaded(t) ==
    [owners |-> [i \in Items |-> {t.owner[i]} \ {None}],
     world |-> {i \in Items : t.object[i] = "active"},
     house |-> t.house,
     shield |-> [p \in Players |->
         IF \E i \in Items : t.owner[i] = p /\ t.slot[i]
         THEN CHOOSE i \in Items : t.owner[i] = p /\ t.slot[i] ELSE None]]

-----------------------------------------------------------------------------
(* What the handlers do to memory *)

Has(p, i) == p \in mem.owners[i]

Given(m, p, i) == [m EXCEPT !.owners[i] = @ \cup {p}]

Unshielded_Forgotten(m, p, I) == m

(* A protected item that leaves is protected no longer. *)
Unshielded(m, p, I) == IF m.shield[p] \in I THEN [m EXCEPT !.shield[p] = None] ELSE m

Taken(m, p, I) ==
    [m EXCEPT !.owners = [i \in Items |-> IF i \in I THEN @[i] \ {p} ELSE @[i]]]

ShopReceipts(p, i) ==
    <<Receipt("wallet_debit", p, i), Receipt("item_minted", p, i), Receipt("item_added", p, i)>>

DropReceipts(p, i) == <<Receipt("item_removed", p, i), Receipt("item_dropped", p, i)>>

Droppable_Anything(p) == {i \in Items : Has(p, i)}

(* computeDeathDrops never selects the protected item. *)
Droppable(p) == {i \in Items : Has(p, i) /\ i # mem.shield[p]}

Fresh(i) == \A n \in 1..Len(log) : log[n].item # i

Init ==
    /\ log = <<>> /\ mem = NoMemory /\ db = NoTables
    /\ todo = <<>> /\ after = NoMemory
    /\ up = TRUE /\ crashes = 0
    /\ used = {} /\ lost = {} /\ missed = {}

Idle == up /\ todo = <<>>

Handle(receipts, m) ==
    /\ Idle
    /\ Len(log) + Len(receipts) <= MaxReceipts
    /\ todo' = receipts /\ after' = m
    /\ UNCHANGED <<log, mem, db, up, crashes, lost, missed>>

(* mintStarterKit, mintLegendaryItem, mintItemToInventory: one item of them *)
MintItem(p, i) ==
    /\ Fresh(i)
    /\ Handle(<<Receipt("item_minted", p, i), Receipt("item_added", p, i)>>, Given(mem, p, i))
    /\ UNCHANGED used

(* shop: on the socket and over HTTP *)
BuyFromShop(p, i) ==
    /\ Fresh(i)
    /\ Handle(ShopReceipts(p, i), Given(mem, p, i))
    /\ UNCHANGED used

(* A kill: spawnMobLoot mints the item, and only memory knows where it lies. *)
SpawnLoot(p, i) ==
    /\ Fresh(i)
    /\ Handle(<<Receipt("item_minted", p, i)>>, [mem EXCEPT !.world = @ \cup {i}])
    /\ UNCHANGED used

(* handleDropItem *)
DropItem(p, i) ==
    /\ Has(p, i)
    /\ Handle(DropReceipts(p, i),
              [Unshielded(Taken(mem, p, {i}), p, {i}) EXCEPT !.world = @ \cup {i}])
    /\ UNCHANGED used

(* handlePickupItem *)
PickUp(p, i) ==
    /\ i \in mem.world
    /\ Handle(<<Receipt("item_picked_up", p, i), Receipt("item_added", p, i)>>,
              [Given(mem, p, i) EXCEPT !.world = @ \ {i}])
    /\ UNCHANGED used

(* decayTick, for an item whose time has come *)
Decay(i) ==
    /\ i \in mem.world
    /\ Handle(<<Receipt("world_object_removed", None, i)>>, [mem EXCEPT !.world = @ \ {i}])
    /\ UNCHANGED used

(* A player dies in combat and drops items, two receipts for each. *)
DeathDrop(p, I) ==
    /\ I # {} /\ I \subseteq Droppable(p)
    /\ \E order \in SetToSeqs(I) :
           Handle(FlattenSeq([n \in DOMAIN order |-> DropReceipts(p, order[n])]),
                  [Taken(mem, p, I) EXCEPT !.world = @ \cup I])
    /\ UNCHANGED used

(* set_protected_slot *)
Protect(p, i) ==
    /\ Has(p, i)
    /\ Handle(<<Receipt("inventory_slot_changed", p, i)>>, [mem EXCEPT !.shield[p] = i])
    /\ UNCHANGED used

(* house:store *)
StoreInHouse(p, i) ==
    /\ Has(p, i)
    /\ Handle(<<Receipt("item_removed", p, i), Receipt("house_item_stored", p, i)>>,
              [Unshielded(Taken(mem, p, {i}), p, {i}) EXCEPT !.house = @ \cup {i}])
    /\ UNCHANGED used

(* house:retrieve *)
RetrieveFromHouse(p, i) ==
    /\ i \in mem.house
    /\ Handle(<<Receipt("house_item_retrieved", p, i), Receipt("item_added", p, i)>>,
              [Given(mem, p, i) EXCEPT !.house = @ \ {i}])
    /\ UNCHANGED used

(* item:use takes the item from memory only: no table has a handler for its  *)
(* receipt, and the protected slot keeps pointing at it.                     *)
UseItem(p, i) ==
    /\ Has(p, i)
    /\ Handle(<<Receipt("item_used", p, i)>>, Taken(mem, p, {i}))
    /\ used' = used \cup {i}

-----------------------------------------------------------------------------
(* audit.write *)
WriteReceipt ==
    /\ up /\ todo # <<>>
    /\ log' = Append(log, Head(todo))
    /\ db' = Materialize(db, Head(todo))
    /\ todo' = Tail(todo)
    /\ mem' = IF Tail(todo) = <<>> THEN after ELSE mem
    /\ UNCHANGED <<after, up, crashes, used, lost, missed>>

InLog(l, i, actions) == \E n \in DOMAIN l : l[n].item = i /\ l[n].action \in actions

(* The item whose move is cut when the receipts in rest are never written. *)
Torn(l, rest) ==
    IF /\ rest # <<>>
       /\ \/ Head(rest).action \in {"item_added", "item_dropped", "house_item_stored"}
          \/ Head(rest).action = "item_minted" /\ InLog(l, Head(rest).item, {"wallet_debit"})
    THEN {Head(rest).item} ELSE {}

(* Loot nobody has picked up yet is in memory only. *)
Loose(l, m) == {i \in m.world : ~InLog(l, i, {"item_added"})}

(* The item whose row a receipt would have written. *)
Missed(r) == IF r.action = "item_added" THEN {r.item} ELSE {}

(* Memory and the running handler end with the process; the rows stay. *)
Down ==
    /\ up /\ crashes < MaxCrashes
    /\ up' = FALSE /\ crashes' = crashes + 1
    /\ mem' = NoMemory /\ after' = NoMemory /\ todo' = <<>>
    /\ used' = {} /\ missed' = {}
    /\ UNCHANGED db

(* The process dies between two receipts, or while it waits. *)
Crash ==
    /\ Down
    /\ lost' = lost \cup Torn(log, todo) \cup Loose(log, mem)
    /\ UNCHANGED log

(* The process dies when a receipt is durable and not yet materialized. *)
CrashAfterFsync ==
    /\ todo # <<>>
    /\ Down
    /\ log' = Append(log, Head(todo))
    /\ lost' = lost \cup Torn(log', Tail(todo)) \cup Loose(log', mem) \cup Loose(log', after)

(* A write of the HTTP shop throws: the request gets a 500, memory keeps what *)
(* it had, and the process goes on.  writeSync leaves no receipt; fsyncSync   *)
(* and persist.materialize throw when it is in the log, and no table gets it. *)
RouteCatches ==
    /\ up /\ todo # <<>> /\ crashes < MaxCrashes
    /\ \E p \in Players, i \in Items : IsSuffix(ShopReceipts(p, i), log \o todo)
    /\ \/ /\ lost' = lost \cup Torn(log, todo)
          /\ UNCHANGED <<log, missed>>
       \/ /\ log' = Append(log, Head(todo))
          /\ lost' = lost \cup Torn(log', Tail(todo))
          /\ missed' = missed \cup Missed(Head(todo))
    /\ crashes' = crashes + 1
    /\ todo' = <<>> /\ after' = mem
    /\ UNCHANGED <<mem, db, up, used>>

Boot ==
    /\ ~up
    /\ up' = TRUE
    /\ db' = Rematerialized(db)
    /\ mem' = Loaded(Rematerialized(db)) /\ after' = mem'
    /\ UNCHANGED <<log, todo, crashes, used, lost, missed>>

Next ==
    \/ \E p \in Players, i \in Items :
           \/ MintItem(p, i) \/ BuyFromShop(p, i) \/ SpawnLoot(p, i)
           \/ DropItem(p, i) \/ PickUp(p, i) \/ Protect(p, i)
           \/ StoreInHouse(p, i) \/ RetrieveFromHouse(p, i) \/ UseItem(p, i)
    \/ \E p \in Players, I \in SUBSET Items : DeathDrop(p, I)
    \/ \E i \in Items : Decay(i)
    \/ WriteReceipt \/ Crash \/ CrashAfterFsync \/ RouteCatches \/ Boot

Spec == Init /\ [][Next]_vars

-----------------------------------------------------------------------------
(* The types; a slot belongs to a row of inventory_items. *)
TypeOK ==
    /\ mem \in Memory /\ after \in Memory
    /\ db \in Tables
    /\ \A i \in Items : db.slot[i] => db.owner[i] # None
    /\ log \in Seq([action : Actions, player : Players \cup {None}, item : Items])
    /\ todo \in Seq([action : Actions, player : Players \cup {None}, item : Items])
    /\ up \in BOOLEAN /\ crashes \in 0..MaxCrashes
    /\ used \subseteq Items /\ lost \subseteq Items /\ missed \subseteq Items

(* The places of an item; two of them would be a duplicate. *)
Places(m, i) == m.owners[i] \cup (IF i \in m.world THEN {"world"} ELSE {})
                            \cup (IF i \in m.house THEN {"house"} ELSE {})

(* No item is ever in two places, in memory or in the tables, in the middle   *)
(* of a handler or after a crash: the second half of CIVIL_GUARANTEES G7, "An *)
(* item exists in exactly one place: inventory XOR world (never both)".       *)
NeverInTwoPlaces ==
    \A i \in Items, m \in {mem, Loaded(db)} :
        \A x, y \in Places(m, i) : x = y

(* What is left of the first half: every item that was minted or paid for is *)
(* somewhere, unless it decayed, was used, waits for a boot in the log alone, *)
(* or was lost in one of the two ways the handlers leave open: a handler cut  *)
(* between its receipts, or loot still lying at a restart.                    *)
ItemsAccountedFor ==
    Idle => \A i \in Items :
        \/ Fresh(i) \/ Places(mem, i) # {}
        \/ i \in used \/ i \in lost \/ i \in missed
        \/ InLog(log, i, {"world_object_removed"})

(* G7's "exactly one place", of an item somebody had, used up or decayed ones *)
(* apart.  The code does not keep it.                                         *)
OwnedItemsStaySomewhere ==
    Idle => \A i \in Items :
        InLog(log, i, {"item_added"}) /\ i \notin missed
          => \/ Places(mem, i) # {} \/ i \in used
             \/ InLog(log, i, {"world_object_removed"})

(* Between handlers the tables show what memory holds, protected slots       *)
(* included, but for used items and loot: a restart changes nothing else.    *)
TablesShowMemory ==
    LET t == Loaded(db) IN
    Idle =>
        /\ \A i \in Items \ used : t.owners[i] = mem.owners[i]
        /\ t.world = mem.world \ Loose(log, mem)
        /\ t.house = mem.house
        /\ t.shield = mem.shield

(* What the tables hold of an item. *)
RowsOf(t, i) == <<t.owner[i], t.slot[i], t.object[i], i \in t.house>>

(* The replay of a boot finds the tables as they are, and would rebuild them *)
(* from nothing (CIVIL_GUARANTEES G4 and G5), item by item; an item whose    *)
(* receipt a caught failure kept from the tables gets its row then.          *)
ReplayRebuilds ==
    up => \A i \in Items, t \in {db, NoTables} :
        IF i \in missed THEN db.owner[i] = None /\ Rematerialized(t).owner[i] # None
        ELSE RowsOf(Rematerialized(t), i) = RowsOf(db, i)

(* A player protects one item at most, and it stays with its player until    *)
(* the player uses it, drops it or stores it (CIVIL_GUARANTEES G13).         *)
ProtectedStays ==
    \A p \in Players :
        /\ mem.shield[p] \in used \cup {None} \/ p \in mem.owners[mem.shield[p]]
        /\ \A i, j \in Items : db.slot[i] /\ db.slot[j] /\ db.owner[i] = p /\ db.owner[j] = p => i = j

=============================================================================
