----------------------------- MODULE HouseDurable -----------------------------
(***************************************************************************)
(* One house of the market and the wallets around it, receipt by receipt:  *)
(* a handler checks the projections once and then writes its receipts one  *)
(* after the other; each is fsynced to receipts.jsonl, applied to the      *)
(* projections and written through to SQLite.  The process may die before  *)
(* any receipt, and between the fsync of one and the rest; a write may     *)
(* also throw at three places, which an HTTP route survives.  At boot      *)
(* replayReceipts folds the log into the projections and materializes all  *)
(* of it over the tables again: the marker it writes never matches the     *)
(* tables later, since the server_boot receipt is materialized before any  *)
(* handler runs.  loadPropertiesAndSeed then overrides the house by its    *)
(* row, and its auction by the row of an open one.                         *)
(*                                                                         *)
(* The log starts after the grants that give every player InitialGold and  *)
(* the receipt that creates the house.  An auction may be due at any       *)
(* moment: close times are at least a minute apart from everything else.   *)
(***************************************************************************)
EXTENDS HouseReceipts

CONSTANTS
    InitialGold,    \* what each player was granted before
    PrimaryPrice,   \* primary_price_gold of the house
    Terms,          \* the listing prices and auction terms players choose from
    Bids,           \* the bids they choose from
    MaxReceipts,    \* bound on the log
    MaxCrashes      \* bound on crashes and caught errors

ASSUME DurableAssumption ==
    /\ IsFiniteSet(Players) /\ NoPlayer \notin Players
    /\ Terms \subseteq Nat \ {0} /\ Bids \subseteq Nat \ {0}
    /\ PrimaryPrice \in Nat \ {0}
    /\ InitialGold \in Nat /\ MaxReceipts \in Nat /\ MaxCrashes \in Nat

VARIABLES
    log,        \* receipts.jsonl
    gold,       \* goldBalanceByPlayer
    house,      \* the house in propertyById and auctionByPropertyId
    db,         \* the rows of the house in properties and property_auctions
    up,         \* the process runs
    todo,       \* the receipts the running handler has yet to write
    begun,      \* auxiliary: the running handler has written some already
    overlapped, \* auxiliary: the house was listed or unlisted with its auction open
    torn,       \* auxiliary: some handler's receipts were cut in two, or one never applied
    survived,   \* auxiliary: stages at which a write threw and was caught
    crashes     \* auxiliary: crashes and caught errors so far

vars == <<log, gold, house, db, up, todo, begun, overlapped, torn, survived, crashes>>

aux == <<overlapped, torn, survived, crashes>>

IsOpen == house.auction.status = "open"

CanAfford_Anything(p, n) == TRUE

CanAfford(p, n) == gold[p] >= n

Init ==
    /\ log = <<>>
    /\ gold = [p \in Players |-> InitialGold]
    /\ house = NewHouse /\ db = NewHouse
    /\ up = TRUE /\ todo = <<>> /\ begun = FALSE
    /\ overlapped = FALSE /\ torn = FALSE /\ survived = {} /\ crashes = 0

-----------------------------------------------------------------------------
(* Handlers: the checks, and the receipts they decide to write. *)

Idle == up /\ todo = <<>>

Handle(receipts) ==
    /\ Idle
    /\ Len(log) + Len(receipts) <= MaxReceipts
    /\ todo' = receipts
    /\ begun' = FALSE
    /\ UNCHANGED <<log, gold, house, db, up>>

BuyPrimary(p) ==
    /\ house.row.status = "unowned"
    /\ CanAfford(p, PrimaryPrice)
    /\ Handle(<<Debit(p, PrimaryPrice), Purchased(p)>>)
    /\ UNCHANGED aux

BuyListed(p) ==
    LET price == house.row.listed
        owner == house.row.owner
    IN  /\ house.row.status = "listed" /\ price # 0
        /\ owner \notin {p, NoPlayer}
        /\ CanAfford(p, price)
        /\ Handle(<<Debit(p, price), Credit(owner, price), Transferred(p, owner)>>)
        /\ UNCHANGED aux

ListHouse(p, price) ==
    /\ house.row.owner = p
    /\ Handle(<<Listed(p, price)>>)
    /\ overlapped' = (overlapped \/ IsOpen)
    /\ UNCHANGED <<torn, survived, crashes>>

UnlistHouse(p) ==
    /\ house.row.owner = p
    /\ Handle(<<Unlisted(p)>>)
    /\ overlapped' = (overlapped \/ IsOpen)
    /\ UNCHANGED <<torn, survived, crashes>>

(* The handler looks at the status of the house, not at its auction. *)
OpenAuction(p, minBid, increment) ==
    /\ house.row.owner = p
    /\ house.row.status = "owned"
    /\ Handle(<<Opened(p, minBid, increment)>>)
    /\ UNCHANGED aux

PlaceBid(p, n) ==
    LET a == house.auction
        refund == IF a.bidder = NoPlayer THEN <<>> ELSE <<Credit(a.bidder, a.high)>>
    IN  /\ IsOpen
        /\ a.seller # p
        /\ n >= MinNextBid(a)
        /\ CanAfford(p, n)
        /\ Handle(<<Debit(p, n)>> \o refund \o <<Bid(p, n)>>)
        /\ UNCHANGED aux

CancelAuction(p) ==
    /\ IsOpen
    /\ house.auction.seller = p /\ house.auction.high = 0
    /\ Handle(<<Cancelled(p)>>)
    /\ UNCHANGED aux

(* settleDueAuctions, once the close has passed. *)
Settle ==
    LET a == house.auction
        release == IF a.bidder = NoPlayer THEN <<>> ELSE <<Credit(a.seller, a.high)>>
    IN  /\ IsOpen
        /\ Handle(release \o <<Settled(a.bidder, a.seller, a.high)>>)
        /\ UNCHANGED aux

-----------------------------------------------------------------------------
(* audit.write: append and fsync, then reducers, then the tables. *)
WriteReceipt ==
    /\ up /\ todo # <<>>
    /\ log' = Append(log, Head(todo))
    /\ gold' = TreasuryReducer(gold, Head(todo))
    /\ house' = PropertyReducer(house, Head(todo))
    /\ db' = Materialize(db, Head(todo))
    /\ todo' = Tail(todo)
    /\ begun' = (Tail(todo) # <<>>)
    /\ UNCHANGED <<up, aux>>

(* The projections and the running handler end with the process. *)
Down ==
    /\ up /\ crashes < MaxCrashes
    /\ up' = FALSE
    /\ gold' = [p \in Players |-> 0]
    /\ house' = NewHouse
    /\ todo' = <<>>
    /\ begun' = FALSE
    /\ crashes' = crashes + 1
    /\ UNCHANGED <<db, overlapped, survived>>

(* The process dies between two receipts, or while it waits. *)
Crash ==
    /\ Down
    /\ torn' = (torn \/ begun)
    /\ UNCHANGED log

(* The process dies when a receipt is durable and not yet materialized. *)
CrashAfterFsync ==
    /\ Down
    /\ todo # <<>>
    /\ log' = Append(log, Head(todo))
    /\ torn' = (torn \/ Len(todo) > 1)

(* What the HTTP routes of the market write; its listings ask for the status *)
(* the messages do not look at.                                              *)
FromRoute(r) ==
    \/ r.action \in {"property_purchased", "property_transferred"}
    \/ r.action = "property_listed" /\ house.row.status # "listed"
    \/ r.action = "property_unlisted" /\ house.row.status = "listed"

(* A write of a request that came over HTTP throws: it gets a 500, what was  *)
(* written before stays, and the process goes on.  The same error on a       *)
(* message or in the tick is uncaught, and a Crash.                          *)
Caught ==
    /\ up /\ todo # <<>>
    /\ FromRoute(Last(todo))
    /\ crashes < MaxCrashes
    /\ crashes' = crashes + 1
    /\ todo' = <<>> /\ begun' = FALSE
    /\ UNCHANGED <<db, up, overlapped>>

(* writeSync throws (a full disk): the receipt is nowhere. *)
AppendThrows ==
    /\ torn' = (torn \/ begun)
    /\ UNCHANGED <<log, gold, house, survived>>

(* fsyncSync throws when the line is in the file: only the log has the receipt. *)
FsyncThrows ==
    /\ log' = Append(log, Head(todo))
    /\ torn' = TRUE
    /\ survived' = survived \cup {"written"}
    /\ UNCHANGED <<gold, house>>

(* persist.materialize throws: the tables alone do not have the receipt. *)
MaterializeThrows ==
    /\ log' = Append(log, Head(todo))
    /\ gold' = TreasuryReducer(gold, Head(todo))
    /\ house' = PropertyReducer(house, Head(todo))
    /\ torn' = (torn \/ Len(todo) > 1)
    /\ survived' = survived \cup {"projected"}

RouteCatches == Caught /\ (AppendThrows \/ FsyncThrows \/ MaterializeThrows)

(* loadPropertiesAndSeed: rows win over the projections. *)
Hydrated(h, d) ==
    [row |-> d.row, auction |-> IF d.auction.status = "open" THEN d.auction ELSE h.auction]

Boot ==
    /\ ~up
    /\ up' = TRUE
    /\ gold' = ReplayedGold([p \in Players |-> InitialGold], log)
    /\ db' = Rematerialized(db, log)
    /\ house' = Hydrated(ReplayedHouse(log), db')
    /\ survived' = survived \ {"projected"}
    /\ UNCHANGED <<log, todo, begun, overlapped, torn, crashes>>

Next ==
    \/ \E p \in Players : BuyPrimary(p) \/ BuyListed(p) \/ UnlistHouse(p) \/ CancelAuction(p)
    \/ \E p \in Players, price \in Terms : ListHouse(p, price)
    \/ \E p \in Players, minBid, increment \in Terms : OpenAuction(p, minBid, increment)
    \/ \E p \in Players, n \in Bids : PlaceBid(p, n)
    \/ Settle
    \/ WriteReceipt \/ RouteCatches \/ Crash \/ CrashAfterFsync \/ Boot

Spec == Init /\ [][Next]_vars

-----------------------------------------------------------------------------
(* What must hold *)

TypeOK ==
    /\ gold \in [Players -> Nat]
    /\ \A row \in {house.row, db.row} :
         /\ row.owner \in Players \cup {NoPlayer}
         /\ row.status = "listed" => row.listed # 0
    /\ (todo # <<>> => up) /\ (begun => todo # <<>>)
    /\ survived \subseteq {"written", "projected"}

(* A house without its sale count, which replays do not keep. *)
Visible(h) ==
    [owner |-> h.row.owner, status |-> h.row.status, listed |-> h.row.listed,
     openAuction |-> IF h.auction.status = "open" THEN h.auction ELSE NewHouse.auction]

(* The tables show the house the projections show, after every handler and  *)
(* after every boot, as long as nobody listed or unlisted it during an open  *)
(* auction and no write threw behind a caller that caught: two sets of       *)
(* guards, one house.  A caught failure of the tables alone is over at the   *)
(* next boot.                                                                *)
MirrorShowsTheHouse ==
    Idle /\ ~overlapped /\ survived = {} => Visible(db) = Visible(house)

(* What runs is the house of the receipts, and loading the rows over it at a *)
(* boot is no change, also when the tables had missed a receipt; unless a    *)
(* receipt is in the log that memory never saw.                              *)
HydrationIsReplay ==
    up /\ ~overlapped /\ "written" \notin survived
      => Visible(house) = Visible(ReplayedHouse(log))

(* The claim without the first exception.  The code does not keep it. *)
HydrationIsAlwaysReplay ==
    up /\ "written" \notin survived => Visible(house) = Visible(ReplayedHouse(log))

(* Grants and credits less debits, over a whole log. *)
Balance(p) ==
    InitialGold
      + FoldLeft(LAMBDA sum, r :
                   CASE r.action = "wallet_credit" /\ r.actor = p -> sum + r.amount
                     [] r.action = "wallet_debit" /\ r.actor = p -> sum - r.amount
                     [] OTHER -> sum, 0, log)

(* Gold outlives the process: a boot leaves every balance at what the log    *)
(* before the crash had made it, and so no debit is ever refused by the      *)
(* reducer that applied it in an earlier life; unless a receipt is in the    *)
(* log that no balance ever counted.                                         *)
EveryDebitCounts ==
    Idle /\ "written" \notin survived => \A p \in Players : gold[p] = Balance(p)

(* Coins in wallets and in the standing bid. *)
GoldHeld ==
    FoldFunction(LAMBDA n, sum : n + sum, 0, gold)
      + (IF IsOpen THEN house.auction.high ELSE 0)

(* Coins granted and not spent on the primary sale. *)
GoldInCirculation ==
    InitialGold * Cardinality(Players)
      - (IF house.row.owner = NoPlayer THEN 0 ELSE PrimaryPrice)

(* Every coin in circulation is in a wallet or in the standing bid, also     *)
(* after restarts that bring the standing bid back from the tables, unless a *)
(* failure cut a handler's receipts in two, a receipt is in the log that     *)
(* memory never saw, or the house was listed or unlisted with its auction    *)
(* open.                                                                     *)
EscrowSurvivesRestart ==
    Idle /\ ~torn /\ ~overlapped => GoldHeld = GoldInCirculation

(* No crash makes gold: a settlement cut short is not paid out again.  The   *)
(* code does not keep it.                                                    *)
NoGoldMinted == Idle => GoldHeld <= GoldInCirculation

(* Whom a receipt makes the owner. *)
Buyer(r) ==
    CASE r.action \in {"property_purchased", "property_transferred"} -> r.actor
      [] r.action = "property_auction_settled" -> r.winner
      [] OTHER -> NoPlayer

(* Somebody who had sold the house has bought it again. *)
CameBack ==
    \E m, n \in DOMAIN log : m < n /\ Buyer(log[m]) = Buyer(log[n]) /\ Buyer(log[n]) # NoPlayer

(* The sale count is guarded by the owner predicate, so that materializing a *)
(* log again over its own tables, sales and all, counts none of them twice,  *)
(* as long as the house has not come back to an earlier owner.               *)
SalesCountedOnce ==
    Idle /\ ~overlapped /\ survived = {}
      => db.row.sales = ReplayedHouse(log).row.sales \/ CameBack
===============================================================================
