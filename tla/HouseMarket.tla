----------------------------- MODULE HouseMarket -----------------------------
(***************************************************************************)
(* The house market of the game server: primary sales, listings, resale    *)
(* auctions with escrowed bids, and the loop that settles due auctions,    *)
(* with the wallets they move gold between.                                *)
(*                                                                         *)
(* One action is one message handler of index.ts (or one iteration of the  *)
(* settlement loop) with every receipt it writes: the handlers are         *)
(* synchronous, audit.write fsyncs and runs the reducers before it returns,*)
(* so no other handler runs between two receipts of one.  HouseDurable     *)
(* takes the receipts one at a time and lets the process die between them. *)
(*                                                                         *)
(* Abstractions: zone, coordinates, sale_count and owner_history are left  *)
(* to HouseDurable or out; 0 stands for a null price and for no bid        *)
(* (isValidPrice makes every price positive); only resale auctions are     *)
(* modelled, since no handler writes an opened receipt of another kind;    *)
(* scheduled_close_ms is the time left until it, in scans of the loop.     *)
(***************************************************************************)
EXTENDS Integers, FiniteSets, Functions

CONSTANTS
    Players,        \* player ids
    Houses,         \* property ids
    NoPlayer,       \* the null player id
    PrimaryPrice,   \* primary_price_gold of each house
    MaxGoldAmount,  \* MAX_GOLD_AMOUNT
    Durations,      \* the auction durations clampAuctionDurationS can return
    SupplyCap       \* bound on the gold in existence, to keep instances finite

ASSUME NoPlayerAssumption == NoPlayer \notin Players
ASSUME PriceAssumption ==
    /\ MaxGoldAmount \in Nat \ {0}
    /\ PrimaryPrice \in [Houses -> Nat]
    /\ SupplyCap \in Nat
ASSUME FiniteAssumption == IsFiniteSet(Players) /\ IsFiniteSet(Houses)
ASSUME DurationAssumption == Durations \subseteq Nat \ {0}

VARIABLES
    gold,       \* goldBalanceByPlayer
    prop,       \* propertyById: owner, status, listed price
    auction,    \* auctionByPropertyId: the latest auction of each house
    settling,   \* auctions the running settleDueAuctions pass has yet to handle
    supply      \* auxiliary: gold credited by faucets minus gold debited by sinks

vars == <<gold, prop, auction, settling, supply>>

PlayerOrNone == Players \cup {NoPlayer}
Prices == 1..MaxGoldAmount          \* isValidPrice, isValidAmount

PropertyStatus == {"unowned", "owned", "listed", "auctioning"}
Property == [owner : PlayerOrNone, status : PropertyStatus, listed : 0..MaxGoldAmount]

AuctionStatus == {"none", "open", "settled", "cancelled"}
Auction == [status : AuctionStatus, seller : PlayerOrNone, minBid : 0..MaxGoldAmount,
            increment : 0..MaxGoldAmount, high : 0..MaxGoldAmount,
            bidder : PlayerOrNone, left : Nat]

NoAuction == [status |-> "none", seller |-> NoPlayer, minBid |-> 0, increment |-> 0,
              high |-> 0, bidder |-> NoPlayer, left |-> 0]

IsOpen(h) == auction[h].status = "open"

Due_OnlyWithBids(h) == IsOpen(h) /\ auction[h].left = 0 /\ auction[h].bidder # NoPlayer

Due(h) == IsOpen(h) /\ auction[h].left = 0

-----------------------------------------------------------------------------
(* Helpers of the handlers *)

CanAfford_IgnoresBalance(p, n) == n \in Prices

CanAfford(p, n) == n \in Prices /\ gold[p] >= n

MinNextBid_NoIncrement(a) == IF a.high = 0 THEN a.minBid ELSE a.high

MinNextBid(a) == IF a.high = 0 THEN a.minBid ELSE a.high + a.increment

Credit(g, p, n) == [g EXCEPT ![p] = @ + n]

Debit(g, p, n) == [g EXCEPT ![p] = @ - n]

(* The credit that returns a displaced high bid, as the reducer applies it. *)
RefundPriorHigh_Forgotten(g, a) == g

RefundPriorHigh(g, a) ==
    IF a.bidder = NoPlayer THEN g ELSE Credit(g, a.bidder, a.high)

MayBid(p, a) == a.seller # p

MayCancel_WithBids(p, a) == a.seller = p

MayCancel(p, a) == a.seller = p /\ a.high = 0

OwnedBy(p) == [owner |-> p, status |-> "owned", listed |-> 0]

-----------------------------------------------------------------------------
Init ==
    /\ gold = [p \in Players |-> 0]
    /\ prop = [h \in Houses |-> [owner |-> NoPlayer, status |-> "unowned", listed |-> 0]]
    /\ auction = [h \in Houses |-> NoAuction]
    /\ settling = {}
    /\ supply = 0

(* No message is handled while a settlement pass runs: both are synchronous. *)
Idle == settling = {}

(* grant_gold, and every other faucet (work payouts): a credit nobody pays. *)
GrantGold(p, n) ==
    /\ Idle
    /\ supply + n <= SupplyCap
    /\ gold' = Credit(gold, p, n)
    /\ supply' = supply + n
    /\ UNCHANGED <<prop, auction, settling>>

(* pay_tithe *)
PayTithe(p, n) ==
    /\ Idle
    /\ CanAfford(p, n)
    /\ gold' = Debit(gold, p, n)
    /\ supply' = supply - n
    /\ UNCHANGED <<prop, auction, settling>>

(* buy_house on an unowned plot: the price leaves circulation. *)
BuyPrimary(p, h) ==
    /\ Idle
    /\ prop[h].status = "unowned"
    /\ CanAfford(p, PrimaryPrice[h])
    /\ gold' = Debit(gold, p, PrimaryPrice[h])
    /\ supply' = supply - PrimaryPrice[h]
    /\ prop' = [prop EXCEPT ![h] = OwnedBy(p)]
    /\ UNCHANGED <<auction, settling>>

(* buy_house on a listed plot.  The handler looks at the property only: an  *)
(* auction of the same house stays as it is.                                *)
BuyListed(p, h) ==
    /\ Idle
    /\ prop[h].owner \notin {p, NoPlayer}
    /\ prop[h].status = "listed" /\ prop[h].listed # 0
    /\ CanAfford(p, prop[h].listed)
    /\ gold' = Credit(Debit(gold, p, prop[h].listed), prop[h].owner, prop[h].listed)
    /\ prop' = [prop EXCEPT ![h] = OwnedBy(p)]
    /\ UNCHANGED <<auction, settling, supply>>

(* list_house: the owner may list whatever the status is, "auctioning" too. *)
ListHouse(p, h, price) ==
    /\ Idle
    /\ prop[h].owner = p
    /\ prop' = [prop EXCEPT ![h] = [owner |-> p, status |-> "listed", listed |-> price]]
    /\ UNCHANGED <<gold, auction, settling, supply>>

(* unlist_house: likewise. *)
UnlistHouse(p, h) ==
    /\ Idle
    /\ prop[h].owner = p
    /\ prop' = [prop EXCEPT ![h] = OwnedBy(p)]
    /\ UNCHANGED <<gold, auction, settling, supply>>

(* open_house_auction.  With an auction of the house still open the handler  *)
(* writes its receipt all the same and the reducer drops it: nothing changes *)
(* here, and HouseDurable shows what the database makes of that receipt.     *)
OpenAuction(p, h, minBid, increment, duration) ==
    /\ Idle
    /\ prop[h].owner = p
    /\ prop[h].status = "owned"
    /\ ~IsOpen(h)
    /\ prop' = [prop EXCEPT ![h] = [owner |-> p, status |-> "auctioning", listed |-> 0]]
    /\ auction' = [auction EXCEPT ![h] =
                     [status |-> "open", seller |-> p, minBid |-> minBid,
                      increment |-> increment, high |-> 0, bidder |-> NoPlayer,
                      left |-> duration]]
    /\ UNCHANGED <<gold, settling, supply>>

(* place_house_bid: escrow the bid, refund the displaced one, record it.  The *)
(* balance is checked before the refund, also when p outbids itself.          *)
PlaceBid(p, h, amount) ==
    /\ Idle
    /\ IsOpen(h)
    /\ MayBid(p, auction[h])
    /\ amount >= MinNextBid(auction[h])
    /\ CanAfford(p, amount)
    /\ gold' = RefundPriorHigh(Debit(gold, p, amount), auction[h])
    /\ auction' = [auction EXCEPT ![h].high = amount, ![h].bidder = p]
    /\ UNCHANGED <<prop, settling, supply>>

(* cancel_house_auction: the seller, while nobody has bid. *)
CancelAuction(p, h) ==
    /\ Idle
    /\ IsOpen(h)
    /\ MayCancel(p, auction[h])
    /\ prop' = [prop EXCEPT ![h].status = "owned"]
    /\ auction' = [auction EXCEPT ![h].status = "cancelled"]
    /\ UNCHANGED <<gold, settling, supply>>

(* Time passes between two scans. *)
Tick ==
    /\ Idle
    /\ \E h \in Houses : IsOpen(h) /\ auction[h].left > 0
    /\ auction' = [h \in Houses |-> IF IsOpen(h) /\ auction[h].left > 0
                                      THEN [auction[h] EXCEPT !.left = @ - 1]
                                      ELSE auction[h]]
    /\ UNCHANGED <<gold, prop, settling, supply>>

(* settleDueAuctions takes its snapshot of the auctions that are due ... *)
StartSettlement ==
    /\ Idle
    /\ settling' = {h \in Houses : Due(h)}
    /\ settling' # {}
    /\ UNCHANGED <<gold, prop, auction, supply>>

(* Who the settlement credits, and what the settled receipt does. *)
PaySeller_Forgotten(g, h) == g

PaySeller(g, h) ==
    IF auction[h].bidder = NoPlayer THEN g
    ELSE Credit(g, auction[h].seller, auction[h].high)

SettledProperty_NoRevert(h) ==
    IF auction[h].bidder = NoPlayer THEN prop[h] ELSE OwnedBy(auction[h].bidder)

SettledProperty(h) ==
    IF auction[h].bidder = NoPlayer THEN [prop[h] EXCEPT !.status = "owned"]
    ELSE OwnedBy(auction[h].bidder)

(* ... and handles them one after the other. *)
SettleNext(h) ==
    /\ h \in settling
    /\ settling' = settling \ {h}
    /\ gold' = PaySeller(gold, h)
    /\ prop' = [prop EXCEPT ![h] = SettledProperty(h)]
    /\ auction' = [auction EXCEPT ![h].status = "settled"]
    /\ UNCHANGED supply

Next ==
    \/ \E p \in Players, n \in Prices : GrantGold(p, n) \/ PayTithe(p, n)
    \/ \E p \in Players, h \in Houses :
         \/ BuyPrimary(p, h)
         \/ BuyListed(p, h)
         \/ UnlistHouse(p, h)
         \/ CancelAuction(p, h)
    \/ \E p \in Players, h \in Houses, n \in Prices :
         ListHouse(p, h, n) \/ PlaceBid(p, h, n)
    \/ \E p \in Players, h \in Houses, minBid, increment \in Prices, d \in Durations :
         OpenAuction(p, h, minBid, increment, d)
    \/ Tick
    \/ StartSettlement
    \/ \E h \in Houses : SettleNext(h)

(* Fairness: the 1 s scan runs from setInterval for as long as the process   *)
(* lives, and it handles every auction it finds due; players owe nothing.    *)
Fairness ==
    /\ WF_vars(Tick)
    /\ WF_vars(StartSettlement)
    /\ WF_vars(\E h \in Houses : SettleNext(h))

Spec == Init /\ [][Next]_vars

FairSpec == Spec /\ Fairness

-----------------------------------------------------------------------------
(* What must hold *)

TypeOK ==
    /\ gold \in [Players -> Nat]
    /\ prop \in [Houses -> Property]
    /\ auction \in [Houses -> Auction]
    /\ settling \subseteq Houses
    /\ supply \in Int

(* A house shown as auctioning has an open auction, and its seller still    *)
(* owns the house: listing, sale, cancel and settlement each leave the      *)
(* "auctioning" status or the auction in step with the other.               *)
AuctionedHouseHeldBySeller ==
    \A h \in Houses : prop[h].status = "auctioning" =>
        IsOpen(h) /\ auction[h].seller = prop[h].owner

(* The standing bid of an open auction is never the seller's, so that what a *)
(* settlement releases to the seller is no stake of the seller's own.        *)
StandingBidIsNotTheSellers ==
    \A h \in Houses : IsOpen(h) /\ auction[h].bidder # NoPlayer =>
        auction[h].bidder # auction[h].seller

(* Every open auction was opened with positive terms by a player, on a house *)
(* that still has some owner, and its standing bid has an amount exactly     *)
(* when it has a bidder.                                                     *)
OpenAuctionWellFormed ==
    \A h \in Houses : IsOpen(h) =>
        /\ auction[h].seller \in Players
        /\ prop[h].owner # NoPlayer
        /\ auction[h].minBid > 0 /\ auction[h].increment > 0
        /\ auction[h].bidder = NoPlayer <=> auction[h].high = 0

(* A house has an owner exactly when its status is not "unowned". *)
UnownedHouseHasNoOwner ==
    \A h \in Houses : prop[h].status = "unowned" <=> prop[h].owner = NoPlayer

(* What a running settlement pass has still to handle is due: nothing that   *)
(* could cancel or settle it runs in between.                                *)
SettlingIsDue == \A h \in settling : Due(h)

(* The inductive invariant: the named parts above together. *)
MarketInvariant ==
    /\ TypeOK
    /\ AuctionedHouseHeldBySeller
    /\ StandingBidIsNotTheSellers
    /\ OpenAuctionWellFormed
    /\ UnownedHouseHasNoOwner
    /\ SettlingIsDue

(* The stake of a standing bid ends in one of two ways: it comes back to the *)
(* bidder to the last coin in the step that displaces the bid, or the step   *)
(* that takes it hands the bidder the house.                                 *)
StakeReturnedOrHouseWon ==
    [][\A h \in Houses :
         LET bidder == auction[h].bidder
             displaced == auction'[h].status # "open" \/ auction'[h].bidder # bidder
         IN  IsOpen(h) /\ bidder # NoPlayer /\ displaced =>
               \/ gold'[bidder] = gold[bidder] + auction[h].high
               \/ prop'[h].owner = bidder]_vars

(* Whoever loses a house while no other player has an auction of it open is  *)
(* paid in the same step: buyers pay owners, and settlements pay the seller. *)
OwnerPaidOnSale ==
    [][\A h \in Houses :
         LET owner == prop[h].owner
             ownAuction == IsOpen(h) => auction[h].seller = owner
         IN  owner \notin {NoPlayer, prop'[h].owner} /\ ownAuction =>
               gold'[owner] > gold[owner]]_vars

(* The same with no exception for a house bought while the previous owner's  *)
(* auction of it is still open.  The code does not keep it.                  *)
EveryOwnerPaidOnSale ==
    [][\A h \in Houses :
         LET owner == prop[h].owner
         IN  owner \notin {NoPlayer, prop'[h].owner} => gold'[owner] > gold[owner]]_vars

(* No auction hangs: every auction is settled or cancelled in the end, with  *)
(* or without bids, whatever the players do.                                 *)
AuctionCloses == \A h \in Houses : IsOpen(h) ~> ~IsOpen(h)

(* The stake of a house, as the auction lane implies it: the code keeps no   *)
(* escrow account, the standing bid is all that remembers the gold.          *)
StandingStake(h) ==
    IF IsOpen(h) /\ auction[h].bidder # NoPlayer
    THEN [holder |-> auction[h].bidder, amount |-> auction[h].high]
    ELSE [holder |-> NoPlayer, amount |-> 0]

(* Gold is neither made nor lost between a faucet and a sink: wallets and    *)
(* standing bids together hold exactly what was put into circulation.  The   *)
(* receipts of buy_house, place_house_bid and the settlement conserve gold.  *)
GoldConserved ==
    supply = SumFunction(gold) + SumFunction([h \in Houses |-> StandingStake(h).amount])

Ledger == INSTANCE GoldLedger WITH
    wallet <- gold,
    stake <- [h \in Houses |-> StandingStake(h)],
    Amounts <- Prices

(* The handlers keep the promise of GoldLedger: the wallet receipts and the  *)
(* auction receipts of one handler agree on every coin.                      *)
KeepsGoldLedger == Ledger!Spec
===============================================================================
