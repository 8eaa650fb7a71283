-------------------------- MODULE HouseMarketProofs --------------------------
(***************************************************************************)
(* Theorems of HouseMarket, for every set of players and houses, every     *)
(* price list and every bound: its invariants, what may become of a stake  *)
(* and of an owner, and that it implements GoldLedger.                     *)
(***************************************************************************)
EXTENDS HouseMarket, FoldLemmas, TLAPS

USE NoPlayerAssumption, PriceAssumption, DurationAssumption

(* Prices are positive naturals. *)
LEMMA PricesPositive == \A n \in Prices : n \in Nat /\ n > 0 /\ n <= MaxGoldAmount
BY DEF Prices

(* Initially no house is sold, listed or auctioned. *)
LEMMA InitInvariant == Init => MarketInvariant
BY DEF Init, MarketInvariant, TypeOK, AuctionedHouseHeldBySeller,
       StandingBidIsNotTheSellers, OpenAuctionWellFormed, UnownedHouseHasNoOwner, SettlingIsDue,
       IsOpen, NoAuction, Property, PropertyStatus, Auction, AuctionStatus, PlayerOrNone

(* Handlers that move gold into or out of circulation. *)
LEMMA GrantGoldInvariant ==
    ASSUME MarketInvariant, NEW p \in Players, NEW n \in Prices, GrantGold(p, n)
    PROVE  MarketInvariant'
BY PricesPositive
DEF MarketInvariant, TypeOK, AuctionedHouseHeldBySeller, StandingBidIsNotTheSellers,
    OpenAuctionWellFormed, UnownedHouseHasNoOwner, SettlingIsDue, IsOpen, Due, GrantGold, Credit

LEMMA PayTitheInvariant ==
    ASSUME MarketInvariant, NEW p \in Players, NEW n \in Prices, PayTithe(p, n)
    PROVE  MarketInvariant'
BY PricesPositive
DEF MarketInvariant, TypeOK, AuctionedHouseHeldBySeller, StandingBidIsNotTheSellers,
    OpenAuctionWellFormed, UnownedHouseHasNoOwner, SettlingIsDue, IsOpen, Due, PayTithe, CanAfford, Debit

(* Handlers that sell, list and unlist. *)
LEMMA BuyPrimaryInvariant ==
    ASSUME MarketInvariant, NEW p \in Players, NEW h \in Houses, BuyPrimary(p, h)
    PROVE  MarketInvariant'
BY PricesPositive
DEF MarketInvariant, TypeOK, AuctionedHouseHeldBySeller, StandingBidIsNotTheSellers,
    OpenAuctionWellFormed, UnownedHouseHasNoOwner, SettlingIsDue, IsOpen, Due, BuyPrimary, Idle, CanAfford, Debit, OwnedBy, Property, PropertyStatus, PlayerOrNone

LEMMA BuyListedInvariant ==
    ASSUME MarketInvariant, NEW p \in Players, NEW h \in Houses, BuyListed(p, h)
    PROVE  MarketInvariant'
BY PricesPositive
DEF MarketInvariant, TypeOK, AuctionedHouseHeldBySeller, StandingBidIsNotTheSellers,
    OpenAuctionWellFormed, UnownedHouseHasNoOwner, SettlingIsDue, IsOpen, Due, BuyListed, Idle, CanAfford, Debit, Credit, OwnedBy, Property, PropertyStatus, PlayerOrNone

LEMMA ListHouseInvariant ==
    ASSUME MarketInvariant, NEW p \in Players, NEW h \in Houses, NEW n \in Prices, ListHouse(p, h, n)
    PROVE  MarketInvariant'
BY PricesPositive
DEF MarketInvariant, TypeOK, AuctionedHouseHeldBySeller, StandingBidIsNotTheSellers,
    OpenAuctionWellFormed, UnownedHouseHasNoOwner, SettlingIsDue, IsOpen, Due, ListHouse, Idle, Property, PropertyStatus,
    PlayerOrNone, Prices

LEMMA UnlistHouseInvariant ==
    ASSUME MarketInvariant, NEW p \in Players, NEW h \in Houses, UnlistHouse(p, h)
    PROVE  MarketInvariant'
BY PricesPositive
DEF MarketInvariant, TypeOK, AuctionedHouseHeldBySeller, StandingBidIsNotTheSellers,
    OpenAuctionWellFormed, UnownedHouseHasNoOwner, SettlingIsDue, IsOpen, Due, UnlistHouse, Idle, OwnedBy, Property,
    PropertyStatus, PlayerOrNone

LEMMA CancelAuctionInvariant ==
    ASSUME MarketInvariant, NEW p \in Players, NEW h \in Houses, CancelAuction(p, h)
    PROVE  MarketInvariant'
<1>1. prop' \in [Houses -> Property]
  BY PricesPositive DEF MarketInvariant, TypeOK, CancelAuction, Property, PropertyStatus, Prices
<1>2. /\ prop'[h].status = "owned" /\ prop'[h].owner = prop[h].owner
      /\ \A g \in Houses \ {h} : prop'[g] = prop[g]
  BY DEF MarketInvariant, TypeOK, CancelAuction, Property
<1>3. /\ auction' \in [Houses -> Auction]
      /\ ~IsOpen(h)'
      /\ \A g \in Houses \ {h} : auction'[g] = auction[g]
  BY DEF MarketInvariant, TypeOK, CancelAuction, IsOpen, Auction, AuctionStatus
<1>4. TypeOK'
  BY <1>1, <1>3 DEF MarketInvariant, TypeOK, CancelAuction
<1>5. SettlingIsDue'
  BY DEF SettlingIsDue, CancelAuction, Idle
<1>6. AuctionedHouseHeldBySeller'
  BY <1>2, <1>3 DEF MarketInvariant, AuctionedHouseHeldBySeller, IsOpen
<1>7. StandingBidIsNotTheSellers'
  BY <1>3 DEF MarketInvariant, StandingBidIsNotTheSellers, IsOpen
<1>8. OpenAuctionWellFormed'
  BY <1>2, <1>3 DEF MarketInvariant, OpenAuctionWellFormed, IsOpen
<1>9. UnownedHouseHasNoOwner'
  BY <1>1, <1>2 DEF MarketInvariant, CancelAuction, UnownedHouseHasNoOwner,
     OpenAuctionWellFormed
<1>. QED
  BY <1>4, <1>5, <1>6, <1>7, <1>8, <1>9 DEF MarketInvariant

(* The auction lane. *)
LEMMA OpenAuctionInvariant ==
    ASSUME MarketInvariant, NEW p \in Players, NEW h \in Houses, NEW minBid \in Prices,
           NEW increment \in Prices, NEW d \in Durations, OpenAuction(p, h, minBid, increment, d)
    PROVE  MarketInvariant'
BY PricesPositive
DEF MarketInvariant, TypeOK, AuctionedHouseHeldBySeller, StandingBidIsNotTheSellers,
    OpenAuctionWellFormed, UnownedHouseHasNoOwner, SettlingIsDue, IsOpen, Due, OpenAuction, Idle, Property,
    PropertyStatus, Auction, AuctionStatus, PlayerOrNone, Prices

LEMMA PlaceBidInvariant ==
    ASSUME MarketInvariant, NEW p \in Players, NEW h \in Houses, NEW n \in Prices, PlaceBid(p, h, n)
    PROVE  MarketInvariant'
BY PricesPositive
DEF MarketInvariant, TypeOK, AuctionedHouseHeldBySeller, StandingBidIsNotTheSellers,
    OpenAuctionWellFormed, UnownedHouseHasNoOwner, SettlingIsDue, IsOpen, Due, PlaceBid, Idle, MayBid, CanAfford,
    RefundPriorHigh, Credit, Debit, Auction, PlayerOrNone, Prices

LEMMA TickInvariant == ASSUME MarketInvariant, Tick PROVE MarketInvariant'
BY DEF MarketInvariant, TypeOK, AuctionedHouseHeldBySeller, StandingBidIsNotTheSellers,
       OpenAuctionWellFormed, UnownedHouseHasNoOwner, SettlingIsDue, IsOpen, Due, Idle, Tick, Auction

LEMMA StartSettlementInvariant == ASSUME MarketInvariant, StartSettlement PROVE MarketInvariant'
BY DEF MarketInvariant, TypeOK, AuctionedHouseHeldBySeller, StandingBidIsNotTheSellers,
       OpenAuctionWellFormed, UnownedHouseHasNoOwner, SettlingIsDue, IsOpen, Due, StartSettlement

LEMMA SettleNextInvariant ==
    ASSUME MarketInvariant, NEW h \in Houses, SettleNext(h)
    PROVE  MarketInvariant'
<1>0. /\ IsOpen(h) /\ auction[h] \in Auction /\ prop[h] \in Property
      /\ auction[h].seller \in Players /\ prop[h].owner # NoPlayer
  BY DEF MarketInvariant, TypeOK, SettleNext, SettlingIsDue, Due, OpenAuctionWellFormed
<1>1. gold' \in [Players -> Nat]
  BY <1>0 DEF MarketInvariant, TypeOK, SettleNext, PaySeller, Credit, Auction, PlayerOrNone
<1>2. /\ prop' \in [Houses -> Property]
      /\ prop'[h].status = "owned" /\ prop'[h].owner # NoPlayer
      /\ \A g \in Houses \ {h} : prop'[g] = prop[g]
  <2>1. SettledProperty(h) \in [owner : Players, status : {"owned"}, listed : 0..MaxGoldAmount]
    BY <1>0 DEF SettledProperty, OwnedBy, Property, Auction, PlayerOrNone
  <2>. QED
    BY <2>1 DEF SettleNext, MarketInvariant, TypeOK, Property, PropertyStatus, PlayerOrNone
<1>3. /\ auction' \in [Houses -> Auction]
      /\ ~IsOpen(h)'
      /\ \A g \in Houses \ {h} : auction'[g] = auction[g]
  BY <1>0 DEF MarketInvariant, TypeOK, SettleNext, IsOpen, Auction, AuctionStatus
<1>4. TypeOK'
  BY <1>1, <1>2, <1>3 DEF MarketInvariant, TypeOK, SettleNext
<1>5. SettlingIsDue'
  BY <1>3 DEF MarketInvariant, TypeOK, SettlingIsDue, SettleNext, Due, IsOpen
<1>6. AuctionedHouseHeldBySeller'
  BY <1>2, <1>3 DEF MarketInvariant, AuctionedHouseHeldBySeller, IsOpen
<1>7. StandingBidIsNotTheSellers'
  BY <1>3 DEF MarketInvariant, StandingBidIsNotTheSellers, IsOpen
<1>8. OpenAuctionWellFormed'
  BY <1>2, <1>3 DEF MarketInvariant, OpenAuctionWellFormed, IsOpen
<1>9. UnownedHouseHasNoOwner'
  BY <1>2 DEF MarketInvariant, UnownedHouseHasNoOwner
<1>. QED
  BY <1>4, <1>5, <1>6, <1>7, <1>8, <1>9 DEF MarketInvariant

-----------------------------------------------------------------------------
(* The invariant is inductive. *)
LEMMA NextInvariant == MarketInvariant /\ [Next]_vars => MarketInvariant'
<1>. SUFFICES ASSUME MarketInvariant, [Next]_vars PROVE MarketInvariant'
  OBVIOUS
<1>1. CASE \E p \in Players, n \in Prices : GrantGold(p, n) \/ PayTithe(p, n)
  BY <1>1, GrantGoldInvariant, PayTitheInvariant
<1>2. CASE \E p \in Players, h \in Houses :
             \/ BuyPrimary(p, h)
             \/ BuyListed(p, h)
             \/ UnlistHouse(p, h)
             \/ CancelAuction(p, h)
  BY <1>2, BuyPrimaryInvariant, BuyListedInvariant, UnlistHouseInvariant,
     CancelAuctionInvariant
<1>3. CASE \E p \in Players, h \in Houses, n \in Prices :
             ListHouse(p, h, n) \/ PlaceBid(p, h, n)
  BY <1>3, ListHouseInvariant, PlaceBidInvariant
<1>4. CASE \E p \in Players, h \in Houses, minBid, increment \in Prices, d \in Durations :
             OpenAuction(p, h, minBid, increment, d)
  BY <1>4, OpenAuctionInvariant
<1>5. CASE Tick
  BY <1>5, TickInvariant
<1>6. CASE StartSettlement
  BY <1>6, StartSettlementInvariant
<1>7. CASE \E h \in Houses : SettleNext(h)
  BY <1>7, SettleNextInvariant
<1>8. CASE UNCHANGED vars
  BY <1>8 DEF vars, MarketInvariant, TypeOK, AuctionedHouseHeldBySeller,
     StandingBidIsNotTheSellers, OpenAuctionWellFormed, UnownedHouseHasNoOwner, SettlingIsDue, IsOpen, Due
<1>. QED
  BY <1>1, <1>2, <1>3, <1>4, <1>5, <1>6, <1>7, <1>8 DEF Next

(* The market invariant holds in every reachable state of the market. *)
THEOREM MarketInvariantHolds == Spec => []MarketInvariant
BY InitInvariant, NextInvariant, PTL DEF Spec

(* Balances are natural numbers, so no handler overdraws a wallet, and every *)
(* projection has its type.                                                  *)
THEOREM TypeCorrect == Spec => []TypeOK
BY MarketInvariantHolds, PTL DEF MarketInvariant

(* A house shown as auctioning is still its auction's seller's. *)
THEOREM AuctionedHouseStaysWithSeller == Spec => []AuctionedHouseHeldBySeller
BY MarketInvariantHolds, PTL DEF MarketInvariant

-----------------------------------------------------------------------------
(* What one step may do to a stake and to an owner *)

(* A stake comes back whole or buys the house. *)
LEMMA StepReturnsStake ==
    ASSUME MarketInvariant, [Next]_vars, NEW h \in Houses,
           IsOpen(h), auction[h].bidder # NoPlayer,
           auction'[h].status # "open" \/ auction'[h].bidder # auction[h].bidder
    PROVE  \/ gold'[auction[h].bidder] = gold[auction[h].bidder] + auction[h].high
           \/ prop'[h].owner = auction[h].bidder
<1>. DEFINE b == auction[h].bidder
<1>0. /\ gold \in [Players -> Nat] /\ prop \in [Houses -> Property]
      /\ auction \in [Houses -> Auction]
      /\ b \in Players /\ auction[h].high \in Nat /\ auction[h].high # 0
  BY DEF MarketInvariant, TypeOK, Auction, PlayerOrNone, OpenAuctionWellFormed
<1>1. ASSUME NEW p \in Players, NEW g \in Houses, NEW n \in Prices, PlaceBid(p, g, n)
      PROVE  gold'[b] = gold[b] + auction[h].high
  <2>1. g = h /\ p # b
    BY <1>0, <1>1 DEF PlaceBid, IsOpen
  <2>2. gold' = [[gold EXCEPT ![p] = @ - n] EXCEPT ![b] = @ + auction[h].high]
    BY <1>1, <2>1 DEF PlaceBid, RefundPriorHigh, Credit, Debit
  <2>. QED
    BY <1>0, <2>1, <2>2
<1>2. ASSUME NEW p \in Players, NEW g \in Houses, CancelAuction(p, g)
      PROVE  FALSE
  BY <1>0, <1>2 DEF CancelAuction, MayCancel, IsOpen
<1>3. ASSUME NEW g \in Houses, SettleNext(g)
      PROVE  prop'[h].owner = b
  <2>1. g = h
    BY <1>0, <1>3 DEF SettleNext, IsOpen
  <2>. QED
    BY <1>0, <1>3, <2>1 DEF SettleNext, SettledProperty, OwnedBy
<1>4. ASSUME NEW p \in Players, NEW g \in Houses, NEW minBid \in Prices,
             NEW increment \in Prices, NEW d \in Durations,
             OpenAuction(p, g, minBid, increment, d)
      PROVE  FALSE
  BY <1>0, <1>4 DEF OpenAuction, IsOpen
<1>5. CASE Tick
  BY <1>0, <1>5 DEF Tick, IsOpen
<1>6. CASE UNCHANGED auction
  BY <1>0, <1>6 DEF IsOpen
<1>7. ASSUME NEW p \in Players, NEW g \in Houses,
             BuyPrimary(p, g) \/ BuyListed(p, g) \/ UnlistHouse(p, g)
      PROVE  UNCHANGED auction
  BY <1>7 DEF BuyPrimary, BuyListed, UnlistHouse
<1>8. ASSUME NEW p \in Players, NEW n \in Prices,
             \/ GrantGold(p, n) \/ PayTithe(p, n)
             \/ \E g \in Houses : ListHouse(p, g, n)
      PROVE  UNCHANGED auction
  BY <1>8 DEF GrantGold, PayTithe, ListHouse
<1>9. StartSettlement \/ UNCHANGED vars => UNCHANGED auction
  BY DEF StartSettlement, vars
<1>. QED
  BY <1>1, <1>2, <1>3, <1>4, <1>5, <1>6, <1>7, <1>8, <1>9 DEF Next

(* Every stake ends refunded or with its bidder owning the house. *)
THEOREM StakesReturnOrWin == Spec => StakeReturnedOrHouseWon
<1>1. MarketInvariant /\ [Next]_vars =>
        [\A h \in Houses :
           LET bidder == auction[h].bidder
               displaced == auction'[h].status # "open" \/ auction'[h].bidder # bidder
           IN  IsOpen(h) /\ bidder # NoPlayer /\ displaced =>
                 \/ gold'[bidder] = gold[bidder] + auction[h].high
                 \/ prop'[h].owner = bidder]_vars
  BY StepReturnsStake
<1>. QED
  BY <1>1, MarketInvariantHolds, PTL DEF Spec, StakeReturnedOrHouseWon

(* Whoever loses a house of which nobody else has an auction open is paid. *)
LEMMA StepPaysOwner ==
    ASSUME MarketInvariant, [Next]_vars, NEW h \in Houses,
           prop[h].owner \notin {NoPlayer, prop'[h].owner},
           IsOpen(h) => auction[h].seller = prop[h].owner
    PROVE  gold'[prop[h].owner] > gold[prop[h].owner]
<1>. DEFINE o == prop[h].owner
<1>0. /\ gold \in [Players -> Nat] /\ prop \in [Houses -> Property]
      /\ auction \in [Houses -> Auction] /\ o \in Players
  BY DEF MarketInvariant, TypeOK, Property, PlayerOrNone
<1>1. ASSUME NEW p \in Players, NEW g \in Houses, BuyListed(p, g)
      PROVE  gold'[o] > gold[o]
  <2>1. g = h /\ o # p
    BY <1>0, <1>1 DEF BuyListed, OwnedBy
  <2>2. gold' = [[gold EXCEPT ![p] = @ - prop[h].listed] EXCEPT ![o] = @ + prop[h].listed]
    BY <1>1, <2>1 DEF BuyListed, Credit, Debit
  <2>3. prop[h].listed \in Nat /\ prop[h].listed > 0
    BY <1>0, <1>1, <2>1 DEF BuyListed, Property
  <2>. QED
    BY <1>0, <2>1, <2>2, <2>3
<1>2. ASSUME NEW g \in Houses, SettleNext(g)
      PROVE  gold'[o] > gold[o]
  <2>1. g = h
    BY <1>0, <1>2 DEF SettleNext
  <2>2. IsOpen(h) /\ auction[h].bidder # NoPlayer
    BY <1>0, <1>2, <2>1 DEF SettleNext, SettledProperty, MarketInvariant, SettlingIsDue, Due,
       Property
  <2>3. auction[h].high \in Nat /\ auction[h].high > 0
    BY <1>0, <2>2 DEF MarketInvariant, OpenAuctionWellFormed, Auction
  <2>4. gold' = [gold EXCEPT ![o] = @ + auction[h].high]
    BY <1>2, <2>1, <2>2 DEF SettleNext, PaySeller, Credit
  <2>. QED
    BY <1>0, <2>3, <2>4
<1>3. ASSUME NEW p \in Players, NEW g \in Houses, BuyPrimary(p, g) \/ UnlistHouse(p, g)
      PROVE  prop'[h].owner = o
  <2>1. CASE g = h
    BY <1>0, <1>3, <2>1 DEF BuyPrimary, UnlistHouse, OwnedBy, MarketInvariant, TypeOK,
       UnownedHouseHasNoOwner
  <2>2. CASE g # h
    BY <1>0, <1>3, <2>2 DEF BuyPrimary, UnlistHouse
  <2>. QED
    BY <2>1, <2>2
<1>4. ASSUME NEW p \in Players, NEW g \in Houses, CancelAuction(p, g)
      PROVE  prop'[h].owner = o
  BY <1>0, <1>4 DEF CancelAuction, Property
<1>5. ASSUME NEW p \in Players, NEW g \in Houses, NEW n \in Prices, ListHouse(p, g, n)
      PROVE  prop'[h].owner = o
  BY <1>0, <1>5 DEF ListHouse, Property
<1>6. ASSUME NEW p \in Players, NEW g \in Houses, NEW minBid \in Prices,
             NEW increment \in Prices, NEW d \in Durations,
             OpenAuction(p, g, minBid, increment, d)
      PROVE  prop'[h].owner = o
  BY <1>0, <1>6 DEF OpenAuction, Property
<1>7. ASSUME NEW p \in Players, NEW n \in Prices,
             \/ GrantGold(p, n) \/ PayTithe(p, n)
             \/ \E g \in Houses : PlaceBid(p, g, n)
      PROVE  UNCHANGED prop
  BY <1>7 DEF GrantGold, PayTithe, PlaceBid
<1>8. Tick \/ StartSettlement \/ UNCHANGED vars => UNCHANGED prop
  BY DEF Tick, StartSettlement, vars
<1>. QED
  BY <1>1, <1>2, <1>3, <1>4, <1>5, <1>6, <1>7, <1>8 DEF Next

(* Every owner who loses a house is paid, other auctions of it aside. *)
THEOREM OwnersArePaid == Spec => OwnerPaidOnSale
<1>1. MarketInvariant /\ [Next]_vars =>
        [\A h \in Houses :
           LET owner == prop[h].owner
               ownAuction == IsOpen(h) => auction[h].seller = owner
           IN  owner \notin {NoPlayer, prop'[h].owner} /\ ownAuction =>
                 gold'[owner] > gold[owner]]_vars
  BY StepPaysOwner
<1>. QED
  BY <1>1, MarketInvariantHolds, PTL DEF Spec, OwnerPaidOnSale

-----------------------------------------------------------------------------
(* The market implements GoldLedger *)

(* The wallets after p gives n and r receives m. *)
Exchanged(p, r, n, m) ==
    [q \in Players |-> gold[q] - (IF q = p THEN n ELSE 0) + (IF q = r THEN m ELSE 0)]

(* What Credit and Debit do to the whole wallet, in GoldLedger's terms. *)
LEMMA ExchangeMoves ==
    ASSUME gold \in [Players -> Nat], NEW p \in Players, NEW r \in Players,
           NEW n \in Nat, NEW m \in Nat
    PROVE  Credit(Debit(gold, p, n), r, m) = Exchanged(p, r, n, m)
<1>1. Credit(Debit(gold, p, n), r, m) \in [Players -> Int]
  BY DEF Credit, Debit
<1>2. \A q \in Players : Credit(Debit(gold, p, n), r, m)[q] =
                           gold[q] - (IF q = p THEN n ELSE 0) + (IF q = r THEN m ELSE 0)
  BY DEF Credit, Debit
<1>. QED
  BY <1>1, <1>2 DEF Exchanged

LEMMA CreditMoves ==
    ASSUME gold \in [Players -> Nat], NEW p \in Players, NEW n \in Nat
    PROVE  Credit(gold, p, n) = Ledger!Moved(NoPlayer, p, n)
<1>1. Credit(gold, p, n) \in [Players -> Int]
  BY DEF Credit
<1>2. \A q \in Players : Credit(gold, p, n)[q] =
                           gold[q] - (IF q = NoPlayer THEN n ELSE 0) + (IF q = p THEN n ELSE 0)
  BY DEF Credit
<1>3. Credit(gold, p, n) =
        [q \in Players |-> gold[q] - (IF q = NoPlayer THEN n ELSE 0) + (IF q = p THEN n ELSE 0)]
  BY <1>1, <1>2
<1>. QED
  BY <1>3 DEF Ledger!Moved

LEMMA DebitMoves ==
    ASSUME gold \in [Players -> Nat], NEW p \in Players, NEW n \in Nat
    PROVE  Debit(gold, p, n) = Ledger!Moved(p, NoPlayer, n)
<1>1. Debit(gold, p, n) \in [Players -> Int]
  BY DEF Debit
<1>2. \A q \in Players : Debit(gold, p, n)[q] =
                           gold[q] - (IF q = p THEN n ELSE 0) + (IF q = NoPlayer THEN n ELSE 0)
  BY DEF Debit
<1>3. Debit(gold, p, n) =
        [q \in Players |-> gold[q] - (IF q = p THEN n ELSE 0) + (IF q = NoPlayer THEN n ELSE 0)]
  BY <1>1, <1>2
<1>. QED
  BY <1>3 DEF Ledger!Moved

(* A step that leaves every auction alone leaves every stake alone. *)
LEMMA SameAuctionsSameStakes ==
    ASSUME UNCHANGED auction
    PROVE  [h \in Houses |-> StandingStake(h)]' = [h \in Houses |-> StandingStake(h)]
BY DEF StandingStake, IsOpen

(* Initially nothing is staked. *)
LEMMA InitRefines == Init => Ledger!Init
BY DEF Init, Ledger!Init, Ledger!NoStake, StandingStake, IsOpen, NoAuction

(* Faucets and sinks. *)
LEMMA GrantRefines ==
    ASSUME MarketInvariant, NEW p \in Players, NEW n \in Prices, GrantGold(p, n)
    PROVE  Ledger!Mint(p, n)
<1>1. gold' = Ledger!Moved(NoPlayer, p, n)
  BY PricesPositive, CreditMoves DEF MarketInvariant, TypeOK, GrantGold
<1>. QED
  BY <1>1, SameAuctionsSameStakes DEF GrantGold, Ledger!Mint

LEMMA TitheRefines ==
    ASSUME MarketInvariant, NEW p \in Players, NEW n \in Prices, PayTithe(p, n)
    PROVE  Ledger!Burn(p, n)
<1>1. gold' = Ledger!Moved(p, NoPlayer, n)
  BY PricesPositive, DebitMoves DEF MarketInvariant, TypeOK, PayTithe
<1>. QED
  BY <1>1, SameAuctionsSameStakes DEF PayTithe, CanAfford, Ledger!Burn

LEMMA PrimarySaleRefines ==
    ASSUME MarketInvariant, NEW p \in Players, NEW h \in Houses, BuyPrimary(p, h)
    PROVE  PrimaryPrice[h] \in Prices /\ Ledger!Burn(p, PrimaryPrice[h])
<1>1. PrimaryPrice[h] \in Prices
  BY DEF BuyPrimary, CanAfford
<1>2. gold' = Ledger!Moved(p, NoPlayer, PrimaryPrice[h])
  BY <1>1, PricesPositive, DebitMoves DEF MarketInvariant, TypeOK, BuyPrimary
<1>. QED
  BY <1>1, <1>2, SameAuctionsSameStakes DEF BuyPrimary, CanAfford, Ledger!Burn

(* A resale moves the price from the buyer to the owner. *)
LEMMA ResaleRefines ==
    ASSUME MarketInvariant, NEW p \in Players, NEW h \in Houses, BuyListed(p, h)
    PROVE  /\ prop[h].owner \in Players /\ prop[h].listed \in Prices
           /\ Ledger!Pay(p, prop[h].owner, prop[h].listed)
<1>1. /\ prop[h].owner \in Players /\ prop[h].owner # p
      /\ prop[h].listed \in Prices /\ gold[p] >= prop[h].listed
  BY DEF MarketInvariant, TypeOK, BuyListed, CanAfford, Property, PlayerOrNone
<1>2. gold' = Credit(Debit(gold, p, prop[h].listed), prop[h].owner, prop[h].listed)
  BY DEF BuyListed
<1>3. gold' = Ledger!Moved(p, prop[h].owner, prop[h].listed)
  <2>1. gold \in [Players -> Nat] /\ prop[h].listed \in Nat
    BY <1>1, PricesPositive DEF MarketInvariant, TypeOK
  <2>2. gold' = Exchanged(p, prop[h].owner, prop[h].listed, prop[h].listed)
    BY <1>1, <1>2, <2>1, ExchangeMoves
  <2>. QED
    BY <2>2 DEF Exchanged, Ledger!Moved
<1>. QED
  BY <1>1, <1>3, SameAuctionsSameStakes DEF BuyListed, Ledger!Pay

(* A bid stakes its amount and gives the displaced stake back. *)
LEMMA BidRefines ==
    ASSUME MarketInvariant, NEW p \in Players, NEW h \in Houses, NEW n \in Prices,
           PlaceBid(p, h, n)
    PROVE  Ledger!Stake(p, h, n)
<1>. DEFINE s == [g \in Houses |-> StandingStake(g)]
            a == auction[h]
<1>0. /\ gold \in [Players -> Nat] /\ auction \in [Houses -> Auction]
      /\ a \in Auction /\ IsOpen(h) /\ a.high \in Nat /\ n \in Nat
      /\ a.minBid > 0 /\ a.increment > 0 /\ (a.bidder = NoPlayer <=> a.high = 0)
      /\ gold[p] >= n
  BY PricesPositive
  DEF MarketInvariant, TypeOK, PlaceBid, OpenAuctionWellFormed, Auction, CanAfford
<1>1. s[h] = [holder |-> a.bidder, amount |-> a.high]
  BY <1>0 DEF StandingStake
<1>2. s[h].amount < n
  BY <1>0, <1>1 DEF PlaceBid, MinNextBid, Auction
<1>3. gold' = [q \in Players |-> gold[q] - (IF q = p THEN n ELSE 0)
                                        + (IF q = s[h].holder THEN s[h].amount ELSE 0)]
  <2>1. CASE a.bidder = NoPlayer
    <3>1. gold' = Ledger!Moved(p, NoPlayer, n)
      BY <1>0, <2>1, DebitMoves DEF PlaceBid, RefundPriorHigh
    <3>. QED
      BY <1>0, <1>1, <2>1, <3>1 DEF Ledger!Moved
  <2>2. CASE a.bidder # NoPlayer
    <3>1. a.bidder \in Players
      BY <1>0, <2>2 DEF Auction, PlayerOrNone
    <3>2. gold' = Credit(Debit(gold, p, n), a.bidder, a.high)
      BY <2>2 DEF PlaceBid, RefundPriorHigh
    <3>3. gold' = Exchanged(p, a.bidder, n, a.high)
      BY <1>0, <3>1, <3>2, ExchangeMoves
    <3>4. s[h].holder = a.bidder /\ s[h].amount = a.high
      BY <1>1
    <3>. QED
      BY <3>3, <3>4 DEF Exchanged
  <2>. QED
    BY <2>1, <2>2
<1>4. s' = [s EXCEPT ![h] = [holder |-> p, amount |-> n]]
  <2>1. /\ auction'[h].status = "open" /\ auction'[h].bidder = p /\ auction'[h].high = n
        /\ \A g \in Houses \ {h} : auction'[g] = auction[g]
    BY <1>0 DEF PlaceBid, IsOpen, Auction
  <2>2. p # NoPlayer
    OBVIOUS
  <2>. QED
    BY <2>1, <2>2 DEF StandingStake, IsOpen
<1>. QED
  BY <1>0, <1>2, <1>3, <1>4 DEF Ledger!Stake, PlaceBid

(* A settlement releases the stake, if any, to the seller. *)
LEMMA SettleRefines ==
    ASSUME MarketInvariant, NEW h \in Houses, SettleNext(h)
    PROVE  \/ auction[h].seller \in Players /\ Ledger!Release(h, auction[h].seller)
           \/ UNCHANGED <<gold, [g \in Houses |-> StandingStake(g)], supply>>
<1>. DEFINE s == [g \in Houses |-> StandingStake(g)]
            a == auction[h]
<1>0. /\ gold \in [Players -> Nat] /\ auction \in [Houses -> Auction]
      /\ a \in Auction /\ IsOpen(h) /\ a.high \in Nat /\ a.seller \in Players
      /\ (a.bidder = NoPlayer <=> a.high = 0)
      /\ (a.bidder # NoPlayer => a.bidder # a.seller)
  BY DEF MarketInvariant, TypeOK, SettleNext, SettlingIsDue, Due, OpenAuctionWellFormed,
         StandingBidIsNotTheSellers, Auction
<1>1. /\ auction'[h].status = "settled"
      /\ \A g \in Houses \ {h} : auction'[g] = auction[g]
  BY <1>0 DEF SettleNext, Auction
<1>2. s' = [s EXCEPT ![h] = Ledger!NoStake]
  BY <1>1 DEF StandingStake, IsOpen, Ledger!NoStake
<1>3. CASE a.bidder = NoPlayer
  <2>1. s[h] = Ledger!NoStake
    BY <1>3 DEF StandingStake, Ledger!NoStake
  <2>2. s' = s
    BY <1>2, <2>1
  <2>. QED
    BY <1>3, <2>2 DEF SettleNext, PaySeller
<1>4. CASE a.bidder # NoPlayer
  <2>1. s[h] = [holder |-> a.bidder, amount |-> a.high]
    BY <1>0, <1>4 DEF StandingStake
  <2>2. gold' = Credit(gold, a.seller, a.high)
    BY <1>4 DEF SettleNext, PaySeller
  <2>3. gold' = Ledger!Moved(NoPlayer, a.seller, s[h].amount)
    BY <1>0, <2>1, <2>2, CreditMoves
  <2>4. s[h].amount > 0 /\ s[h].holder # a.seller
    BY <1>0, <1>4, <2>1
  <2>. QED
    BY <1>0, <1>2, <2>3, <2>4 DEF SettleNext, Ledger!Release
<1>. QED
  BY <1>3, <1>4

(* Opening and cancelling involve no stake, and neither does time. *)
LEMMA NoStakeMovedRefines ==
    ASSUME MarketInvariant,
           \/ Tick
           \/ \E p \in Players, h \in Houses : CancelAuction(p, h)
           \/ \E p \in Players, h \in Houses, minBid, increment \in Prices, d \in Durations :
                OpenAuction(p, h, minBid, increment, d)
    PROVE  UNCHANGED <<gold, [h \in Houses |-> StandingStake(h)], supply>>
<1>0. auction \in [Houses -> Auction]
  BY DEF MarketInvariant, TypeOK
<1>1. ASSUME NEW h \in Houses PROVE StandingStake(h)' = StandingStake(h)
  <2>1. CASE Tick
    BY <1>0, <2>1 DEF Tick, StandingStake, IsOpen, Auction
  <2>2. ASSUME NEW p \in Players, NEW g \in Houses, CancelAuction(p, g)
        PROVE  StandingStake(h)' = StandingStake(h)
    <3>1. auction[g].bidder = NoPlayer
      BY <2>2 DEF CancelAuction, MayCancel, MarketInvariant, OpenAuctionWellFormed
    <3>. QED
      BY <1>0, <2>2, <3>1 DEF CancelAuction, StandingStake, IsOpen, Auction
  <2>3. ASSUME NEW p \in Players, NEW g \in Houses, NEW minBid \in Prices,
               NEW increment \in Prices, NEW d \in Durations,
               OpenAuction(p, g, minBid, increment, d)
        PROVE  StandingStake(h)' = StandingStake(h)
    BY <1>0, <2>3 DEF OpenAuction, StandingStake, IsOpen
  <2>. QED
    BY <2>1, <2>2, <2>3
<1>2. UNCHANGED <<gold, supply>>
  BY DEF Tick, CancelAuction, OpenAuction
<1>. QED
  BY <1>1, <1>2

(* Every step of the market is a step of the ledger or leaves it as it is. *)
LEMMA NextRefines == MarketInvariant /\ [Next]_vars => [Ledger!Next]_(Ledger!ledgerVars)
<1>. SUFFICES ASSUME MarketInvariant, [Next]_vars PROVE [Ledger!Next]_(Ledger!ledgerVars)
  OBVIOUS
<1>1. ASSUME NEW p \in Players, NEW n \in Prices, GrantGold(p, n) \/ PayTithe(p, n)
      PROVE  Ledger!Next
  BY <1>1, GrantRefines, TitheRefines DEF Ledger!Next
<1>2. ASSUME NEW p \in Players, NEW h \in Houses, BuyPrimary(p, h)
      PROVE  Ledger!Next
  BY <1>2, PrimarySaleRefines DEF Ledger!Next
<1>3. ASSUME NEW p \in Players, NEW h \in Houses, BuyListed(p, h)
      PROVE  Ledger!Next
  BY <1>3, ResaleRefines DEF Ledger!Next
<1>4. ASSUME NEW p \in Players, NEW h \in Houses, NEW n \in Prices, PlaceBid(p, h, n)
      PROVE  Ledger!Next
  BY <1>4, BidRefines DEF Ledger!Next
<1>5. ASSUME NEW h \in Houses, SettleNext(h)
      PROVE  [Ledger!Next]_(Ledger!ledgerVars)
  BY <1>5, SettleRefines DEF Ledger!Next, Ledger!ledgerVars
<1>6. ASSUME \/ \E p \in Players, h \in Houses : UnlistHouse(p, h)
             \/ \E p \in Players, h \in Houses, n \in Prices : ListHouse(p, h, n)
             \/ StartSettlement
             \/ UNCHANGED vars
      PROVE  UNCHANGED Ledger!ledgerVars
  <2>1. UNCHANGED <<gold, auction, supply>>
    BY <1>6 DEF UnlistHouse, ListHouse, StartSettlement, vars
  <2>. QED
    BY <2>1, SameAuctionsSameStakes DEF Ledger!ledgerVars
<1>7. ASSUME \/ Tick
             \/ \E p \in Players, h \in Houses : CancelAuction(p, h)
             \/ \E p \in Players, h \in Houses, minBid, increment \in Prices, d \in Durations :
                  OpenAuction(p, h, minBid, increment, d)
      PROVE  UNCHANGED Ledger!ledgerVars
  BY <1>7, NoStakeMovedRefines DEF Ledger!ledgerVars
<1>. QED
  BY <1>1, <1>2, <1>3, <1>4, <1>5, <1>6, <1>7 DEF Next

(* The handlers' receipts implement the ledger: gold moves only as GoldLedger *)
(* lets it move.                                                              *)
THEOREM MarketImplementsLedger == Spec => KeepsGoldLedger
BY InitRefines, NextRefines, MarketInvariantHolds, PTL DEF Spec, KeepsGoldLedger, Ledger!Spec

-----------------------------------------------------------------------------
(* Gold is conserved. *)

Staked == [h \in Houses |-> StandingStake(h).amount]

InWallets == Sums(gold, Players)[Players]
InStakes == Sums(Staked, Houses)[Houses]

Conserved == supply = InWallets + InStakes

LEMMA FinitelyMany == IsFiniteSet(Players) /\ IsFiniteSet(Houses)
BY FiniteAssumption

LEMMA ConservedSums ==
    ASSUME MarketInvariant
    PROVE  GoldConserved <=> Conserved
<1>1. DOMAIN gold = Players /\ DOMAIN Staked = Houses
  BY DEF MarketInvariant, TypeOK, Staked
<1>2. SumFunction(gold) = InWallets /\ SumFunction(Staked) = InStakes
  BY <1>1, SumFunctionIsSum DEF InWallets, InStakes
<1>. QED
  BY <1>2 DEF GoldConserved, Conserved, Staked

LEMMA SumTypes ==
    ASSUME MarketInvariant
    PROVE  /\ gold \in [Players -> Int] /\ InWallets \in Int
           /\ Staked \in [Houses -> Int] /\ InStakes \in Int
<1>1. gold \in [Players -> Int] /\ Staked \in [Houses -> Int]
  BY DEF MarketInvariant, TypeOK, Staked, StandingStake, Auction
<1>. QED
  BY <1>1, FinitelyMany, SumIsInteger DEF InWallets, InStakes

(* One credit or debit *)
LEMMA WalletChanges ==
    ASSUME NEW g \in [Players -> Int], NEW p \in Players, NEW n \in Int
    PROVE  /\ Sums(Credit(g, p, n), Players)[Players] = Sums(g, Players)[Players] + n
           /\ Sums(Debit(g, p, n), Players)[Players] = Sums(g, Players)[Players] - n
           /\ Credit(g, p, n) \in [Players -> Int] /\ Debit(g, p, n) \in [Players -> Int]
<1>1. /\ Credit(g, p, n) \in [Players -> Int] /\ Credit(g, p, n)[p] = g[p] + n
      /\ \A q \in Players \ {p} : Credit(g, p, n)[q] = g[q]
  BY DEF Credit
<1>2. /\ Debit(g, p, n) \in [Players -> Int] /\ Debit(g, p, n)[p] = g[p] + (-n)
      /\ \A q \in Players \ {p} : Debit(g, p, n)[q] = g[q]
  BY DEF Debit
<1>3. Sums(Credit(g, p, n), Players)[Players] = Sums(g, Players)[Players] + n
  BY <1>1, FinitelyMany, SumChanges
<1>4. -n \in Int
  OBVIOUS
<1>5. Sums(Debit(g, p, n), Players)[Players] = Sums(g, Players)[Players] + (-n)
  BY <1>2, <1>4, FinitelyMany, SumChanges
<1>6. Sums(g, Players)[Players] \in Int
  BY FinitelyMany, SumIsInteger
<1>. QED
  BY <1>1, <1>2, <1>3, <1>5, <1>6

(* Stakes that stay as they are. *)
LEMMA SameStakes ==
    ASSUME MarketInvariant, MarketInvariant',
           \A h \in Houses : StandingStake(h).amount' = StandingStake(h).amount
    PROVE  InStakes' = InStakes
<1>1. Staked' = Staked
  BY DEF Staked
<1>. QED
  BY <1>1 DEF InStakes

(* One stake that changes. *)
LEMMA OneStakeChanges ==
    ASSUME MarketInvariant, MarketInvariant', NEW h \in Houses, NEW n \in Int,
           StandingStake(h).amount' = StandingStake(h).amount + n,
           \A k \in Houses \ {h} : auction'[k] = auction[k]
    PROVE  InStakes' = InStakes + n
<1>1. Staked \in [Houses -> Int] /\ Staked' \in [Houses -> Int]
  BY DEF MarketInvariant, TypeOK, Staked, StandingStake, Auction
<1>2. Staked'[h] = Staked[h] + n
  BY DEF Staked
<1>3. \A k \in Houses \ {h} : Staked'[k] = Staked[k]
  BY DEF Staked, StandingStake, IsOpen
<1>. QED
  BY <1>1, <1>2, <1>3, FinitelyMany, SumChanges DEF InStakes

LEMMA StepConserves ==
    ASSUME MarketInvariant, MarketInvariant', [Next]_vars, Conserved
    PROVE  Conserved'
<1>0. /\ gold \in [Players -> Int] /\ InWallets \in Int /\ InStakes \in Int
      /\ supply \in Int /\ supply = InWallets + InStakes
  BY SumTypes DEF MarketInvariant, TypeOK, Conserved
<1>1. ASSUME NEW p \in Players, NEW n \in Prices, GrantGold(p, n)
      PROVE  supply' = InWallets' + InStakes'
  <2>1. InWallets' = InWallets + n
    BY <1>0, <1>1, PricesPositive, WalletChanges DEF GrantGold, InWallets
  <2>2. InStakes' = InStakes
    BY <1>1, SameStakes DEF GrantGold, StandingStake, IsOpen
  <2>. QED
    BY <1>0, <1>1, <2>1, <2>2, PricesPositive DEF GrantGold
<1>2. ASSUME NEW p \in Players, NEW n \in Prices, PayTithe(p, n)
      PROVE  supply' = InWallets' + InStakes'
  <2>1. InWallets' = InWallets - n
    BY <1>0, <1>2, PricesPositive, WalletChanges DEF PayTithe, InWallets
  <2>2. InStakes' = InStakes
    BY <1>2, SameStakes DEF PayTithe, StandingStake, IsOpen
  <2>. QED
    BY <1>0, <1>2, <2>1, <2>2, PricesPositive DEF PayTithe
<1>3. ASSUME NEW p \in Players, NEW h \in Houses, BuyPrimary(p, h)
      PROVE  supply' = InWallets' + InStakes'
  <2>1. InWallets' = InWallets - PrimaryPrice[h]
    BY <1>0, <1>3, WalletChanges DEF BuyPrimary, InWallets
  <2>2. InStakes' = InStakes
    BY <1>3, SameStakes DEF BuyPrimary, StandingStake, IsOpen
  <2>. QED
    BY <1>0, <1>3, <2>1, <2>2 DEF BuyPrimary
<1>4. ASSUME NEW p \in Players, NEW h \in Houses, BuyListed(p, h)
      PROVE  supply' = InWallets' + InStakes'
  <2>. DEFINE owner == prop[h].owner
              price == prop[h].listed
              g == Debit(gold, p, price)
  <2>1. owner \in Players /\ price \in Int
    BY <1>4 DEF BuyListed, MarketInvariant, TypeOK, Property, PlayerOrNone
  <2>2. gold' = Credit(g, owner, price)
    BY <1>4 DEF BuyListed
  <2>3. g \in [Players -> Int] /\ Sums(g, Players)[Players] = InWallets - price
    <3>. HIDE DEF price
    <3>. QED BY <1>0, <2>1, WalletChanges DEF InWallets
  <2>4. InWallets' = InWallets - price + price
    <3>1. Sums(Credit(g, owner, price), Players)[Players] = Sums(g, Players)[Players] + price
      <4>. HIDE DEF g, owner, price
      <4>. QED BY <2>1, <2>3, WalletChanges
    <3>. HIDE DEF g, owner, price
    <3>. QED BY <3>1, <2>2, <2>3 DEF InWallets
  <2>5. InStakes' = InStakes
    BY <1>4, SameStakes DEF BuyListed, StandingStake, IsOpen
  <2>. QED
    BY <1>0, <1>4, <2>1, <2>4, <2>5 DEF BuyListed
<1>5. ASSUME NEW p \in Players, NEW h \in Houses, NEW n \in Prices, PlaceBid(p, h, n)
      PROVE  supply' = InWallets' + InStakes'
  <2>. DEFINE bidder == auction[h].bidder
              high == auction[h].high
              g == Debit(gold, p, n)
              back == IF bidder = NoPlayer THEN 0 ELSE high
  <2>1. /\ auction[h] \in Auction /\ IsOpen(h)
        /\ n \in Int /\ high \in Int /\ (bidder = NoPlayer \/ bidder \in Players)
    BY <1>5, PricesPositive DEF PlaceBid, MarketInvariant, TypeOK, Auction, PlayerOrNone
  <2>2. g \in [Players -> Int] /\ Sums(g, Players)[Players] = InWallets - n
    BY <1>0, <2>1, WalletChanges DEF InWallets
  <2>3. gold' = IF bidder = NoPlayer THEN g ELSE Credit(g, bidder, high)
    BY <1>5 DEF PlaceBid, RefundPriorHigh
  <2>4. InWallets' = InWallets - n + back
    <3>1. CASE bidder = NoPlayer
      <4>. HIDE DEF g
      <4>. QED BY <3>1, <1>0, <2>1, <2>2, <2>3 DEF InWallets
    <3>2. CASE bidder # NoPlayer
      <4>. HIDE DEF g, bidder, high
      <4>1. Sums(Credit(g, bidder, high), Players)[Players] = Sums(g, Players)[Players] + high
        BY <3>2, <2>1, <2>2, WalletChanges
      <4>. QED BY <3>2, <4>1, <2>2, <2>3 DEF InWallets
    <3>. QED
      BY <3>1, <3>2
  <2>5. StandingStake(h).amount = back
    BY <2>1 DEF StandingStake
  <2>6. /\ auction'[h].status = "open" /\ auction'[h].bidder = p /\ auction'[h].high = n
        /\ \A k \in Houses \ {h} : auction'[k] = auction[k]
    BY <1>5, <2>1 DEF PlaceBid, MarketInvariant, TypeOK, IsOpen, Auction
  <2>7. StandingStake(h).amount' = n
    BY <2>6 DEF StandingStake, IsOpen
  <2>8. InStakes' = InStakes + (n - back)
    <3>1. n - back \in Int /\ n = back + (n - back)
      BY <2>1
    <3>. HIDE DEF back
    <3>. QED BY <3>1, <2>5, <2>6, <2>7, OneStakeChanges
  <2>9. back \in Int
    BY <2>1
  <2>. HIDE DEF back
  <2>. QED
    BY <1>0, <1>5, <2>1, <2>4, <2>8, <2>9 DEF PlaceBid
<1>6. ASSUME NEW h \in Houses, SettleNext(h)
      PROVE  supply' = InWallets' + InStakes'
  <2>. DEFINE bidder == auction[h].bidder
              high == auction[h].high
              paid == IF bidder = NoPlayer THEN 0 ELSE high
  <2>1. /\ auction[h] \in Auction /\ IsOpen(h)
        /\ high \in Int /\ auction[h].seller \in Players
    BY <1>6 DEF SettleNext, MarketInvariant, TypeOK, SettlingIsDue, Due, OpenAuctionWellFormed,
       Auction
  <2>2. InWallets' = InWallets + paid
    <3>1. CASE bidder = NoPlayer
      BY <3>1, <1>0, <1>6 DEF SettleNext, PaySeller, InWallets
    <3>2. CASE bidder # NoPlayer
      <4>. DEFINE seller == auction[h].seller
      <4>1. gold' = Credit(gold, seller, high)
        BY <3>2, <1>6 DEF SettleNext, PaySeller
      <4>2. Sums(Credit(gold, seller, high), Players)[Players] = Sums(gold, Players)[Players] + high
        <5>. HIDE DEF seller, high
        <5>. QED BY <1>0, <2>1, WalletChanges DEF seller
      <4>. HIDE DEF seller, high, bidder
      <4>. QED BY <3>2, <4>1, <4>2 DEF InWallets
    <3>. QED
      BY <3>1, <3>2
  <2>3. StandingStake(h).amount = paid
    BY <2>1 DEF StandingStake
  <2>4. /\ auction'[h].status = "settled"
        /\ \A k \in Houses \ {h} : auction'[k] = auction[k]
    BY <1>6, <2>1 DEF SettleNext, MarketInvariant, TypeOK, Auction
  <2>5. StandingStake(h).amount' = 0
    BY <2>4 DEF StandingStake, IsOpen
  <2>6. paid \in Int
    BY <2>1
  <2>7. InStakes' = InStakes + (-paid)
    <3>. HIDE DEF paid
    <3>1. -paid \in Int /\ 0 = paid + (-paid)
      BY <2>6
    <3>. QED BY <3>1, <2>3, <2>4, <2>5, OneStakeChanges
  <2>. HIDE DEF paid
  <2>. QED
    BY <1>0, <1>6, <2>2, <2>6, <2>7 DEF SettleNext
<1>7. ASSUME NEW p \in Players, NEW h \in Houses, CancelAuction(p, h)
      PROVE  supply' = InWallets' + InStakes'
  <2>1. auction[h] \in Auction /\ IsOpen(h) /\ auction[h].high = 0
    BY <1>7 DEF CancelAuction, MayCancel, MarketInvariant, TypeOK
  <2>2. StandingStake(h).amount = 0
    BY <2>1 DEF StandingStake
  <2>3. /\ auction'[h].status = "cancelled"
        /\ \A k \in Houses \ {h} : auction'[k] = auction[k]
    BY <1>7, <2>1 DEF CancelAuction, MarketInvariant, TypeOK, Auction
  <2>4. \A k \in Houses : StandingStake(k).amount' = StandingStake(k).amount
    BY <2>2, <2>3 DEF StandingStake, IsOpen
  <2>5. InStakes' = InStakes
    BY <2>4, SameStakes
  <2>. QED
    BY <1>0, <1>7, <2>5 DEF CancelAuction, InWallets
<1>8. ASSUME NEW p \in Players, NEW h \in Houses, NEW minBid \in Prices,
             NEW increment \in Prices, NEW d \in Durations,
             OpenAuction(p, h, minBid, increment, d)
      PROVE  supply' = InWallets' + InStakes'
  <2>1. StandingStake(h).amount = 0
    BY <1>8 DEF OpenAuction, StandingStake
  <2>2. /\ auction'[h].bidder = NoPlayer
        /\ \A k \in Houses \ {h} : auction'[k] = auction[k]
    BY <1>8 DEF OpenAuction, MarketInvariant, TypeOK
  <2>3. \A k \in Houses : StandingStake(k).amount' = StandingStake(k).amount
    BY <2>1, <2>2 DEF StandingStake, IsOpen
  <2>4. InStakes' = InStakes
    BY <2>3, SameStakes
  <2>. QED
    BY <1>0, <1>8, <2>4 DEF OpenAuction, InWallets
<1>9. CASE Tick
  <2>1. ASSUME NEW k \in Houses
        PROVE  /\ auction'[k].status = auction[k].status /\ auction'[k].high = auction[k].high
               /\ auction'[k].bidder = auction[k].bidder
    BY <1>9 DEF Tick, MarketInvariant, TypeOK, Auction
  <2>2. \A k \in Houses : StandingStake(k).amount' = StandingStake(k).amount
    BY <2>1 DEF StandingStake, IsOpen
  <2>3. InStakes' = InStakes
    BY <2>2, SameStakes
  <2>. QED
    BY <1>0, <1>9, <2>3 DEF Tick, InWallets, Conserved
<1>10. ASSUME auction' = auction, gold' = gold, supply' = supply
       PROVE  supply' = InWallets' + InStakes'
  <2>1. InStakes' = InStakes
    BY <1>10, SameStakes DEF StandingStake, IsOpen
  <2>. QED
    BY <1>0, <1>10, <2>1 DEF InWallets
<1>11. ASSUME NEW p \in Players, NEW h \in Houses,
              UnlistHouse(p, h) \/ \E n \in Prices : ListHouse(p, h, n)
       PROVE  supply' = InWallets' + InStakes'
  BY <1>10, <1>11 DEF UnlistHouse, ListHouse
<1>12. CASE StartSettlement
  BY <1>10, <1>12 DEF StartSettlement, Conserved
<1>13. CASE UNCHANGED vars
  BY <1>10, <1>13 DEF vars, Conserved
<1>. QED
  BY <1>1, <1>2, <1>3, <1>4, <1>5, <1>6, <1>7, <1>8, <1>9, <1>11, <1>12, <1>13 DEF Next, Conserved

(* Wallets and standing bids hold exactly what faucets gave and sinks have  *)
(* not taken, in any market: no receipt of a sale, a bid, a refund or a     *)
(* settlement makes or loses a coin.                                        *)
THEOREM GoldIsConserved == Spec => []GoldConserved
<1>1. Init => Conserved
  <2>. SUFFICES ASSUME Init PROVE Conserved
    OBVIOUS
  <2>1. Staked = [h \in Houses |-> 0]
    BY DEF Init, Staked, StandingStake, IsOpen, NoAuction
  <2>2. InWallets = 0 * Cardinality(Players) /\ InStakes = 0 * Cardinality(Houses)
    <3>1. /\ Sums([p \in Players |-> 0], Players)[Players] = 0 * Cardinality(Players)
          /\ Sums([h \in Houses |-> 0], Houses)[Houses] = 0 * Cardinality(Houses)
      <4>1. 0 \in Int
        OBVIOUS
      <4>. QED
        BY <4>1, FinitelyMany, SumOfConstant, Zenon
    <3>. QED
      BY <2>1, <3>1 DEF Init, InWallets, InStakes
  <2>3. Cardinality(Players) \in Nat /\ Cardinality(Houses) \in Nat
    BY FinitelyMany, FS_CardinalityType
  <2>. QED
    BY <2>2, <2>3 DEF Init, Conserved
<1>2. MarketInvariant /\ MarketInvariant' /\ [Next]_vars /\ Conserved => Conserved'
  BY StepConserves
<1>3. Spec => []Conserved
  BY <1>1, <1>2, MarketInvariantHolds, PTL DEF Spec
<1>4. MarketInvariant => (GoldConserved <=> Conserved)
  BY ConservedSums
<1>. QED
  BY <1>3, <1>4, MarketInvariantHolds, PTL

=============================================================================
