-------------------------- MODULE HouseDurableProofs --------------------------
(***************************************************************************)
(* Theorems of HouseDurable, for every set of players, every price, terms  *)
(* and bids, logs of every length and any number of crashes: what memory,  *)
(* tables and log say of a house and of the wallets is the same.           *)
(*                                                                         *)
(* The argument.  A fold over a log is the fold over all but its last      *)
(* receipt and one step (FoldLemmas), so a statement about replays is kept *)
(* by a step when it is kept by one more receipt.  Handlers write only     *)
(* receipts that fit the house (Decided), and for a coherent house such a  *)
(* receipt has one effect, in the reducer and in the materializer.  At a   *)
(* boot the log is materialized over tables it is already in: Follows says *)
(* how far tables may be behind memory during that, and that tables which  *)
(* showed the house at the end of the log before show it again.  The coins *)
(* of a house in the middle of a handler are those of the house the plan   *)
(* ends in, less what the rest of the plan still moves (Whole).            *)
(***************************************************************************)
EXTENDS HouseDurable, FoldLemmas, TLAPS

PlayerOrNone == Players \cup {NoPlayer}

Rows == [owner : PlayerOrNone, status : {"unowned", "owned", "listed", "auctioning"},
         listed : Nat, sales : Nat]

Auctions == [status : {"none", "open", "settled", "cancelled"}, seller : PlayerOrNone,
             minBid : Nat, increment : Nat, high : Nat, bidder : PlayerOrNone]

(* What a house can be, in memory or in the tables. *)
Houses == {h \in [row : Rows, auction : Auctions] :
             /\ h.row.status = "listed" => h.row.listed # 0
             /\ h.auction.status = "open" => h.auction.seller \in Players}

(* The receipts handlers write. *)
WalletReceipts == [action : {"wallet_credit", "wallet_debit"}, actor : Players, amount : Nat]

PropertyReceipts ==
    [action : {"property_purchased", "property_unlisted", "property_auction_cancelled"},
     actor : Players]
    \cup [action : {"property_transferred"}, actor : Players, seller : Players]
    \cup [action : {"property_listed"}, actor : Players, price : Nat \ {0}]
    \cup [action : {"property_auction_opened"}, actor : Players,
          minBid : Nat \ {0}, increment : Nat \ {0}]
    \cup [action : {"property_bid"}, actor : Players, amount : Nat \ {0}]
    \cup [action : {"property_auction_settled"}, winner : PlayerOrNone,
          seller : Players, price : Nat]

Receipts == WalletReceipts \cup PropertyReceipts

Wallets == [Players -> Nat]

Start == [p \in Players |-> InitialGold]

-----------------------------------------------------------------------------
(* What one receipt leaves behind is a house, or wallets, again. *)

LEMMA ReceiptFields ==
    ASSUME NEW r \in Receipts
    PROVE  /\ r.action \in {"wallet_credit", "wallet_debit"}
                <=> r \in WalletReceipts
           /\ r \in WalletReceipts => r.actor \in Players /\ r.amount \in Nat
           /\ r.action \in {"property_purchased", "property_unlisted",
                            "property_auction_cancelled"} => r.actor \in Players
           /\ r.action = "property_transferred" => r.actor \in Players /\ r.seller \in Players
           /\ r.action = "property_listed" => r.actor \in Players /\ r.price \in Nat \ {0}
           /\ r.action = "property_auction_opened" =>
                r.actor \in Players /\ r.minBid \in Nat \ {0} /\ r.increment \in Nat \ {0}
           /\ r.action = "property_bid" => r.actor \in Players /\ r.amount \in Nat \ {0}
           /\ r.action = "property_auction_settled" =>
                r.winner \in PlayerOrNone /\ r.seller \in Players /\ r.price \in Nat
BY DEF Receipts, WalletReceipts, PropertyReceipts

LEMMA NewHouseType == NewHouse \in Houses
BY DEF NewHouse, Houses, Rows, Auctions, PlayerOrNone

LEMMA WalletTypes ==
    ASSUME NEW g \in Wallets, NEW r \in Receipts
    PROVE  TreasuryReducer(g, r) \in Wallets
BY ReceiptFields DEF TreasuryReducer, Wallets

(* Rows and auctions that reducers and materializer write. *)
LEMMA HouseParts ==
    ASSUME NEW h \in Houses
    PROVE  /\ h.row \in Rows /\ h.auction \in Auctions
           /\ h.row.status = "listed" => h.row.listed # 0
           /\ h.auction.status = "open" => h.auction.seller \in Players
           /\ h = [row |-> h.row, auction |-> h.auction]
BY DEF Houses

LEMMA SoldRow ==
    ASSUME NEW row \in Rows, NEW p \in PlayerOrNone
    PROVE  SoldTo(row, p) \in Rows /\ SoldTo(row, p).status = "owned"
BY DEF SoldTo, Rows

LEMMA StatusWritten ==
    ASSUME NEW row \in Rows
    PROVE  /\ [row EXCEPT !.status = "owned"] \in Rows
           /\ [row EXCEPT !.status = "owned"].status = "owned"
           /\ [row EXCEPT !.status = "auctioning", !.listed = 0] \in Rows
           /\ [row EXCEPT !.status = "auctioning", !.listed = 0].status = "auctioning"
           /\ [row EXCEPT !.status = "owned", !.listed = 0] \in Rows
           /\ [row EXCEPT !.status = "owned", !.listed = 0].status = "owned"
BY DEF Rows

LEMMA PriceWritten ==
    ASSUME NEW row \in Rows, NEW n \in Nat
    PROVE  /\ [row EXCEPT !.status = "listed", !.listed = n] \in Rows
           /\ [row EXCEPT !.status = "listed", !.listed = n].listed = n
BY DEF Rows

LEMMA BidWritten ==
    ASSUME NEW a \in Auctions, NEW n \in Nat, NEW p \in Players
    PROVE  /\ [a EXCEPT !.high = n, !.bidder = p] \in Auctions
           /\ [a EXCEPT !.high = n, !.bidder = p].status = a.status
           /\ [a EXCEPT !.high = n, !.bidder = p].seller = a.seller
BY DEF Auctions, PlayerOrNone

LEMMA AuctionClosed ==
    ASSUME NEW a \in Auctions
    PROVE  /\ [a EXCEPT !.status = "cancelled"] \in Auctions
           /\ [a EXCEPT !.status = "cancelled"].status = "cancelled"
           /\ [a EXCEPT !.status = "settled"] \in Auctions
           /\ [a EXCEPT !.status = "settled"].status = "settled"
BY DEF Auctions

LEMMA NewAuctionType ==
    ASSUME NEW r \in Receipts, r.action = "property_auction_opened"
    PROVE  NewAuction(r) \in Auctions /\ NewAuction(r).seller \in Players
BY ReceiptFields DEF NewAuction, Auctions, PlayerOrNone

LEMMA HouseMade ==
    ASSUME NEW row \in Rows, NEW a \in Auctions, row.status = "listed" => row.listed # 0,
           a.status = "open" => a.seller \in Players
    PROVE  [row |-> row, auction |-> a] \in Houses
BY DEF Houses

(* What the reducer makes of a house, part by part. *)
LEMMA AppliedParts ==
    ASSUME NEW h \in Houses, NEW r \in Receipts
    PROVE  /\ r.action = "property_listed" => Applied(h, r) =
                [row |-> [h.row EXCEPT !.status = "listed", !.listed = r.price], auction |-> h.auction]
           /\ r.action = "property_unlisted" => Applied(h, r) =
                [row |-> [h.row EXCEPT !.status = "owned", !.listed = 0], auction |-> h.auction]
           /\ r.action \in {"property_purchased", "property_transferred"} => Applied(h, r) =
                [row |-> SoldTo(h.row, r.actor), auction |-> h.auction]
           /\ r.action = "property_auction_opened" => Applied(h, r) =
                [row |-> [h.row EXCEPT !.status = "auctioning", !.listed = 0],
                 auction |-> NewAuction(r)]
           /\ r.action = "property_bid" => Applied(h, r) =
                [row |-> h.row, auction |-> [h.auction EXCEPT !.high = r.amount, !.bidder = r.actor]]
           /\ r.action = "property_auction_cancelled" => Applied(h, r) =
                [row |-> [h.row EXCEPT !.status = "owned"],
                 auction |-> [h.auction EXCEPT !.status = "cancelled"]]
           /\ r.action = "property_auction_settled" => Applied(h, r) =
                [row |-> IF r.winner = NoPlayer THEN [h.row EXCEPT !.status = "owned"]
                         ELSE SoldTo(h.row, r.winner),
                 auction |-> [h.auction EXCEPT !.status = "settled"]]
<1>. h \in [row : Rows, auction : Auctions]
  BY DEF Houses
<1>1. /\ r.action = "property_listed" => Applied(h, r) =
           [row |-> [h.row EXCEPT !.status = "listed", !.listed = r.price], auction |-> h.auction]
      /\ r.action = "property_unlisted" => Applied(h, r) =
           [row |-> [h.row EXCEPT !.status = "owned", !.listed = 0], auction |-> h.auction]
  BY DEF Applied
<1>2. r.action \in {"property_purchased", "property_transferred"} => Applied(h, r) =
        [row |-> SoldTo(h.row, r.actor), auction |-> h.auction]
  BY DEF Applied
<1>3. r.action = "property_auction_opened" => Applied(h, r) =
        [row |-> [h.row EXCEPT !.status = "auctioning", !.listed = 0], auction |-> NewAuction(r)]
  BY DEF Applied
<1>4. r.action = "property_bid" => Applied(h, r) =
        [row |-> h.row, auction |-> [h.auction EXCEPT !.high = r.amount, !.bidder = r.actor]]
  BY DEF Applied
<1>5. r.action = "property_auction_cancelled" => Applied(h, r) =
        [row |-> [h.row EXCEPT !.status = "owned"],
         auction |-> [h.auction EXCEPT !.status = "cancelled"]]
  BY DEF Applied
<1>6. r.action = "property_auction_settled" => Applied(h, r) =
        [row |-> IF r.winner = NoPlayer THEN [h.row EXCEPT !.status = "owned"]
                 ELSE SoldTo(h.row, r.winner),
         auction |-> [h.auction EXCEPT !.status = "settled"]]
  BY DEF Applied
<1>. QED
  BY <1>1, <1>2, <1>3, <1>4, <1>5, <1>6

LEMMA ReducerTypes ==
    ASSUME NEW h \in Houses, NEW r \in Receipts
    PROVE  PropertyReducer(h, r) \in Houses
<1>1. /\ h.row \in Rows /\ h.auction \in Auctions
      /\ h.row.status = "listed" => h.row.listed # 0
      /\ h.auction.status = "open" => h.auction.seller \in Players
  BY HouseParts
<1>2. CASE r.action = "property_listed"
  <2>1. Applied(h, r) = [row |-> [h.row EXCEPT !.status = "listed", !.listed = r.price],
                         auction |-> h.auction]
    BY <1>2, AppliedParts
  <2>2. r.price \in Nat /\ r.price # 0
    BY <1>2, ReceiptFields
  <2>3. /\ [h.row EXCEPT !.status = "listed", !.listed = r.price] \in Rows
        /\ [h.row EXCEPT !.status = "listed", !.listed = r.price].listed # 0
    BY <1>1, <2>2, PriceWritten
  <2>4. Applied(h, r) \in Houses
    BY <1>1, <2>1, <2>3, HouseMade
  <2>. QED
    BY <2>4 DEF PropertyReducer
<1>3. CASE r.action = "property_unlisted"
  <2>1. Applied(h, r) = [row |-> [h.row EXCEPT !.status = "owned", !.listed = 0],
                         auction |-> h.auction]
    BY <1>3, AppliedParts
  <2>2. /\ [h.row EXCEPT !.status = "owned", !.listed = 0] \in Rows
        /\ [h.row EXCEPT !.status = "owned", !.listed = 0].status = "owned"
    BY <1>1, StatusWritten
  <2>3. Applied(h, r) \in Houses
    BY <1>1, <2>1, <2>2, HouseMade
  <2>. QED
    BY <2>3 DEF PropertyReducer
<1>4. CASE r.action \in {"property_purchased", "property_transferred"}
  <2>1. Applied(h, r) = [row |-> SoldTo(h.row, r.actor), auction |-> h.auction]
    BY <1>4, AppliedParts
  <2>2. r.actor \in PlayerOrNone
    BY <1>4, ReceiptFields DEF PlayerOrNone
  <2>3. SoldTo(h.row, r.actor) \in Rows /\ SoldTo(h.row, r.actor).status = "owned"
    BY <1>1, <2>2, SoldRow
  <2>4. Applied(h, r) \in Houses
    BY <1>1, <2>1, <2>3, HouseMade
  <2>. QED
    BY <2>4 DEF PropertyReducer
<1>5. CASE r.action = "property_auction_opened"
  <2>1. Applied(h, r) = [row |-> [h.row EXCEPT !.status = "auctioning", !.listed = 0],
                         auction |-> NewAuction(r)]
    BY <1>5, AppliedParts
  <2>2. /\ [h.row EXCEPT !.status = "auctioning", !.listed = 0] \in Rows
        /\ [h.row EXCEPT !.status = "auctioning", !.listed = 0].status = "auctioning"
    BY <1>1, StatusWritten
  <2>3. NewAuction(r) \in Auctions /\ NewAuction(r).seller \in Players
    BY <1>5, NewAuctionType
  <2>4. Applied(h, r) \in Houses
    BY <2>1, <2>2, <2>3, HouseMade
  <2>. QED
    BY <2>4 DEF PropertyReducer
<1>6. CASE r.action = "property_bid"
  <2>. DEFINE a == [h.auction EXCEPT !.high = r.amount, !.bidder = r.actor]
  <2>1. Applied(h, r) = [row |-> h.row, auction |-> a]
    BY <1>6, AppliedParts
  <2>2. r.amount \in Nat /\ r.actor \in Players
    BY <1>6, ReceiptFields
  <2>3. a \in Auctions /\ a.status = h.auction.status /\ a.seller = h.auction.seller
    BY <1>1, <2>2, BidWritten
  <2>4. Applied(h, r) \in Houses
    <3>. HIDE DEF a
    <3>. QED BY <1>1, <2>1, <2>3, HouseMade
  <2>. QED
    BY <2>4 DEF PropertyReducer
<1>7. CASE r.action = "property_auction_cancelled"
  <2>. DEFINE a == [h.auction EXCEPT !.status = "cancelled"]
              row == [h.row EXCEPT !.status = "owned"]
  <2>1. Applied(h, r) = [row |-> row, auction |-> a]
    BY <1>7, AppliedParts
  <2>2. a \in Auctions /\ a.status = "cancelled" /\ row \in Rows /\ row.status = "owned"
    BY <1>1, AuctionClosed, StatusWritten
  <2>3. Applied(h, r) \in Houses
    <3>. HIDE DEF a, row
    <3>. QED BY <2>1, <2>2, HouseMade
  <2>. QED
    BY <2>3 DEF PropertyReducer
<1>8. CASE r.action = "property_auction_settled"
  <2>. DEFINE a == [h.auction EXCEPT !.status = "settled"]
              row == IF r.winner = NoPlayer THEN [h.row EXCEPT !.status = "owned"]
                     ELSE SoldTo(h.row, r.winner)
  <2>1. Applied(h, r) = [row |-> row, auction |-> a]
    BY <1>8, AppliedParts
  <2>2. r.winner \in PlayerOrNone
    BY <1>8, ReceiptFields
  <2>3. row \in Rows /\ row.status = "owned"
    BY <1>1, <2>2, StatusWritten, SoldRow
  <2>4. a \in Auctions /\ a.status = "settled"
    BY <1>1, AuctionClosed
  <2>5. Applied(h, r) \in Houses
    <3>. HIDE DEF a, row
    <3>. QED BY <2>1, <2>3, <2>4, HouseMade
  <2>. QED
    BY <2>5 DEF PropertyReducer
<1>9. CASE r.action \in {"wallet_credit", "wallet_debit"}
  BY <1>9 DEF PropertyReducer, Accepts
<1>10. r.action \in {"wallet_credit", "wallet_debit", "property_listed", "property_unlisted",
           "property_purchased", "property_transferred", "property_auction_opened",
           "property_bid", "property_auction_cancelled", "property_auction_settled"}
  BY DEF Receipts, WalletReceipts, PropertyReceipts
<1>. QED
  BY <1>2, <1>3, <1>4, <1>5, <1>6, <1>7, <1>8, <1>9, <1>10

-----------------------------------------------------------------------------
(* The materializer, part by part. *)

Corrected(row) == IF row.status = "auctioning" THEN [row EXCEPT !.status = "owned"] ELSE row

RowAfter(d, r) ==
    CASE r.action = "property_listed" ->
           IF d.row.owner = r.actor THEN [d.row EXCEPT !.status = "listed", !.listed = r.price]
           ELSE d.row
      [] r.action = "property_unlisted" ->
           IF d.row.owner = r.actor THEN [d.row EXCEPT !.status = "owned", !.listed = 0]
           ELSE d.row
      [] r.action \in {"property_purchased", "property_transferred"} ->
           IF SoldWhere(d, r) THEN SoldTo(d.row, r.actor) ELSE d.row
      [] r.action = "property_auction_opened" ->
           IF d.row.status \in {"owned", "unowned"}
           THEN [d.row EXCEPT !.status = "auctioning", !.listed = 0] ELSE d.row
      [] r.action = "property_auction_cancelled" -> Corrected(d.row)
      [] r.action = "property_auction_settled" ->
           Corrected(IF r.winner # NoPlayer /\ d.row.owner = r.seller
                     THEN SoldTo(d.row, r.winner) ELSE d.row)
      [] OTHER -> d.row

AuctionAfter(d, r) ==
    CASE r.action = "property_auction_opened" -> NewAuction(r)
      [] r.action = "property_bid" ->
           IF d.auction.status = "open"
           THEN [d.auction EXCEPT !.high = r.amount, !.bidder = r.actor] ELSE d.auction
      [] r.action = "property_auction_cancelled" ->
           IF /\ d.auction.status = "open" /\ d.auction.high = 0
              /\ d.auction.seller = r.actor
           THEN [d.auction EXCEPT !.status = "cancelled"] ELSE d.auction
      [] r.action = "property_auction_settled" ->
           IF d.auction.status = "open" THEN [d.auction EXCEPT !.status = "settled"]
           ELSE d.auction
      [] OTHER -> d.auction

LEMMA MaterializeParts ==
    ASSUME NEW d \in Houses, NEW r \in Receipts
    PROVE  Materialize(d, r) = [row |-> RowAfter(d, r), auction |-> AuctionAfter(d, r)]
<1>1. d \in [row : Rows, auction : Auctions]
  BY DEF Houses
<1>2. CASE r.action \in {"property_listed", "property_unlisted", "property_purchased",
                         "property_transferred"}
  BY <1>1, <1>2 DEF Materialize, RowAfter, AuctionAfter, UpdateRow
<1>3. CASE r.action = "property_auction_opened"
  BY <1>1, <1>3 DEF Materialize, MaterializeOpened, RowAfter, AuctionAfter, UpdateRow
<1>4. CASE r.action = "property_bid"
  BY <1>1, <1>4 DEF Materialize, MaterializeBid, RowAfter, AuctionAfter, UpdateAuction
<1>5. CASE r.action = "property_auction_cancelled"
  BY <1>1, <1>5 DEF Materialize, MaterializeCancelled, CorrectStatus, RowAfter, AuctionAfter,
     UpdateAuction, UpdateRow, Corrected
<1>6. CASE r.action = "property_auction_settled"
  BY <1>1, <1>6 DEF Materialize, MaterializeSettled, CorrectStatus, RowAfter, AuctionAfter,
     UpdateAuction, UpdateRow, Corrected
<1>7. CASE r.action \in {"wallet_credit", "wallet_debit"}
  BY <1>1, <1>7 DEF Materialize, RowAfter, AuctionAfter
<1>10. r.action \in {"wallet_credit", "wallet_debit", "property_listed", "property_unlisted",
           "property_purchased", "property_transferred", "property_auction_opened",
           "property_bid", "property_auction_cancelled", "property_auction_settled"}
  BY DEF Receipts, WalletReceipts, PropertyReceipts
<1>. QED
  BY <1>2, <1>3, <1>4, <1>5, <1>6, <1>7, <1>10

LEMMA CorrectedType ==
    ASSUME NEW row \in Rows
    PROVE  /\ Corrected(row) \in Rows /\ Corrected(row).status # "auctioning"
           /\ Corrected(row).status = "listed" => row.status = "listed" /\ Corrected(row) = row
BY DEF Corrected, Rows

LEMMA RowAfterType ==
    ASSUME NEW d \in Houses, NEW r \in Receipts
    PROVE  /\ RowAfter(d, r) \in Rows
           /\ RowAfter(d, r).status = "listed" => RowAfter(d, r).listed # 0
<1>1. d.row \in Rows /\ (d.row.status = "listed" => d.row.listed # 0)
  BY HouseParts
<1>2. CASE r.action \in {"property_listed", "property_unlisted"}
  BY <1>1, <1>2, ReceiptFields DEF RowAfter, Rows
<1>3. CASE r.action \in {"property_purchased", "property_transferred"}
  BY <1>1, <1>3, ReceiptFields, SoldRow DEF RowAfter, PlayerOrNone
<1>4. CASE r.action = "property_auction_opened"
  BY <1>1, <1>4, StatusWritten DEF RowAfter
<1>5. CASE r.action = "property_auction_cancelled"
  BY <1>1, <1>5, CorrectedType DEF RowAfter
<1>6. CASE r.action = "property_auction_settled"
  <2>. DEFINE row == IF r.winner # NoPlayer /\ d.row.owner = r.seller
                     THEN SoldTo(d.row, r.winner) ELSE d.row
  <2>1. row \in Rows /\ (row.status = "listed" => row.listed # 0)
    BY <1>1, <1>6, ReceiptFields, SoldRow
  <2>2. RowAfter(d, r) = Corrected(row)
    BY <1>6 DEF RowAfter
  <2>. HIDE DEF row
  <2>. QED
    BY <2>1, <2>2, CorrectedType
<1>7. CASE r.action \in {"wallet_credit", "wallet_debit", "property_bid"}
  BY <1>1, <1>7 DEF RowAfter
<1>10. r.action \in {"wallet_credit", "wallet_debit", "property_listed", "property_unlisted",
           "property_purchased", "property_transferred", "property_auction_opened",
           "property_bid", "property_auction_cancelled", "property_auction_settled"}
  BY DEF Receipts, WalletReceipts, PropertyReceipts
<1>. QED
  BY <1>2, <1>3, <1>4, <1>5, <1>6, <1>7, <1>10

LEMMA AuctionAfterType ==
    ASSUME NEW d \in Houses, NEW r \in Receipts
    PROVE  /\ AuctionAfter(d, r) \in Auctions
           /\ AuctionAfter(d, r).status = "open" => AuctionAfter(d, r).seller \in Players
<1>1. d.auction \in Auctions /\ (d.auction.status = "open" => d.auction.seller \in Players)
  BY HouseParts
<1>2. CASE r.action = "property_auction_opened"
  BY <1>2, NewAuctionType DEF AuctionAfter
<1>3. CASE r.action = "property_bid"
  <2>. DEFINE a == [d.auction EXCEPT !.high = r.amount, !.bidder = r.actor]
  <2>1. r.amount \in Nat /\ r.actor \in Players
    BY <1>3, ReceiptFields
  <2>2. a \in Auctions /\ a.status = d.auction.status /\ a.seller = d.auction.seller
    BY <1>1, <2>1 DEF Auctions, PlayerOrNone
  <2>3. AuctionAfter(d, r) = IF d.auction.status = "open" THEN a ELSE d.auction
    BY <1>3 DEF AuctionAfter
  <2>. HIDE DEF a
  <2>. QED
    BY <1>1, <2>2, <2>3
<1>4. CASE r.action \in {"property_auction_cancelled", "property_auction_settled"}
  <2>. DEFINE a == [d.auction EXCEPT !.status = "cancelled"]
              b == [d.auction EXCEPT !.status = "settled"]
  <2>1. a \in Auctions /\ a.status = "cancelled" /\ b \in Auctions /\ b.status = "settled"
    BY <1>1, AuctionClosed
  <2>2. AuctionAfter(d, r) \in {a, b, d.auction}
    BY <1>4 DEF AuctionAfter
  <2>. HIDE DEF a, b
  <2>. QED
    BY <1>1, <2>1, <2>2
<1>6. CASE r.action \notin {"property_auction_opened", "property_bid",
                            "property_auction_cancelled", "property_auction_settled"}
  BY <1>1, <1>6 DEF AuctionAfter
<1>. QED
  BY <1>2, <1>3, <1>4, <1>6

LEMMA MaterializeTypes ==
    ASSUME NEW d \in Houses, NEW r \in Receipts
    PROVE  Materialize(d, r) \in Houses
BY MaterializeParts, RowAfterType, AuctionAfterType, HouseMade

-----------------------------------------------------------------------------
(* The folds of a replay, one entry further. *)

LEMMA LargestInDomain ==
    ASSUME NEW l \in Seq(Receipts), NEW s \in SUBSET (DOMAIN l), s # {}
    PROVE  Max(s) \in DOMAIN l /\ l[Max(s)] \in Receipts /\ s \ {Max(s)} \in SUBSET (DOMAIN l)
<1>1. PICK n \in Nat : n = Len(l) /\ DOMAIN l = 1..n
  BY LenProperties
<1>2. Max(s) \in s
  BY <1>1, LargestBelow, Zenon
<1>. QED
  BY <1>1, <1>2, ElementOfSeq

(* The wallets that a log leaves. *)
GoldStep == [u \in Wallets |-> [r \in Receipts |-> TreasuryReducer(u, r)]]

LEMMA GoldFolds ==
    ASSUME NEW t \in Wallets, NEW l \in Seq(Receipts)
    PROVE  FoldsTo(ReplayedGold(t, l), Wallets, GoldStep, t, l)
<1>. DEFINE Body(iter) == [s \in SUBSET (DOMAIN l) |->
               IF s = {} THEN t ELSE TreasuryReducer(iter[s \ {Max(s)}], l[Max(s)])]
            X == CHOOSE iter : iter = Body(iter)
<1>1. GoldStep \in [Wallets -> [Receipts -> Wallets]]
  BY WalletTypes DEF GoldStep
<1>2. PICK W \in [SUBSET (DOMAIN l) -> Wallets] : FoldsBy(W, Wallets, GoldStep, t, l)
  <2>. HIDE DEF Body, X
  <2>. QED BY <1>1, FoldExists, Zenon
<1>3. \A s \in SUBSET (DOMAIN l) : s # {} =>
          Max(s) \in DOMAIN l /\ l[Max(s)] \in Receipts /\ s \ {Max(s)} \in SUBSET (DOMAIN l)
  BY LargestInDomain
<1>4. W = Body(W)
  <2>1. ASSUME NEW s \in SUBSET (DOMAIN l)
        PROVE  W[s] = IF s = {} THEN t ELSE TreasuryReducer(W[s \ {Max(s)}], l[Max(s)])
    BY <1>2, <1>3 DEF FoldsBy, GoldStep
  <2>. QED
    BY <2>1
<1>5. X = Body(X)
  <2>. HIDE DEF Body
  <2>. QED BY <1>4, Zenon
<1>6. FoldsBy(X, Wallets, GoldStep, t, l)
  <2>. HIDE DEF X
  <2>. QED BY <1>3, <1>5 DEF FoldsBy, GoldStep
<1>7. ReplayedGold(t, l) = X[DOMAIN l]
  BY DEF ReplayedGold, FoldLeft, MapThenFoldSet
<1>. QED
  <2>. HIDE DEF X, Body
  <2>. QED BY <1>6, <1>7, Zenon DEF FoldsTo

LEMMA GoldSteps ==
    ASSUME NEW t \in Wallets
    PROVE  /\ ReplayedGold(t, <<>>) = t
           /\ \A l \in Seq(Receipts) : ReplayedGold(t, l) \in Wallets
           /\ \A l \in Seq(Receipts), r \in Receipts :
                  ReplayedGold(t, Append(l, r)) = TreasuryReducer(ReplayedGold(t, l), r)
<1>1. GoldStep \in [Wallets -> [Receipts -> Wallets]]
  BY WalletTypes DEF GoldStep
<1>2. ReplayedGold(t, <<>>) = t
  <2>1. <<>> \in Seq(Receipts)
    BY EmptySeq
  <2>. QED
    BY <2>1, GoldFolds, FoldEmpty, Zenon
<1>3. ASSUME NEW l \in Seq(Receipts), NEW r \in Receipts
      PROVE  ReplayedGold(t, Append(l, r)) = TreasuryReducer(ReplayedGold(t, l), r)
  <2>1. FoldsTo(ReplayedGold(t, l), Wallets, GoldStep, t, l)
    BY GoldFolds, Zenon
  <2>2. Append(l, r) \in Seq(Receipts)
    BY AppendProperties
  <2>3. FoldsTo(ReplayedGold(t, Append(l, r)), Wallets, GoldStep, t, Append(l, r))
    BY <2>2, GoldFolds, Zenon
  <2>4. ReplayedGold(t, l) \in Wallets /\ StepsTo(ReplayedGold(t, Append(l, r)), GoldStep, ReplayedGold(t, l), r)
    BY <1>1, <2>1, <2>3, FoldAppend, Zenon
  <2>5. \A u \in Wallets : GoldStep[u][r] = TreasuryReducer(u, r)
    BY DEF GoldStep
  <2>. QED
    BY <2>4, <2>5, Zenon DEF StepsTo
<1>4. ASSUME NEW l \in Seq(Receipts)
      PROVE  ReplayedGold(t, l) \in Wallets
  BY <1>1, GoldFolds, FoldType, Zenon
<1>. QED
  BY <1>2, <1>3, <1>4, Zenon

(* The house that a log leaves in memory. *)
HouseStep == [u \in Houses |-> [r \in Receipts |-> PropertyReducer(u, r)]]

LEMMA ReductionFolds ==
    ASSUME NEW t \in Houses, NEW l \in Seq(Receipts)
    PROVE  FoldsTo(FoldLeft(PropertyReducer, t, l), Houses, HouseStep, t, l)
<1>. DEFINE Body(iter) == [s \in SUBSET (DOMAIN l) |->
               IF s = {} THEN t ELSE PropertyReducer(iter[s \ {Max(s)}], l[Max(s)])]
            X == CHOOSE iter : iter = Body(iter)
<1>1. HouseStep \in [Houses -> [Receipts -> Houses]]
  BY ReducerTypes DEF HouseStep
<1>2. PICK W \in [SUBSET (DOMAIN l) -> Houses] : FoldsBy(W, Houses, HouseStep, t, l)
  <2>. HIDE DEF Body, X
  <2>. QED BY <1>1, FoldExists, Zenon
<1>3. \A s \in SUBSET (DOMAIN l) : s # {} =>
          Max(s) \in DOMAIN l /\ l[Max(s)] \in Receipts /\ s \ {Max(s)} \in SUBSET (DOMAIN l)
  BY LargestInDomain
<1>4. W = Body(W)
  <2>1. ASSUME NEW s \in SUBSET (DOMAIN l)
        PROVE  W[s] = IF s = {} THEN t ELSE PropertyReducer(W[s \ {Max(s)}], l[Max(s)])
    BY <1>2, <1>3 DEF FoldsBy, HouseStep
  <2>. QED
    BY <2>1
<1>5. X = Body(X)
  <2>. HIDE DEF Body
  <2>. QED BY <1>4, Zenon
<1>6. FoldsBy(X, Houses, HouseStep, t, l)
  <2>. HIDE DEF X
  <2>. QED BY <1>3, <1>5 DEF FoldsBy, HouseStep
<1>7. FoldLeft(PropertyReducer, t, l) = X[DOMAIN l]
  BY DEF FoldLeft, MapThenFoldSet
<1>. QED
  <2>. HIDE DEF X, Body
  <2>. QED BY <1>6, <1>7, Zenon DEF FoldsTo

LEMMA ReductionSteps ==
    ASSUME NEW t \in Houses
    PROVE  /\ FoldLeft(PropertyReducer, t, <<>>) = t
           /\ \A l \in Seq(Receipts) : FoldLeft(PropertyReducer, t, l) \in Houses
           /\ \A l \in Seq(Receipts), r \in Receipts :
                  FoldLeft(PropertyReducer, t, Append(l, r)) = PropertyReducer(FoldLeft(PropertyReducer, t, l), r)
<1>1. HouseStep \in [Houses -> [Receipts -> Houses]]
  BY ReducerTypes DEF HouseStep
<1>2. FoldLeft(PropertyReducer, t, <<>>) = t
  <2>1. <<>> \in Seq(Receipts)
    BY EmptySeq
  <2>. QED
    BY <2>1, ReductionFolds, FoldEmpty, Zenon
<1>3. ASSUME NEW l \in Seq(Receipts), NEW r \in Receipts
      PROVE  FoldLeft(PropertyReducer, t, Append(l, r)) = PropertyReducer(FoldLeft(PropertyReducer, t, l), r)
  <2>1. FoldsTo(FoldLeft(PropertyReducer, t, l), Houses, HouseStep, t, l)
    BY ReductionFolds, Zenon
  <2>2. Append(l, r) \in Seq(Receipts)
    BY AppendProperties
  <2>3. FoldsTo(FoldLeft(PropertyReducer, t, Append(l, r)), Houses, HouseStep, t, Append(l, r))
    BY <2>2, ReductionFolds, Zenon
  <2>4. FoldLeft(PropertyReducer, t, l) \in Houses /\ StepsTo(FoldLeft(PropertyReducer, t, Append(l, r)), HouseStep, FoldLeft(PropertyReducer, t, l), r)
    BY <1>1, <2>1, <2>3, FoldAppend, Zenon
  <2>5. \A u \in Houses : HouseStep[u][r] = PropertyReducer(u, r)
    BY DEF HouseStep
  <2>. QED
    BY <2>4, <2>5, Zenon DEF StepsTo
<1>4. ASSUME NEW l \in Seq(Receipts)
      PROVE  FoldLeft(PropertyReducer, t, l) \in Houses
  BY <1>1, ReductionFolds, FoldType, Zenon
<1>. QED
  BY <1>2, <1>3, <1>4, Zenon

LEMMA HouseSteps ==
    /\ ReplayedHouse(<<>>) = NewHouse
    /\ \A l \in Seq(Receipts) : ReplayedHouse(l) \in Houses
    /\ \A l \in Seq(Receipts), r \in Receipts :
           ReplayedHouse(Append(l, r)) = PropertyReducer(ReplayedHouse(l), r)
BY NewHouseType, ReductionSteps, Zenon DEF ReplayedHouse

(* The tables that a log leaves. *)
TableStep == [u \in Houses |-> [r \in Receipts |-> Materialize(u, r)]]

LEMMA TablesFolds ==
    ASSUME NEW t \in Houses, NEW l \in Seq(Receipts)
    PROVE  FoldsTo(Rematerialized(t, l), Houses, TableStep, t, l)
<1>. DEFINE Body(iter) == [s \in SUBSET (DOMAIN l) |->
               IF s = {} THEN t ELSE Materialize(iter[s \ {Max(s)}], l[Max(s)])]
            X == CHOOSE iter : iter = Body(iter)
<1>1. TableStep \in [Houses -> [Receipts -> Houses]]
  BY MaterializeTypes DEF TableStep
<1>2. PICK W \in [SUBSET (DOMAIN l) -> Houses] : FoldsBy(W, Houses, TableStep, t, l)
  <2>. HIDE DEF Body, X
  <2>. QED BY <1>1, FoldExists, Zenon
<1>3. \A s \in SUBSET (DOMAIN l) : s # {} =>
          Max(s) \in DOMAIN l /\ l[Max(s)] \in Receipts /\ s \ {Max(s)} \in SUBSET (DOMAIN l)
  BY LargestInDomain
<1>4. W = Body(W)
  <2>1. ASSUME NEW s \in SUBSET (DOMAIN l)
        PROVE  W[s] = IF s = {} THEN t ELSE Materialize(W[s \ {Max(s)}], l[Max(s)])
    BY <1>2, <1>3 DEF FoldsBy, TableStep
  <2>. QED
    BY <2>1
<1>5. X = Body(X)
  <2>. HIDE DEF Body
  <2>. QED BY <1>4, Zenon
<1>6. FoldsBy(X, Houses, TableStep, t, l)
  <2>. HIDE DEF X
  <2>. QED BY <1>3, <1>5 DEF FoldsBy, TableStep
<1>7. Rematerialized(t, l) = X[DOMAIN l]
  BY DEF Rematerialized, FoldLeft, MapThenFoldSet
<1>. QED
  <2>. HIDE DEF X, Body
  <2>. QED BY <1>6, <1>7, Zenon DEF FoldsTo

LEMMA TablesSteps ==
    ASSUME NEW t \in Houses
    PROVE  /\ Rematerialized(t, <<>>) = t
           /\ \A l \in Seq(Receipts) : Rematerialized(t, l) \in Houses
           /\ \A l \in Seq(Receipts), r \in Receipts :
                  Rematerialized(t, Append(l, r)) = Materialize(Rematerialized(t, l), r)
<1>1. TableStep \in [Houses -> [Receipts -> Houses]]
  BY MaterializeTypes DEF TableStep
<1>2. Rematerialized(t, <<>>) = t
  <2>1. <<>> \in Seq(Receipts)
    BY EmptySeq
  <2>. QED
    BY <2>1, TablesFolds, FoldEmpty, Zenon
<1>3. ASSUME NEW l \in Seq(Receipts), NEW r \in Receipts
      PROVE  Rematerialized(t, Append(l, r)) = Materialize(Rematerialized(t, l), r)
  <2>1. FoldsTo(Rematerialized(t, l), Houses, TableStep, t, l)
    BY TablesFolds, Zenon
  <2>2. Append(l, r) \in Seq(Receipts)
    BY AppendProperties
  <2>3. FoldsTo(Rematerialized(t, Append(l, r)), Houses, TableStep, t, Append(l, r))
    BY <2>2, TablesFolds, Zenon
  <2>4. Rematerialized(t, l) \in Houses /\ StepsTo(Rematerialized(t, Append(l, r)), TableStep, Rematerialized(t, l), r)
    BY <1>1, <2>1, <2>3, FoldAppend, Zenon
  <2>5. \A u \in Houses : TableStep[u][r] = Materialize(u, r)
    BY DEF TableStep
  <2>. QED
    BY <2>4, <2>5, Zenon DEF StepsTo
<1>4. ASSUME NEW l \in Seq(Receipts)
      PROVE  Rematerialized(t, l) \in Houses
  BY <1>1, TablesFolds, FoldType, Zenon
<1>. QED
  BY <1>2, <1>3, <1>4, Zenon

-----------------------------------------------------------------------------
(* Houses that look the same, and receipts that fit a house. *)

IsOpenAt(h) == h.auction.status = "open"

SameRow(x, y) == x.owner = y.owner /\ x.status = y.status /\ x.listed = y.listed

SameHouse(d, h) ==
    /\ SameRow(d.row, h.row)
    /\ IsOpenAt(d) <=> IsOpenAt(h)
    /\ IsOpenAt(d) => d.auction = h.auction

LEMMA VisibleIsSame ==
    ASSUME NEW d \in Houses, NEW h \in Houses
    PROVE  Visible(d) = Visible(h) <=> SameHouse(d, h)
<1>1. Visible(d) = Visible(h) <=>
        /\ d.row.owner = h.row.owner /\ d.row.status = h.row.status
        /\ d.row.listed = h.row.listed
        /\ Visible(d).openAuction = Visible(h).openAuction
  BY DEF Visible
<1>2. NewHouse.auction.status = "none"
  BY DEF NewHouse
<1>3. /\ Visible(d).openAuction = IF IsOpenAt(d) THEN d.auction ELSE NewHouse.auction
      /\ Visible(h).openAuction = IF IsOpenAt(h) THEN h.auction ELSE NewHouse.auction
  BY DEF Visible, IsOpenAt
<1>4. (Visible(d).openAuction = Visible(h).openAuction) <=>
        /\ IsOpenAt(d) <=> IsOpenAt(h)
        /\ IsOpenAt(d) => d.auction = h.auction
  BY <1>2, <1>3 DEF IsOpenAt
<1>. QED
  BY <1>1, <1>4 DEF SameHouse, SameRow

WellFormed(row) ==
    /\ row.owner = NoPlayer <=> row.status = "unowned"
    /\ row.status # "listed" => row.listed = 0

(* A house as it is while nobody lists or unlists it during an auction. *)
Coherent(h) ==
    /\ WellFormed(h.row)
    /\ IsOpenAt(h) <=> h.row.status = "auctioning"
    /\ IsOpenAt(h) => h.auction.seller = h.row.owner /\ h.auction.minBid > 0
                      /\ (h.auction.bidder = NoPlayer <=> h.auction.high = 0)

(* The receipts a handler may write for such a house. *)
Fits(h, r) ==
    /\ r \in PropertyReceipts
    /\ r.action \in {"property_listed", "property_unlisted"} =>
         h.row.owner = r.actor /\ ~IsOpenAt(h)
    /\ r.action = "property_purchased" => h.row.status = "unowned"
    /\ r.action = "property_transferred" => h.row.status = "listed" /\ h.row.owner = r.seller
    /\ r.action = "property_auction_opened" => h.row.status = "owned" /\ h.row.owner = r.actor
    /\ r.action = "property_bid" =>
         IsOpenAt(h) /\ h.auction.seller # r.actor /\ r.amount >= MinNextBid(h.auction)
    /\ r.action = "property_auction_cancelled" =>
         IsOpenAt(h) /\ h.auction.seller = r.actor /\ h.auction.high = 0
    /\ r.action = "property_auction_settled" =>
         /\ IsOpenAt(h) /\ r.winner = h.auction.bidder /\ r.seller = h.auction.seller
         /\ r.price = h.auction.high

LEMMA SameFits ==
    ASSUME NEW d \in Houses, NEW h \in Houses, SameHouse(d, h), NEW r
    PROVE  (Coherent(h) => Coherent(d)) /\ (Fits(h, r) => Fits(d, r))
<1>1. Coherent(h) => Coherent(d)
  BY DEF SameHouse, SameRow, Coherent, WellFormed, IsOpenAt
<1>2. Fits(h, r) => Fits(d, r)
  BY DEF SameHouse, SameRow, Fits, IsOpenAt
<1>. QED
  BY <1>1, <1>2

(* What a receipt that fits makes of a house. *)
RowReduced(h, r) ==
    CASE r.action = "property_listed" -> [h.row EXCEPT !.status = "listed", !.listed = r.price]
      [] r.action = "property_unlisted" -> [h.row EXCEPT !.status = "owned", !.listed = 0]
      [] r.action \in {"property_purchased", "property_transferred"} -> SoldTo(h.row, r.actor)
      [] r.action = "property_auction_opened" ->
           [h.row EXCEPT !.status = "auctioning", !.listed = 0]
      [] r.action = "property_bid" -> h.row
      [] r.action = "property_auction_cancelled" -> [h.row EXCEPT !.status = "owned"]
      [] r.action = "property_auction_settled" ->
           IF r.winner = NoPlayer THEN [h.row EXCEPT !.status = "owned"]
           ELSE SoldTo(h.row, r.winner)

AuctionReduced(h, r) ==
    CASE r.action \in {"property_listed", "property_unlisted", "property_purchased",
                       "property_transferred"} -> h.auction
      [] r.action = "property_auction_opened" -> NewAuction(r)
      [] r.action = "property_bid" -> [h.auction EXCEPT !.high = r.amount, !.bidder = r.actor]
      [] r.action = "property_auction_cancelled" -> [h.auction EXCEPT !.status = "cancelled"]
      [] r.action = "property_auction_settled" -> [h.auction EXCEPT !.status = "settled"]

(* The fields of it. *)
Shows(row, owner, status, listed) ==
    row.owner = owner /\ row.status = status /\ row.listed = listed

LEMMA ReducedRow ==
    ASSUME NEW h \in Houses, NEW r
    PROVE  LET row == RowReduced(h, r) IN
           /\ r.action = "property_listed" => Shows(row, h.row.owner, "listed", r.price)
           /\ r.action = "property_unlisted" => Shows(row, h.row.owner, "owned", 0)
           /\ r.action \in {"property_purchased", "property_transferred"} =>
                Shows(row, r.actor, "owned", 0)
           /\ r.action = "property_auction_opened" => Shows(row, h.row.owner, "auctioning", 0)
           /\ r.action = "property_bid" => row = h.row
           /\ r.action = "property_auction_cancelled" =>
                Shows(row, h.row.owner, "owned", h.row.listed)
           /\ r.action = "property_auction_settled" /\ r.winner = NoPlayer =>
                Shows(row, h.row.owner, "owned", h.row.listed)
           /\ r.action = "property_auction_settled" /\ r.winner # NoPlayer =>
                Shows(row, r.winner, "owned", 0)
<1>. h.row \in Rows
  BY HouseParts
<1>1. CASE r.action \in {"property_listed", "property_unlisted", "property_auction_opened"}
  BY <1>1 DEF RowReduced, Shows, Rows
<1>2. CASE r.action \in {"property_purchased", "property_transferred"}
  BY <1>2 DEF RowReduced, Shows, SoldTo
<1>3. CASE r.action \in {"property_bid", "property_auction_cancelled"}
  BY <1>3 DEF RowReduced, Shows, Rows
<1>4. CASE r.action = "property_auction_settled"
  BY <1>4 DEF RowReduced, Shows, SoldTo, Rows
<1>. QED
  BY <1>1, <1>2, <1>3, <1>4

LEMMA ReducedAuction ==
    ASSUME NEW h \in Houses, NEW r
    PROVE  LET a == AuctionReduced(h, r) IN
           /\ r.action \in {"property_listed", "property_unlisted", "property_purchased",
                            "property_transferred"} => a = h.auction
           /\ r.action = "property_auction_opened" =>
                /\ a.status = "open" /\ a.seller = r.actor /\ a.minBid = r.minBid
                /\ a.high = 0 /\ a.bidder = NoPlayer
           /\ r.action = "property_bid" =>
                /\ a.status = h.auction.status /\ a.seller = h.auction.seller
                /\ a.minBid = h.auction.minBid /\ a.high = r.amount /\ a.bidder = r.actor
           /\ r.action = "property_auction_cancelled" => a.status = "cancelled"
           /\ r.action = "property_auction_settled" => a.status = "settled"
<1>. h.auction \in Auctions
  BY HouseParts
<1>1. CASE r.action \in {"property_listed", "property_unlisted", "property_purchased",
                         "property_transferred"}
  BY <1>1 DEF AuctionReduced
<1>2. CASE r.action = "property_auction_opened"
  BY <1>2 DEF AuctionReduced, NewAuction
<1>3. CASE r.action = "property_bid"
  BY <1>3 DEF AuctionReduced, Auctions
<1>4. CASE r.action \in {"property_auction_cancelled", "property_auction_settled"}
  BY <1>4 DEF AuctionReduced, Auctions
<1>. QED
  BY <1>1, <1>2, <1>3, <1>4

PropertyActions ==
    {"property_listed", "property_unlisted", "property_purchased", "property_transferred",
     "property_auction_opened", "property_bid", "property_auction_cancelled",
     "property_auction_settled"}

LEMMA FittingReceipt ==
    ASSUME NEW h, NEW r, Fits(h, r)
    PROVE  r \in Receipts /\ r.action \in PropertyActions
BY DEF Fits, Receipts, PropertyReceipts, PropertyActions

LEMMA FitsAccepted ==
    ASSUME NEW h \in Houses, NEW r, Coherent(h), Fits(h, r)
    PROVE  Accepts(h, r)
<1>1. r.action \in PropertyActions
  BY FittingReceipt
<1>2. CASE r.action \in {"property_listed", "property_unlisted", "property_purchased",
                         "property_transferred"}
  BY <1>2 DEF Fits, Accepts, Coherent, WellFormed
<1>3. CASE r.action = "property_auction_opened"
  BY <1>3 DEF Fits, Accepts, Coherent, IsOpenAt
<1>4. CASE r.action \in {"property_bid", "property_auction_cancelled", "property_auction_settled"}
  BY <1>4 DEF Fits, Accepts, IsOpenAt
<1>. QED
  BY <1>1, <1>2, <1>3, <1>4 DEF PropertyActions

LEMMA ReducerParts ==
    ASSUME NEW h \in Houses, NEW r, Coherent(h), Fits(h, r)
    PROVE  PropertyReducer(h, r) = [row |-> RowReduced(h, r), auction |-> AuctionReduced(h, r)]
<1>1. r \in Receipts /\ r.action \in PropertyActions
  BY FittingReceipt
<1>2. PropertyReducer(h, r) = Applied(h, r)
  BY FitsAccepted DEF PropertyReducer
<1>3. CASE r.action = "property_listed"
  BY <1>1, <1>2, <1>3, AppliedParts DEF RowReduced, AuctionReduced
<1>4. CASE r.action = "property_unlisted"
  BY <1>1, <1>2, <1>4, AppliedParts DEF RowReduced, AuctionReduced
<1>5. CASE r.action \in {"property_purchased", "property_transferred"}
  BY <1>1, <1>2, <1>5, AppliedParts DEF RowReduced, AuctionReduced
<1>6. CASE r.action = "property_auction_opened"
  BY <1>1, <1>2, <1>6, AppliedParts DEF RowReduced, AuctionReduced
<1>7. CASE r.action = "property_bid"
  BY <1>1, <1>2, <1>7, AppliedParts DEF RowReduced, AuctionReduced
<1>8. CASE r.action = "property_auction_cancelled"
  BY <1>1, <1>2, <1>8, AppliedParts DEF RowReduced, AuctionReduced
<1>9. CASE r.action = "property_auction_settled"
  BY <1>1, <1>2, <1>9, AppliedParts DEF RowReduced, AuctionReduced
<1>. QED
  BY <1>1, <1>3, <1>4, <1>5, <1>6, <1>7, <1>8, <1>9 DEF PropertyActions

-----------------------------------------------------------------------------
(* What the credits and debits of a log come to. *)

Net(p, l) ==
    FoldLeft(LAMBDA sum, r :
               CASE r.action = "wallet_credit" /\ r.actor = p -> sum + r.amount
                 [] r.action = "wallet_debit" /\ r.actor = p -> sum - r.amount
                 [] OTHER -> sum, 0, l)

Counted(p, sum, r) ==
    CASE r.action = "wallet_credit" /\ r.actor = p -> sum + r.amount
      [] r.action = "wallet_debit" /\ r.actor = p -> sum - r.amount
      [] OTHER -> sum

NetStep(p) == [u \in Int |-> [r \in Receipts |-> Counted(p, u, r)]]

LEMMA NetStepType == ASSUME NEW p PROVE NetStep(p) \in [Int -> [Receipts -> Int]]
<1>1. ASSUME NEW u \in Int, NEW r \in Receipts
      PROVE  Counted(p, u, r) \in Int
  BY ReceiptFields DEF Counted
<1>. QED
  BY <1>1 DEF NetStep

LEMMA NetFolds ==
    ASSUME NEW p, NEW l \in Seq(Receipts)
    PROVE  FoldsTo(Net(p, l), Int, NetStep(p), 0, l)
<1>. DEFINE Body(iter) == [s \in SUBSET (DOMAIN l) |->
               IF s = {} THEN 0 ELSE Counted(p, iter[s \ {Max(s)}], l[Max(s)])]
            X == CHOOSE iter : iter = Body(iter)
<1>1. NetStep(p) \in [Int -> [Receipts -> Int]]
  BY NetStepType
<1>2. PICK W \in [SUBSET (DOMAIN l) -> Int] : FoldsBy(W, Int, NetStep(p), 0, l)
  <2>. HIDE DEF Body, X
  <2>1. 0 \in Int
    OBVIOUS
  <2>. QED BY <1>1, <2>1, FoldExists, Zenon
<1>3. \A s \in SUBSET (DOMAIN l) : s # {} =>
          Max(s) \in DOMAIN l /\ l[Max(s)] \in Receipts /\ s \ {Max(s)} \in SUBSET (DOMAIN l)
  BY LargestInDomain
<1>4. W = Body(W)
  <2>1. ASSUME NEW s \in SUBSET (DOMAIN l)
        PROVE  W[s] = IF s = {} THEN 0 ELSE Counted(p, W[s \ {Max(s)}], l[Max(s)])
    BY <1>2, <1>3 DEF FoldsBy, NetStep
  <2>. QED
    BY <2>1
<1>5. X = Body(X)
  <2>. HIDE DEF Body
  <2>. QED BY <1>4, Zenon
<1>6. FoldsBy(X, Int, NetStep(p), 0, l)
  <2>. HIDE DEF X
  <2>. QED BY <1>3, <1>5 DEF FoldsBy, NetStep
<1>7. Net(p, l) = X[DOMAIN l]
  BY DEF Net, Counted, FoldLeft, MapThenFoldSet
<1>. QED
  <2>. HIDE DEF X, Body
  <2>. QED BY <1>6, <1>7, Zenon DEF FoldsTo

LEMMA NetSteps ==
    ASSUME NEW p
    PROVE  /\ Net(p, <<>>) = 0
           /\ \A l \in Seq(Receipts) : Net(p, l) \in Int
           /\ \A l \in Seq(Receipts), r \in Receipts :
                  Net(p, Append(l, r)) = Counted(p, Net(p, l), r)
<1>1. NetStep(p) \in [Int -> [Receipts -> Int]] /\ 0 \in Int
  BY NetStepType
<1>2. Net(p, <<>>) = 0
  <2>1. <<>> \in Seq(Receipts)
    BY EmptySeq
  <2>. QED
    BY <1>1, <2>1, NetFolds, FoldEmpty, Zenon
<1>3. ASSUME NEW l \in Seq(Receipts), NEW r \in Receipts
      PROVE  Net(p, Append(l, r)) = Counted(p, Net(p, l), r)
  <2>1. FoldsTo(Net(p, l), Int, NetStep(p), 0, l)
    BY NetFolds, Zenon
  <2>2. Append(l, r) \in Seq(Receipts)
    BY AppendProperties
  <2>3. FoldsTo(Net(p, Append(l, r)), Int, NetStep(p), 0, Append(l, r))
    BY <2>2, NetFolds, Zenon
  <2>4. Net(p, l) \in Int /\ StepsTo(Net(p, Append(l, r)), NetStep(p), Net(p, l), r)
    BY <1>1, <2>1, <2>3, FoldAppend, Zenon
  <2>5. \A u \in Int : NetStep(p)[u][r] = Counted(p, u, r)
    BY DEF NetStep
  <2>. QED
    BY <2>4, <2>5, Zenon DEF StepsTo
<1>4. ASSUME NEW l \in Seq(Receipts)
      PROVE  Net(p, l) \in Int
  BY <1>1, NetFolds, FoldType, Zenon
<1>. QED
  BY <1>2, <1>3, <1>4, Zenon

-----------------------------------------------------------------------------
(* One receipt further, memory and tables stay together. *)

LEMMA WalletReceiptsPass ==
    ASSUME NEW r \in WalletReceipts, NEW h \in Houses
    PROVE  PropertyReducer(h, r) = h /\ Materialize(h, r) = h
<1>1. r.action \in {"wallet_credit", "wallet_debit"}
  BY DEF WalletReceipts
<1>. QED
  BY <1>1 DEF PropertyReducer, Accepts, Materialize

LEMMA PropertyReceiptsPass ==
    ASSUME NEW r \in PropertyReceipts, NEW g
    PROVE  TreasuryReducer(g, r) = g
BY DEF PropertyReceipts, TreasuryReducer

LEMMA SameIsSymmetric ==
    ASSUME NEW d, NEW h, SameHouse(d, h)
    PROVE  SameHouse(h, d)
BY DEF SameHouse, SameRow, IsOpenAt

LEMMA SameIsTransitive ==
    ASSUME NEW d, NEW h, NEW e, SameHouse(d, h), SameHouse(h, e)
    PROVE  SameHouse(d, e)
BY DEF SameHouse, SameRow, IsOpenAt

(* A receipt that fits leaves a coherent house. *)
LEMMA CoherentKept ==
    ASSUME NEW h \in Houses, NEW r, Coherent(h), Fits(h, r)
    PROVE  Coherent(PropertyReducer(h, r))
<1>. DEFINE k == PropertyReducer(h, r)
<1>1. k.row = RowReduced(h, r) /\ k.auction = AuctionReduced(h, r)
  BY ReducerParts
<1>2. r \in Receipts /\ r.action \in PropertyActions
  BY FittingReceipt
<1>3. h.row \in Rows /\ h.auction \in Auctions
  BY HouseParts
<1>4. NoPlayer \notin Players
  BY DurableAssumption
<1>. SUFFICES Coherent(k)
  OBVIOUS
<1>. HIDE DEF k
<1>5. CASE r.action = "property_listed"
  BY <1>1, <1>2, <1>3, <1>4, <1>5, ReceiptFields, ReducedRow, ReducedAuction
  DEF Coherent, WellFormed, Fits, IsOpenAt, Shows
<1>6. CASE r.action = "property_unlisted"
  BY <1>1, <1>2, <1>3, <1>4, <1>6, ReceiptFields, ReducedRow, ReducedAuction
  DEF Coherent, WellFormed, Fits, IsOpenAt, Shows
<1>7. CASE r.action \in {"property_purchased", "property_transferred"}
  BY <1>1, <1>2, <1>3, <1>4, <1>7, ReceiptFields, ReducedRow, ReducedAuction
  DEF Coherent, WellFormed, Fits, IsOpenAt, Shows
<1>8. CASE r.action = "property_auction_opened"
  BY <1>1, <1>2, <1>3, <1>4, <1>8, ReceiptFields, ReducedRow, ReducedAuction
  DEF Coherent, WellFormed, Fits, IsOpenAt, Shows
<1>9. CASE r.action = "property_bid"
  BY <1>1, <1>2, <1>3, <1>4, <1>9, ReceiptFields, ReducedRow, ReducedAuction
  DEF Coherent, WellFormed, Fits, IsOpenAt, Shows
<1>10. CASE r.action = "property_auction_cancelled"
  BY <1>1, <1>2, <1>3, <1>4, <1>10, ReceiptFields, ReducedRow, ReducedAuction
  DEF Coherent, WellFormed, Fits, IsOpenAt, Shows
<1>11. CASE r.action = "property_auction_settled"
  BY <1>1, <1>2, <1>3, <1>4, <1>11, ReceiptFields, ReducedRow, ReducedAuction
  DEF Coherent, WellFormed, Fits, IsOpenAt, Shows
<1>. QED
  BY <1>2, <1>5, <1>6, <1>7, <1>8, <1>9, <1>10, <1>11 DEF PropertyActions

(* Houses that look the same still do after a receipt that fits them. *)
LEMMA SameReduced ==
    ASSUME NEW d \in Houses, NEW h \in Houses, NEW r, SameHouse(d, h), Coherent(h), Fits(h, r)
    PROVE  SameHouse(PropertyReducer(d, r), PropertyReducer(h, r))
<1>. DEFINE k == PropertyReducer(h, r)
            c == PropertyReducer(d, r)
<1>1. k.row = RowReduced(h, r) /\ k.auction = AuctionReduced(h, r)
  BY ReducerParts
<1>2. Coherent(d) /\ Fits(d, r)
  BY SameFits
<1>3. c.row = RowReduced(d, r) /\ c.auction = AuctionReduced(d, r)
  BY <1>2, ReducerParts
<1>4. r.action \in PropertyActions
  BY FittingReceipt
<1>5. /\ h.row \in Rows /\ h.auction \in Auctions
      /\ d.row \in Rows /\ d.auction \in Auctions
  BY HouseParts
<1>. SUFFICES SameHouse(c, k)
  OBVIOUS
<1>. HIDE DEF k, c
<1>6. SameRow(c.row, k.row)
  <2>1. SameRow(RowReduced(d, r), RowReduced(h, r))
    BY <1>4, ReducedRow DEF SameHouse, SameRow, Shows, PropertyActions
  <2>. QED
    BY <1>1, <1>3, <2>1
<1>7. /\ IsOpenAt(c) <=> IsOpenAt(k)
      /\ IsOpenAt(c) => c.auction = k.auction
  <2>1. CASE r.action \in {"property_listed", "property_unlisted", "property_purchased",
                           "property_transferred"}
    BY <1>1, <1>3, <2>1 DEF AuctionReduced, SameHouse, IsOpenAt
  <2>2. CASE r.action = "property_auction_opened"
    BY <1>1, <1>3, <2>2 DEF AuctionReduced, IsOpenAt
  <2>3. CASE r.action \in {"property_bid", "property_auction_cancelled",
                           "property_auction_settled"}
    <3>1. d.auction = h.auction
      BY <2>3 DEF Fits, SameHouse, IsOpenAt
    <3>. QED
      BY <1>1, <1>3, <2>3, <3>1 DEF AuctionReduced, IsOpenAt
  <2>. QED
    BY <1>4, <2>1, <2>2, <2>3 DEF PropertyActions
<1>. QED
  BY <1>6, <1>7 DEF SameHouse

(* The row the materializer leaves. *)
LEMMA WrittenRow ==
    ASSUME NEW d \in Houses, NEW r
    PROVE  LET row == RowAfter(d, r) IN
           /\ r.action \in {"property_listed", "property_unlisted"} /\ d.row.owner # r.actor =>
                row = d.row
           /\ r.action = "property_listed" /\ d.row.owner = r.actor =>
                Shows(row, d.row.owner, "listed", r.price)
           /\ r.action = "property_unlisted" /\ d.row.owner = r.actor =>
                Shows(row, d.row.owner, "owned", 0)
           /\ r.action \in {"property_purchased", "property_transferred"} =>
                IF SoldWhere(d, r) THEN Shows(row, r.actor, "owned", 0) ELSE row = d.row
           /\ r.action = "property_auction_opened" =>
                IF d.row.status \in {"owned", "unowned"}
                THEN Shows(row, d.row.owner, "auctioning", 0) ELSE row = d.row
           /\ r.action = "property_bid" => row = d.row
           /\ r.action = "property_auction_settled" /\ r.winner # NoPlayer
                /\ d.row.owner = r.seller => Shows(row, r.winner, "owned", 0)
           /\ (\/ r.action = "property_auction_cancelled"
               \/ r.action = "property_auction_settled"
                    /\ (r.winner = NoPlayer \/ d.row.owner # r.seller)) =>
                IF d.row.status = "auctioning"
                THEN Shows(row, d.row.owner, "owned", d.row.listed) ELSE row = d.row
<1>. d.row \in Rows
  BY HouseParts
<1>1. CASE r.action \in {"property_listed", "property_unlisted", "property_auction_opened"}
  BY <1>1 DEF RowAfter, Shows, Rows
<1>2. CASE r.action \in {"property_purchased", "property_transferred"}
  BY <1>2 DEF RowAfter, Shows, SoldTo
<1>3. CASE r.action \in {"property_bid", "property_auction_cancelled"}
  BY <1>3 DEF RowAfter, Shows, Rows, Corrected
<1>4. CASE r.action = "property_auction_settled" /\ r.winner # NoPlayer /\ d.row.owner = r.seller
  BY <1>4 DEF RowAfter, Shows, SoldTo, Corrected
<1>5. CASE r.action = "property_auction_settled" /\ (r.winner = NoPlayer \/ d.row.owner # r.seller)
  BY <1>5 DEF RowAfter, Shows, Rows, Corrected
<1>. QED
  BY <1>1, <1>2, <1>3, <1>4, <1>5

(* A row that shows the house still does after a receipt that fits it, whatever *)
(* the table of auctions holds.                                                 *)
LEMMA RowsTogether ==
    ASSUME NEW e \in Houses, NEW h \in Houses, NEW r,
           SameRow(e.row, h.row), Coherent(h), Fits(h, r)
    PROVE  SameRow(RowAfter(e, r), RowReduced(h, r))
<1>1. r.action \in PropertyActions
  BY FittingReceipt
<1>2. CASE r.action \in {"property_listed", "property_unlisted"}
  BY <1>2, WrittenRow, ReducedRow DEF SameRow, Fits, Shows
<1>3. CASE r.action = "property_purchased"
  <2>1. SoldWhere(e, r)
    BY <1>3 DEF SoldWhere, SameRow, Fits, Coherent, WellFormed
  <2>. QED
    BY <1>3, <2>1, WrittenRow, ReducedRow DEF SameRow, Shows
<1>4. CASE r.action = "property_transferred"
  <2>1. SoldWhere(e, r)
    BY <1>4 DEF SoldWhere, SameRow, Fits
  <2>. QED
    BY <1>4, <2>1, WrittenRow, ReducedRow DEF SameRow, Shows
<1>5. CASE r.action \in {"property_auction_opened", "property_bid"}
  BY <1>5, WrittenRow, ReducedRow DEF SameRow, Fits, Shows
<1>6. CASE r.action \in {"property_auction_cancelled", "property_auction_settled"}
  <2>1. e.row.status = "auctioning"
    BY <1>6 DEF SameRow, Fits, Coherent
  <2>2. r.action = "property_auction_settled" => e.row.owner = r.seller
    BY <1>6 DEF SameRow, Fits, Coherent
  <2>3. CASE r.action = "property_auction_cancelled" \/ r.winner = NoPlayer
    BY <1>6, <2>1, <2>3, WrittenRow, ReducedRow DEF SameRow, Shows
  <2>4. CASE r.action = "property_auction_settled" /\ r.winner # NoPlayer
    BY <2>2, <2>4, WrittenRow, ReducedRow DEF SameRow, Shows
  <2>. QED
    BY <1>6, <2>3, <2>4
<1>. QED
  BY <1>1, <1>2, <1>3, <1>4, <1>5, <1>6 DEF PropertyActions

(* An open auction that the tables know is kept the same. *)
LEMMA AuctionsTogether ==
    ASSUME NEW e \in Houses, NEW h \in Houses, NEW r, e.auction = h.auction, Fits(h, r)
    PROVE  AuctionAfter(e, r) = AuctionReduced(h, r)
<1>1. r.action \in PropertyActions
  BY FittingReceipt
<1>2. CASE r.action \in {"property_listed", "property_unlisted", "property_purchased",
                         "property_transferred", "property_auction_opened"}
  BY <1>2 DEF AuctionAfter, AuctionReduced
<1>3. CASE r.action \in {"property_bid", "property_auction_cancelled",
                         "property_auction_settled"}
  BY <1>3 DEF AuctionAfter, AuctionReduced, Fits, IsOpenAt
<1>. QED
  BY <1>1, <1>2, <1>3 DEF PropertyActions

LEMMA SameMaterialized ==
    ASSUME NEW d \in Houses, NEW h \in Houses, NEW r, SameHouse(d, h), Coherent(h), Fits(h, r)
    PROVE  SameHouse(Materialize(d, r), PropertyReducer(h, r))
<1>. DEFINE k == PropertyReducer(h, r)
            c == Materialize(d, r)
<1>1. k.row = RowReduced(h, r) /\ k.auction = AuctionReduced(h, r)
  BY ReducerParts
<1>2. r \in Receipts /\ r.action \in PropertyActions
  BY FittingReceipt
<1>3. c.row = RowAfter(d, r) /\ c.auction = AuctionAfter(d, r)
  BY <1>2, MaterializeParts
<1>4. SameRow(c.row, k.row)
  BY <1>1, <1>3, RowsTogether DEF SameHouse
<1>. SUFFICES SameHouse(c, k)
  OBVIOUS
<1>. HIDE DEF k, c
<1>5. CASE d.auction = h.auction
  BY <1>1, <1>3, <1>4, <1>5, AuctionsTogether DEF SameHouse, IsOpenAt
<1>6. CASE ~IsOpenAt(h)
  <2>1. r.action \in {"property_listed", "property_unlisted", "property_purchased",
                      "property_transferred", "property_auction_opened"}
    BY <1>2, <1>6 DEF Fits, PropertyActions
  <2>2. \/ c.auction = k.auction
        \/ c.auction = d.auction /\ k.auction = h.auction
    BY <1>1, <1>3, <2>1 DEF AuctionAfter, AuctionReduced
  <2>. QED
    BY <1>4, <1>6, <2>2 DEF SameHouse, IsOpenAt
<1>. QED
  BY <1>5, <1>6 DEF SameHouse

-----------------------------------------------------------------------------
(* Tables that missed a receipt when a route survived its failure.  They know *)
(* the auction, and the log has a receipt for the owner they show that writes *)
(* a whole row.                                                               *)

SameAuction(d, h) ==
    /\ IsOpenAt(d) <=> IsOpenAt(h)
    /\ IsOpenAt(d) => d.auction = h.auction

Writes(r, owner) ==
    \/ r.action \in {"property_listed", "property_unlisted"} /\ r.actor = owner
    \/ r.action = "property_purchased" /\ owner = NoPlayer
    \/ r.action = "property_transferred" /\ r.seller = owner
    \/ r.action = "property_auction_settled" /\ r.winner # NoPlayer /\ r.seller = owner

WrittenFrom(l, owner) == \E n \in DOMAIN l : Writes(l[n], owner)

Lags(d, h, l) ==
    /\ SameAuction(d, h)
    /\ SameRow(d.row, h.row) \/ WrittenFrom(l, d.row.owner)

LEMMA WrittenFromGrows ==
    ASSUME NEW l \in Seq(Receipts), NEW r \in Receipts, NEW owner
    PROVE  WrittenFrom(Append(l, r), owner) <=> WrittenFrom(l, owner) \/ Writes(r, owner)
<1>1. /\ DOMAIN Append(l, r) = 1..Len(l) + 1 /\ DOMAIN l = 1..Len(l) /\ Len(l) \in Nat
      /\ Append(l, r)[Len(l) + 1] = r
      /\ \A n \in 1..Len(l) : Append(l, r)[n] = l[n]
  OBVIOUS
<1>2. 1..Len(l) + 1 = (1..Len(l)) \cup {Len(l) + 1}
  BY <1>1
<1>. QED
  BY <1>1, <1>2, Zenon DEF WrittenFrom

(* The first receipt for the owner a row shows is one the materializer takes: *)
(* from then on the row is the house's.                                       *)
LEMMA WritesTaken ==
    ASSUME NEW e \in Houses, NEW h \in Houses, NEW r, Fits(h, r)
    PROVE  IF Writes(r, e.row.owner) THEN SameRow(RowAfter(e, r), RowReduced(h, r))
           ELSE RowAfter(e, r).owner = e.row.owner
<1>1. r.action \in PropertyActions
  BY FittingReceipt
<1>2. CASE r.action \in {"property_auction_opened", "property_bid", "property_auction_cancelled"}
  BY <1>2, WrittenRow DEF Writes, Shows
<1>6. CASE r.action \in {"property_listed", "property_unlisted"}
  BY <1>6, WrittenRow, ReducedRow DEF Writes, Shows, SameRow, Fits
<1>3. CASE r.action \in {"property_purchased", "property_transferred"}
  <2>1. SoldWhere(e, r) <=> Writes(r, e.row.owner)
    BY <1>3 DEF SoldWhere, Writes
  <2>. QED
    BY <1>3, <2>1, WrittenRow, ReducedRow DEF SameRow, Shows
<1>4. CASE r.action = "property_auction_settled" /\ r.winner # NoPlayer /\ e.row.owner = r.seller
  BY <1>4, WrittenRow, ReducedRow DEF SameRow, Shows, Writes
<1>5. CASE r.action = "property_auction_settled" /\ (r.winner = NoPlayer \/ e.row.owner # r.seller)
  BY <1>5, WrittenRow DEF Writes, Shows
<1>. QED
  BY <1>1, <1>2, <1>3, <1>4, <1>5, <1>6 DEF PropertyActions

LEMMA LagsKept ==
    ASSUME NEW d \in Houses, NEW h \in Houses, NEW l \in Seq(Receipts), NEW r,
           Lags(d, h, l), Coherent(h), Fits(h, r)
    PROVE  Lags(Materialize(d, r), PropertyReducer(h, r), Append(l, r))
<1>. DEFINE k == PropertyReducer(h, r)
            c == Materialize(d, r)
<1>1. k.row = RowReduced(h, r) /\ k.auction = AuctionReduced(h, r)
  BY ReducerParts
<1>2. r \in Receipts /\ r.action \in PropertyActions
  BY FittingReceipt
<1>3. c.row = RowAfter(d, r) /\ c.auction = AuctionAfter(d, r)
  BY <1>2, MaterializeParts
<1>4. SameRow(c.row, k.row) \/ WrittenFrom(Append(l, r), c.row.owner)
  <2>1. CASE SameRow(d.row, h.row)
    BY <1>1, <1>3, <2>1, RowsTogether
  <2>2. CASE WrittenFrom(l, d.row.owner)
    BY <1>1, <1>2, <1>3, <2>2, WritesTaken, WrittenFromGrows
  <2>. QED
    BY <2>1, <2>2 DEF Lags
<1>. SUFFICES SameAuction(c, k)
  BY <1>4 DEF Lags
<1>. HIDE DEF k, c
<1>5. CASE d.auction = h.auction
  BY <1>1, <1>3, <1>5, AuctionsTogether DEF SameAuction, IsOpenAt
<1>6. CASE ~IsOpenAt(h)
  <2>1. r.action \in {"property_listed", "property_unlisted", "property_purchased",
                      "property_transferred", "property_auction_opened"}
    BY <1>2, <1>6 DEF Fits, PropertyActions
  <2>2. \/ c.auction = k.auction
        \/ c.auction = d.auction /\ k.auction = h.auction
    BY <1>1, <1>3, <2>1 DEF AuctionAfter, AuctionReduced
  <2>. QED
    BY <1>6, <2>2 DEF Lags, SameAuction, IsOpenAt
<1>. QED
  BY <1>5, <1>6 DEF Lags, SameAuction

(* A receipt of a route that the tables miss. *)
LEMMA LagsBehind ==
    ASSUME NEW d \in Houses, NEW h \in Houses, NEW l \in Seq(Receipts), NEW r,
           Lags(d, h, l), Coherent(h), Fits(h, r),
           r.action \in {"property_listed", "property_unlisted", "property_purchased",
                         "property_transferred"}
    PROVE  Lags(d, PropertyReducer(h, r), Append(l, r))
<1>1. PropertyReducer(h, r).auction = h.auction
  BY ReducerParts, ReducedAuction
<1>2. r \in Receipts
  BY FittingReceipt
<1>3. SameRow(d.row, h.row) => Writes(r, d.row.owner)
  BY DEF SameRow, Writes, Fits, Coherent, WellFormed
<1>. QED
  BY <1>1, <1>2, <1>3, WrittenFromGrows DEF Lags, SameAuction, IsOpenAt

-----------------------------------------------------------------------------
(* What becomes of tables d over which a log is materialized that leaves the *)
(* house h in memory: e.  Its row is the house's from the first receipt that *)
(* found the owner it asks for, and before that still shows the owner and the *)
(* price it had.                                                             *)

KeptStatuses(d, h) ==
    IF d.row.status = "listed" THEN {"listed"}
    ELSE IF IsOpenAt(h) THEN {"auctioning"}
    ELSE IF d.row.status = "owned" THEN {"owned"} ELSE {"owned", "auctioning"}

RowKept(d, h, e) ==
    /\ e.row.owner = d.row.owner /\ e.row.owner # NoPlayer
    /\ e.row.listed = d.row.listed
    /\ e.row.status \in KeptStatuses(d, h)

AuctionReached(d, h, e) ==
    \/ h.auction = NewHouse.auction /\ e.auction = d.auction
    \/ e.auction = h.auction

Follows(d, h, e) ==
    /\ AuctionReached(d, h, e)
    /\ SameRow(e.row, h.row) \/ RowKept(d, h, e)

(* The same of tables with any row: e differs from the house only as long as  *)
(* the log l has no receipt for the owner d showed.                           *)
Reaches(d, h, e, l) ==
    /\ AuctionReached(d, h, e)
    /\ \/ SameRow(e.row, h.row)
       \/ e.row.owner = d.row.owner /\ ~WrittenFrom(l, d.row.owner)

LEMMA FollowsStart ==
    ASSUME NEW d \in Houses, WellFormed(d.row)
    PROVE  Follows(d, NewHouse, d)
<1>1. d.row \in Rows
  BY HouseParts
<1>. QED
  BY <1>1 DEF Follows, AuctionReached, RowKept, KeptStatuses, WellFormed, NewHouse, SameRow,
     IsOpenAt, Rows

LEMMA ReachesStart ==
    ASSUME NEW d \in Houses
    PROVE  Reaches(d, NewHouse, d, <<>>)
BY DEF Reaches, AuctionReached, WrittenFrom

LEMMA AuctionReachedKept ==
    ASSUME NEW d \in Houses, NEW h \in Houses, NEW e \in Houses, NEW r,
           AuctionReached(d, h, e), Coherent(h), Fits(h, r)
    PROVE  AuctionReached(d, PropertyReducer(h, r), Materialize(e, r))
<1>. DEFINE k == PropertyReducer(h, r)
            c == Materialize(e, r)
<1>1. k.auction = AuctionReduced(h, r)
  BY ReducerParts
<1>2. r \in Receipts /\ r.action \in PropertyActions
  BY FittingReceipt
<1>3. c.auction = AuctionAfter(e, r)
  BY <1>2, MaterializeParts
<1>. SUFFICES AuctionReached(d, k, c)
  OBVIOUS
<1>. HIDE DEF k, c
<1>4. CASE e.auction = h.auction
  BY <1>1, <1>3, <1>4, AuctionsTogether DEF AuctionReached
<1>5. CASE h.auction = NewHouse.auction /\ e.auction = d.auction
  <2>1. ~IsOpenAt(h)
    BY <1>5 DEF IsOpenAt, NewHouse
  <2>2. r.action \in {"property_listed", "property_unlisted", "property_purchased",
                      "property_transferred", "property_auction_opened"}
    BY <1>2, <2>1 DEF Fits, PropertyActions
  <2>. QED
    BY <1>1, <1>3, <1>5, <2>2 DEF AuctionAfter, AuctionReduced, AuctionReached
<1>. QED
  BY <1>4, <1>5 DEF AuctionReached

LEMMA ReachesKept ==
    ASSUME NEW d \in Houses, NEW h \in Houses, NEW e \in Houses,
           NEW l \in Seq(Receipts), NEW r,
           Reaches(d, h, e, l), Coherent(h), Fits(h, r)
    PROVE  Reaches(d, PropertyReducer(h, r), Materialize(e, r), Append(l, r))
<1>. DEFINE k == PropertyReducer(h, r)
            c == Materialize(e, r)
<1>1. k.row = RowReduced(h, r)
  BY ReducerParts
<1>2. r \in Receipts
  BY FittingReceipt
<1>3. c.row = RowAfter(e, r)
  BY <1>2, MaterializeParts
<1>4. AuctionReached(d, k, c)
  BY AuctionReachedKept DEF Reaches
<1>. SUFFICES \/ SameRow(c.row, k.row)
              \/ c.row.owner = d.row.owner /\ ~WrittenFrom(Append(l, r), d.row.owner)
  BY <1>4 DEF Reaches
<1>. HIDE DEF k, c
<1>5. CASE SameRow(e.row, h.row)
  BY <1>1, <1>3, <1>5, RowsTogether
<1>6. CASE e.row.owner = d.row.owner /\ ~WrittenFrom(l, d.row.owner)
  BY <1>1, <1>2, <1>3, <1>6, WritesTaken, WrittenFromGrows
<1>. QED
  BY <1>5, <1>6 DEF Reaches

LEMMA FollowsKept ==
    ASSUME NEW d \in Houses, WellFormed(d.row), NEW h \in Houses, NEW e \in Houses, NEW r,
           Follows(d, h, e), Coherent(h), Fits(h, r)
    PROVE  Follows(d, PropertyReducer(h, r), Materialize(e, r))
<1>. DEFINE k == PropertyReducer(h, r)
            c == Materialize(e, r)
<1>1. k.row = RowReduced(h, r) /\ k.auction = AuctionReduced(h, r)
  BY ReducerParts
<1>2. r \in Receipts /\ r.action \in PropertyActions
  BY FittingReceipt
<1>3. c.row = RowAfter(e, r) /\ c.auction = AuctionAfter(e, r)
  BY <1>2, MaterializeParts
<1>. SUFFICES Follows(d, k, c)
  OBVIOUS
<1>. HIDE DEF k, c
<1>4. AuctionReached(d, k, c)
  BY AuctionReachedKept DEF Follows, k, c
<1>5. SameRow(c.row, k.row) \/ RowKept(d, k, c)
  <2>1. CASE SameRow(e.row, h.row)
    BY <1>1, <1>3, <2>1, RowsTogether
  <2>2. CASE RowKept(d, h, e)
    <3>1. CASE r.action \in {"property_listed", "property_unlisted"}
      <4>1. CASE e.row.owner = r.actor
        BY <1>1, <1>3, <3>1, <4>1, WrittenRow, ReducedRow DEF SameRow, Shows, Fits
      <4>2. CASE e.row.owner # r.actor
        <5>1. c.row = e.row /\ k.auction = h.auction
          BY <1>1, <1>3, <3>1, <4>2, WrittenRow, ReducedAuction
        <5>. QED
          BY <2>2, <5>1 DEF RowKept, KeptStatuses, IsOpenAt
      <4>. QED
        BY <4>1, <4>2
    <3>2. CASE r.action \in {"property_purchased", "property_transferred"}
      <4>1. CASE SoldWhere(e, r)
        BY <1>1, <1>3, <3>2, <4>1, WrittenRow, ReducedRow DEF SameRow, Shows
      <4>2. CASE ~SoldWhere(e, r)
        <5>1. c.row = e.row /\ k.auction = h.auction
          BY <1>1, <1>3, <3>2, <4>2, WrittenRow, ReducedAuction
        <5>. QED
          BY <2>2, <5>1 DEF RowKept, KeptStatuses, IsOpenAt
      <4>. QED
        BY <4>1, <4>2
    <3>3. CASE r.action = "property_auction_opened"
      <4>1. IsOpenAt(k)
        BY <1>1, <3>3, ReducedAuction DEF IsOpenAt
      <4>2. IF e.row.status \in {"owned", "unowned"}
            THEN Shows(c.row, e.row.owner, "auctioning", 0) ELSE c.row = e.row
        BY <1>3, <3>3, WrittenRow
      <4>. QED
        BY <2>2, <4>1, <4>2 DEF RowKept, KeptStatuses, WellFormed, Shows
    <3>4. CASE r.action = "property_bid"
      <4>1. c.row = e.row
        BY <1>3, <3>4, WrittenRow
      <4>2. IsOpenAt(k) = IsOpenAt(h)
        BY <1>1, <3>4, ReducedAuction DEF IsOpenAt
      <4>. QED
        BY <2>2, <4>1, <4>2 DEF RowKept, KeptStatuses
    <3>5. CASE r.action = "property_auction_settled" /\ r.winner # NoPlayer
                 /\ e.row.owner = r.seller
      BY <1>1, <1>3, <3>5, WrittenRow, ReducedRow DEF SameRow, Shows
    <3>6. CASE \/ r.action = "property_auction_cancelled"
               \/ r.action = "property_auction_settled"
                    /\ (r.winner = NoPlayer \/ e.row.owner # r.seller)
      <4>1. IsOpenAt(h) /\ ~IsOpenAt(k)
        BY <1>1, <3>6, ReducedAuction DEF IsOpenAt, Fits
      <4>2. IF e.row.status = "auctioning"
            THEN Shows(c.row, e.row.owner, "owned", e.row.listed) ELSE c.row = e.row
        BY <1>3, <3>6, WrittenRow
      <4>. QED
        BY <2>2, <4>1, <4>2 DEF RowKept, KeptStatuses, Shows
    <3>. QED
      BY <1>2, <3>1, <3>2, <3>3, <3>4, <3>5, <3>6 DEF PropertyActions
  <2>. QED
    BY <2>1, <2>2 DEF Follows
<1>. QED
  BY <1>4, <1>5 DEF Follows

(* Tables that showed the house the log leaves show it again. *)
LEMMA AuctionEnd ==
    ASSUME NEW d, NEW h, NEW e, SameAuction(d, h), AuctionReached(d, h, e)
    PROVE  SameAuction(e, h)
BY DEF AuctionReached, SameAuction, IsOpenAt, NewHouse

LEMMA FollowsEnd ==
    ASSUME NEW d \in Houses, NEW h \in Houses, NEW e \in Houses,
           SameHouse(d, h), Coherent(h), Follows(d, h, e)
    PROVE  SameHouse(e, h)
<1>1. d.row \in Rows /\ h.row \in Rows
  BY HouseParts
<1>2. SameRow(e.row, h.row)
  <2>1. CASE RowKept(d, h, e)
    <3>1. h.row.status = "listed" => e.row.status = "listed"
      BY <2>1 DEF RowKept, KeptStatuses, SameHouse, SameRow
    <3>2. h.row.status # "listed" => h.row.status = e.row.status
      BY <1>1, <2>1 DEF RowKept, KeptStatuses, SameHouse, SameRow, Coherent, WellFormed, Rows
    <3>. QED
      BY <2>1, <3>1, <3>2 DEF RowKept, SameHouse, SameRow
  <2>. QED
    BY <2>1 DEF Follows
<1>3. /\ IsOpenAt(e) <=> IsOpenAt(h)
      /\ IsOpenAt(e) => e.auction = h.auction
  BY AuctionEnd DEF Follows, SameHouse, SameAuction
<1>. QED
  BY <1>2, <1>3 DEF SameHouse

(* Tables that had missed a receipt, too. *)
LEMMA ReachesEnd ==
    ASSUME NEW d \in Houses, NEW h \in Houses, NEW e \in Houses, NEW l,
           Lags(d, h, l), Coherent(h), WellFormed(d.row) => Follows(d, h, e),
           Reaches(d, h, e, l)
    PROVE  SameHouse(e, h)
<1>1. CASE SameRow(d.row, h.row)
  <2>1. SameHouse(d, h)
    BY <1>1 DEF Lags, SameAuction, SameHouse
  <2>2. WellFormed(d.row)
    BY <2>1, SameFits DEF Coherent
  <2>. QED
    BY <2>1, <2>2, FollowsEnd
<1>2. CASE WrittenFrom(l, d.row.owner)
  <2>1. SameRow(e.row, h.row) /\ SameAuction(e, h)
    BY <1>2, AuctionEnd DEF Reaches, Lags
  <2>. QED
    BY <2>1 DEF SameHouse, SameAuction
<1>. QED
  BY <1>1, <1>2 DEF Lags

-----------------------------------------------------------------------------
(* What a handler may decide to write: wallet receipts, only the first of them *)
(* a debit, and then the one that tells of the house.                          *)

Plan(s) ==
    \/ s = <<>>
    \/ \E r \in PropertyReceipts : s = <<r>>
    \/ \E w \in WalletReceipts, r \in PropertyReceipts : s = <<w, r>>
    \/ \E w \in WalletReceipts, v \in WalletReceipts, r \in PropertyReceipts :
         v.action = "wallet_credit" /\ s = <<w, v, r>>

Signed(w) == IF w.action = "wallet_credit" THEN w.amount ELSE 0 - w.amount

(* The coins the rest of a plan brings to the wallets. *)
Moved(s) ==
    IF Len(s) <= 1 THEN 0
    ELSE IF Len(s) = 2 THEN Signed(s[1])
    ELSE Signed(s[1]) + Signed(s[2])

LEMMA PlanParts ==
    ASSUME NEW s, Plan(s), s # <<>>
    PROVE  /\ Plan(Tail(s)) /\ Head(s) \in Receipts /\ Last(s) \in PropertyReceipts
           /\ Tail(s) = <<>> => /\ Head(s) = Last(s) /\ Moved(s) = 0 /\ Len(s) = 1
           /\ Tail(s) # <<>> =>
                /\ Head(s) \in WalletReceipts /\ Last(Tail(s)) = Last(s) /\ Len(s) > 1
                /\ Head(Tail(s)).action # "wallet_debit"
                /\ Moved(s) = Signed(Head(s)) + Moved(Tail(s))
<1>1. CASE \E r \in PropertyReceipts : s = <<r>>
  <2>1. PICK r \in PropertyReceipts : s = <<r>>
    BY <1>1
  <2>2. Head(s) = r /\ Tail(s) = <<>> /\ Last(s) = r /\ Len(s) = 1
    BY <2>1 DEF Last
  <2>. QED
    BY <2>1, <2>2 DEF Plan, Moved, Receipts
<1>2. CASE \E w \in WalletReceipts, r \in PropertyReceipts : s = <<w, r>>
  <2>1. PICK w \in WalletReceipts, r \in PropertyReceipts : s = <<w, r>>
    BY <1>2
  <2>2. /\ Head(s) = w /\ Tail(s) = <<r>> /\ Last(s) = r /\ Len(s) = 2
        /\ Len(Tail(s)) = 1 /\ Last(Tail(s)) = r /\ Head(Tail(s)) = r
    BY <2>1 DEF Last
  <2>3. r.action # "wallet_debit"
    BY DEF PropertyReceipts
  <2>4. Signed(w) \in Int
    BY DEF Signed, WalletReceipts
  <2>5. Moved(s) = Signed(w) /\ Moved(Tail(s)) = 0
    BY <2>1, <2>2 DEF Moved
  <2>6. Tail(s) # <<>>
    BY <2>2
  <2>7. Plan(Tail(s))
    BY <2>2 DEF Plan
  <2>. QED
    BY <2>1, <2>2, <2>3, <2>4, <2>5, <2>6, <2>7 DEF Receipts
<1>3. CASE \E w \in WalletReceipts, v \in WalletReceipts, r \in PropertyReceipts :
             v.action = "wallet_credit" /\ s = <<w, v, r>>
  <2>1. PICK w \in WalletReceipts, v \in WalletReceipts, r \in PropertyReceipts :
               v.action = "wallet_credit" /\ s = <<w, v, r>>
    BY <1>3
  <2>2. /\ Head(s) = w /\ Tail(s) = <<v, r>> /\ Last(s) = r /\ Len(s) = 3
        /\ Len(Tail(s)) = 2 /\ Last(Tail(s)) = r /\ Head(Tail(s)) = v
    BY <2>1 DEF Last
  <2>3. Signed(w) \in Int /\ Signed(v) \in Int
    BY DEF Signed, WalletReceipts
  <2>5. Moved(s) = Signed(w) + Signed(v) /\ Moved(Tail(s)) = Signed(v)
    BY <2>1, <2>2 DEF Moved
  <2>6. Tail(s) # <<>>
    BY <2>2
  <2>7. Plan(Tail(s))
    BY <2>2 DEF Plan
  <2>. QED
    BY <2>1, <2>2, <2>3, <2>5, <2>6, <2>7 DEF Receipts
<1>. QED
  BY <1>1, <1>2, <1>3 DEF Plan

-----------------------------------------------------------------------------
(* The invariant, in the order in which its parts need each other. *)

Types ==
    /\ log \in Seq(Receipts) /\ gold \in Wallets /\ house \in Houses /\ db \in Houses
    /\ up \in BOOLEAN /\ begun \in BOOLEAN /\ overlapped \in BOOLEAN /\ torn \in BOOLEAN
    /\ survived \subseteq {"written", "projected"} /\ ("written" \in survived => torn)

Plans == Plan(todo) /\ (todo # <<>> => up) /\ (begun => todo # <<>>)

(* The debit a plan begins with was checked, and nothing has moved since. *)
Paid ==
    todo # <<>> /\ Head(todo).action = "wallet_debit"
      => gold[Head(todo).actor] >= Head(todo).amount

(* No receipt is in the log that memory never saw. *)
AllSeen == "written" \notin survived

GoldReplayed == up /\ AllSeen => gold = ReplayedGold(Start, log)

Counts ==
    AllSeen => \A p \in Players : ReplayedGold(Start, log)[p] = InitialGold + Net(p, log)

WalletInvariant == Types /\ Plans /\ Paid /\ GoldReplayed /\ Counts

(* The receipt that ends a plan still fits the house. *)
Fitting == ~overlapped /\ todo # <<>> => Fits(house, Last(todo))

Intact == ~overlapped /\ AllSeen

(* Any tables over which the log is materialized come to follow it. *)
Converges ==
    Intact => /\ Coherent(ReplayedHouse(log))
              /\ \A d \in Houses :
                   /\ Reaches(d, ReplayedHouse(log), Rematerialized(d, log), log)
                   /\ WellFormed(d.row) => Follows(d, ReplayedHouse(log), Rematerialized(d, log))

(* Memory shows the house the log leaves, and so do the tables unless they    *)
(* missed a receipt; while the process is down the tables will once the log   *)
(* is materialized over them.                                                 *)
Together ==
    Intact =>
      IF up THEN /\ SameHouse(house, ReplayedHouse(log))
                 /\ Lags(db, ReplayedHouse(log), log)
                 /\ "projected" \notin survived => SameHouse(db, ReplayedHouse(log))
      ELSE SameHouse(Rematerialized(db, log), ReplayedHouse(log))

HouseInvariant == Fitting /\ Converges /\ Together

Total(g) == Sums(g, Players)[Players]

(* What a house holds of the coins granted: the standing bid and its price. *)
Worth(h) == (IF IsOpenAt(h) THEN h.auction.high ELSE 0)
            + (IF h.row.owner = NoPlayer THEN 0 ELSE PrimaryPrice)

Balanced(g, n, h) == Total(g) + n + Worth(h) = InitialGold * Cardinality(Players)

Whole ==
    ~torn /\ ~overlapped =>
      /\ ~begun => Balanced(ReplayedGold(Start, log), 0, ReplayedHouse(log))
      /\ todo # <<>> => Balanced(gold, Moved(todo), PropertyReducer(house, Last(todo)))

-----------------------------------------------------------------------------
(* Every handler decides a plan that its checks allow. *)

Decided(s) ==
    /\ Handle(s) /\ Plan(s) /\ s # <<>>
    /\ Head(s).action = "wallet_debit" => gold[Head(s).actor] >= Head(s).amount
    /\ overlapped' \in BOOLEAN /\ (overlapped => overlapped')
    /\ ~overlapped' => Fits(house, Last(s))
    /\ ~overlapped' /\ Coherent(house) =>
         Moved(s) + Worth(PropertyReducer(house, Last(s))) = Worth(house)
    /\ UNCHANGED <<torn, survived, crashes>>

LEMMA Joined ==
    ASSUME NEW S, NEW a \in S, NEW b \in S, NEW c \in S
    PROVE  /\ <<>> \o <<c>> = <<c>>
           /\ <<a>> \o <<c>> = <<a, c>> /\ <<a>> \o <<>> \o <<c>> = <<a, c>>
           /\ <<a>> \o <<b>> \o <<c>> = <<a, b, c>>
<1>1. /\ <<>> \in Seq(S) /\ <<a>> \in Seq(S) /\ <<b>> \in Seq(S) /\ <<c>> \in Seq(S)
      /\ <<a, b>> \in Seq(S)
  OBVIOUS
<1>2. <<a>> \o <<>> = <<a>> /\ <<>> \o <<c>> = <<c>>
  BY <1>1, ConcatEmptySeq
<1>3. /\ <<a>> \o <<c>> = Append(<<a>>, c) /\ <<a>> \o <<b>> = Append(<<a>>, b)
      /\ <<a, b>> \o <<c>> = Append(<<a, b>>, c)
  BY <1>1, AppendIsConcat
<1>4. ASSUME NEW d \in S
      PROVE  Append(<<a>>, d) = <<a, d>>
  <2>1. <<a, d>> \in Seq(S) /\ Append(<<a>>, d) \in Seq(S)
        /\ Len(Append(<<a>>, d)) = 2 /\ Len(<<a, d>>) = 2
    OBVIOUS
  <2>2. Append(<<a>>, d)[1] = a /\ Append(<<a>>, d)[2] = d
    OBVIOUS
  <2>3. \A i \in 1..2 : Append(<<a>>, d)[i] = <<a, d>>[i]
    BY <2>2
  <2>. QED
    BY <2>1, <2>3, SeqEqual
<1>5. Append(<<a, b>>, c) = <<a, b, c>>
  <2>1. <<a, b, c>> \in Seq(S) /\ Append(<<a, b>>, c) \in Seq(S)
        /\ Len(Append(<<a, b>>, c)) = 3 /\ Len(<<a, b, c>>) = 3
    OBVIOUS
  <2>2. /\ Append(<<a, b>>, c)[1] = a /\ Append(<<a, b>>, c)[2] = b
        /\ Append(<<a, b>>, c)[3] = c
    OBVIOUS
  <2>3. \A i \in 1..3 : Append(<<a, b>>, c)[i] = <<a, b, c>>[i]
    BY <2>2
  <2>. QED
    BY <2>1, <2>3, SeqEqual
<1>. QED
  BY <1>2, <1>3, <1>4, <1>5, Zenon

LEMMA OneReceipt ==
    ASSUME NEW r \in PropertyReceipts
    PROVE  Plan(<<r>>) /\ <<r>> # <<>> /\ Head(<<r>>) = r /\ Last(<<r>>) = r /\ Moved(<<r>>) = 0
           /\ r.action # "wallet_debit"
<1>1. r.action # "wallet_debit"
  BY DEF PropertyReceipts
<1>. QED
  BY <1>1 DEF Plan, Last, Moved

LEMMA TwoReceipts ==
    ASSUME NEW w \in WalletReceipts, NEW r \in PropertyReceipts
    PROVE  Plan(<<w, r>>) /\ <<w, r>> # <<>> /\ Head(<<w, r>>) = w /\ Last(<<w, r>>) = r
           /\ Moved(<<w, r>>) = Signed(w)
BY DEF Plan, Last, Moved

LEMMA ThreeReceipts ==
    ASSUME NEW w \in WalletReceipts, NEW v \in WalletReceipts, NEW r \in PropertyReceipts,
           v.action = "wallet_credit"
    PROVE  Plan(<<w, v, r>>) /\ <<w, v, r>> # <<>> /\ Head(<<w, v, r>>) = w
           /\ Last(<<w, v, r>>) = r /\ Moved(<<w, v, r>>) = Signed(w) + Signed(v)
BY DEF Plan, Last, Moved

LEMMA WalletMade ==
    ASSUME NEW p \in Players, NEW n \in Nat
    PROVE  /\ Debit(p, n) \in WalletReceipts /\ Credit(p, n) \in WalletReceipts
           /\ Signed(Debit(p, n)) = 0 - n /\ Signed(Credit(p, n)) = n
           /\ Credit(p, n).action = "wallet_credit"
           /\ Debit(p, n).actor = p /\ Debit(p, n).amount = n
BY DEF Debit, Credit, WalletReceipts, Signed

(* What a receipt that fits does to the coins a house holds. *)
LEMMA WorthAfter ==
    ASSUME NEW h \in Houses, NEW r, Coherent(h), Fits(h, r)
    PROVE  LET k == PropertyReducer(h, r) IN
           /\ Worth(h) \in Nat
           /\ r.action = "property_purchased" => Worth(k) = Worth(h) + PrimaryPrice
           /\ r.action = "property_bid" => Worth(k) = Worth(h) - h.auction.high + r.amount
           /\ r.action = "property_auction_settled" => Worth(k) = Worth(h) - h.auction.high
           /\ r.action \in {"property_listed", "property_unlisted", "property_transferred",
                            "property_auction_opened", "property_auction_cancelled"} =>
                Worth(k) = Worth(h)
<1>. DEFINE k == PropertyReducer(h, r)
<1>1. k.row = RowReduced(h, r) /\ k.auction = AuctionReduced(h, r)
  BY ReducerParts
<1>2. r \in Receipts /\ r.action \in PropertyActions
  BY FittingReceipt
<1>3. NoPlayer \notin Players /\ PrimaryPrice \in Nat
  BY DurableAssumption
<1>4. h.auction.high \in Nat
  BY HouseParts DEF Auctions
<1>. HIDE DEF k
<1>5. Worth(h) \in Nat
  BY <1>3, <1>4 DEF Worth
<1>6. CASE r.action \in {"property_listed", "property_unlisted"}
  <2>1. k.row.owner = h.row.owner /\ (IsOpenAt(k) <=> IsOpenAt(h)) /\ k.auction = h.auction
    BY <1>1, <1>6, ReducedRow, ReducedAuction DEF Shows, IsOpenAt
  <2>. QED
    BY <1>5, <1>6, <2>1 DEF Worth, k
<1>7. CASE r.action = "property_purchased"
  <2>1. k.row.owner = r.actor /\ k.auction = h.auction
    BY <1>1, <1>7, ReducedRow, ReducedAuction DEF Shows
  <2>2. r.actor # NoPlayer /\ h.row.owner = NoPlayer
    BY <1>2, <1>3, <1>7, ReceiptFields DEF Fits, Coherent, WellFormed
  <2>3. Worth(k) = Worth(h) + PrimaryPrice
    BY <1>3, <1>4, <2>1, <2>2 DEF Worth, IsOpenAt
  <2>. QED
    BY <1>5, <1>7, <2>3 DEF k
<1>8. CASE r.action = "property_transferred"
  <2>1. k.row.owner = r.actor /\ k.auction = h.auction
    BY <1>1, <1>8, ReducedRow, ReducedAuction DEF Shows
  <2>2. r.actor # NoPlayer /\ h.row.owner # NoPlayer
    BY <1>2, <1>3, <1>8, ReceiptFields DEF Fits
  <2>3. Worth(k) = Worth(h)
    BY <2>1, <2>2 DEF Worth, IsOpenAt
  <2>. QED
    BY <1>5, <1>8, <2>3 DEF k
<1>9. CASE r.action = "property_auction_opened"
  <2>1. k.row.owner = h.row.owner /\ k.auction.high = 0
    BY <1>1, <1>9, ReducedRow, ReducedAuction DEF Shows
  <2>2. ~IsOpenAt(h)
    BY <1>9 DEF Fits, Coherent
  <2>3. Worth(k) = Worth(h)
    BY <2>1, <2>2 DEF Worth
  <2>. QED
    BY <1>5, <1>9, <2>3 DEF k
<1>10. CASE r.action = "property_bid"
  <2>1. k.row.owner = h.row.owner /\ k.auction.high = r.amount /\ IsOpenAt(k) /\ IsOpenAt(h)
    BY <1>1, <1>10, ReducedRow, ReducedAuction DEF Fits, IsOpenAt
  <2>2. r.amount \in Nat
    BY <1>2, <1>10, ReceiptFields
  <2>3. Worth(k) = Worth(h) - h.auction.high + r.amount
    BY <1>3, <1>4, <2>1, <2>2 DEF Worth
  <2>. QED
    BY <1>5, <1>10, <2>3 DEF k
<1>11. CASE r.action = "property_auction_cancelled"
  <2>1. k.row.owner = h.row.owner /\ ~IsOpenAt(k) /\ h.auction.high = 0
    BY <1>1, <1>11, ReducedRow, ReducedAuction DEF Fits, IsOpenAt, Shows
  <2>3. Worth(k) = Worth(h)
    BY <2>1 DEF Worth
  <2>. QED
    BY <1>5, <1>11, <2>3 DEF k
<1>12. CASE r.action = "property_auction_settled"
  <2>1. ~IsOpenAt(k) /\ IsOpenAt(h)
    BY <1>1, <1>12, ReducedAuction DEF Fits, IsOpenAt
  <2>2. h.row.owner # NoPlayer
    BY <2>1 DEF Coherent, WellFormed
  <2>3. k.row.owner # NoPlayer
    BY <1>1, <1>12, <2>2, ReducedRow DEF Shows
  <2>4. Worth(k) = Worth(h) - h.auction.high
    BY <1>3, <1>4, <2>1, <2>2, <2>3 DEF Worth
  <2>. QED
    BY <1>5, <1>12, <2>4 DEF k
<1>. QED
  BY <1>2, <1>5, <1>6, <1>7, <1>8, <1>9, <1>10, <1>11, <1>12 DEF PropertyActions, k

LEMMA BuyPrimaryDecides ==
    ASSUME Types, NEW p \in Players, BuyPrimary(p)
    PROVE  \E s : Decided(s)
<1>. DEFINE w == Debit(p, PrimaryPrice)
            r == Purchased(p)
<1>1. r \in PropertyReceipts /\ r.action = "property_purchased"
  BY DEF Purchased, PropertyReceipts
<1>2. PrimaryPrice \in Nat
  BY DurableAssumption
<1>3. w \in WalletReceipts /\ Signed(w) = 0 - PrimaryPrice /\ w.actor = p /\ w.amount = PrimaryPrice
  BY <1>2, WalletMade
<1>4. Fits(house, r)
  BY <1>1 DEF Fits, BuyPrimary
<1>5. Plan(<<w, r>>) /\ <<w, r>> # <<>> /\ Head(<<w, r>>) = w /\ Last(<<w, r>>) = r
      /\ Moved(<<w, r>>) = Signed(w)
  BY <1>1, <1>3, TwoReceipts
<1>6. Handle(<<w, r>>) /\ gold[p] >= PrimaryPrice /\ UNCHANGED aux
  BY DEF BuyPrimary, CanAfford
<1>7. house \in Houses /\ overlapped \in BOOLEAN
  BY DEF Types
<1>. HIDE DEF w, r
<1>8. Coherent(house) => Moved(<<w, r>>) + Worth(PropertyReducer(house, r)) = Worth(house)
  BY <1>1, <1>2, <1>3, <1>4, <1>5, <1>7, WorthAfter
<1>9. Decided(<<w, r>>)
  BY <1>3, <1>4, <1>5, <1>6, <1>7, <1>8 DEF Decided, aux
<1>. QED
  BY <1>9

LEMMA BuyListedDecides ==
    ASSUME Types, NEW p \in Players, BuyListed(p)
    PROVE  \E s : Decided(s)
<1>. DEFINE price == house.row.listed
            owner == house.row.owner
            w == Debit(p, price)
            v == Credit(owner, price)
            r == Transferred(p, owner)
<1>7. house \in Houses /\ overlapped \in BOOLEAN
  BY DEF Types
<1>2. price \in Nat /\ owner \in Players
  <2>1. house.row \in Rows
    BY <1>7, HouseParts
  <2>. QED
    BY <2>1 DEF Rows, PlayerOrNone, BuyListed
<1>1. r \in PropertyReceipts /\ r.action = "property_transferred" /\ r.seller = owner
  BY <1>2 DEF Transferred, PropertyReceipts
<1>3. /\ w \in WalletReceipts /\ Signed(w) = 0 - price /\ w.actor = p /\ w.amount = price
      /\ v \in WalletReceipts /\ Signed(v) = price /\ v.action = "wallet_credit"
  BY <1>2, WalletMade
<1>4. Fits(house, r)
  BY <1>1 DEF Fits, BuyListed
<1>5. Plan(<<w, v, r>>) /\ <<w, v, r>> # <<>> /\ Head(<<w, v, r>>) = w
      /\ Last(<<w, v, r>>) = r /\ Moved(<<w, v, r>>) = Signed(w) + Signed(v)
  BY <1>1, <1>3, ThreeReceipts
<1>6. Handle(<<w, v, r>>) /\ gold[p] >= price /\ UNCHANGED aux
  BY DEF BuyListed, CanAfford
<1>. HIDE DEF w, v, r, price, owner
<1>8. Coherent(house) => Moved(<<w, v, r>>) + Worth(PropertyReducer(house, r)) = Worth(house)
  BY <1>1, <1>2, <1>3, <1>4, <1>5, <1>7, WorthAfter
<1>9. Decided(<<w, v, r>>)
  BY <1>3, <1>4, <1>5, <1>6, <1>7, <1>8 DEF Decided, aux
<1>. QED
  BY <1>9

(* A handler that writes one receipt and moves no coins. *)
LEMMA SingleDecides ==
    ASSUME Types, NEW r \in PropertyReceipts, Handle(<<r>>), ~overlapped' => Fits(house, r),
           r.action \in {"property_listed", "property_unlisted", "property_auction_opened",
                         "property_auction_cancelled"},
           overlapped' \in BOOLEAN, overlapped => overlapped', UNCHANGED <<torn, survived, crashes>>
    PROVE  \E s : Decided(s)
<1>1. Plan(<<r>>) /\ <<r>> # <<>> /\ Head(<<r>>) = r /\ Last(<<r>>) = r
      /\ Moved(<<r>>) = 0 /\ r.action # "wallet_debit"
  BY OneReceipt
<1>2. house \in Houses
  BY DEF Types
<1>3. ~overlapped' /\ Coherent(house) =>
        Moved(<<r>>) + Worth(PropertyReducer(house, r)) = Worth(house)
  BY <1>1, <1>2, WorthAfter
<1>4. Decided(<<r>>)
  BY <1>1, <1>3 DEF Decided
<1>. QED
  BY <1>4

LEMMA OwnerDecides ==
    ASSUME Types, NEW p \in Players,
           \/ \E price \in Terms : ListHouse(p, price)
           \/ UnlistHouse(p)
           \/ \E minBid \in Terms, increment \in Terms : OpenAuction(p, minBid, increment)
           \/ CancelAuction(p)
    PROVE  \E s : Decided(s)
<1>1. CASE \E price \in Terms : ListHouse(p, price)
  <2>1. PICK price \in Terms : ListHouse(p, price)
    BY <1>1
  <2>2. Listed(p, price) \in PropertyReceipts
    BY DurableAssumption DEF Listed, PropertyReceipts
  <2>3. ~overlapped' => Fits(house, Listed(p, price))
    BY <2>1, <2>2 DEF Fits, Listed, ListHouse, IsOpen, IsOpenAt
  <2>4. overlapped' \in BOOLEAN /\ (overlapped => overlapped')
        /\ Handle(<<Listed(p, price)>>) /\ UNCHANGED <<torn, survived, crashes>>
    BY <2>1 DEF ListHouse, Types, IsOpen
  <2>5. Listed(p, price).action = "property_listed"
    BY DEF Listed
  <2>. QED
    BY <2>2, <2>3, <2>4, <2>5, SingleDecides
<1>2. CASE UnlistHouse(p)
  <2>2. Unlisted(p) \in PropertyReceipts
    BY DEF Unlisted, PropertyReceipts
  <2>3. ~overlapped' => Fits(house, Unlisted(p))
    BY <1>2, <2>2 DEF Fits, Unlisted, UnlistHouse, IsOpen, IsOpenAt
  <2>4. overlapped' \in BOOLEAN /\ (overlapped => overlapped')
        /\ Handle(<<Unlisted(p)>>) /\ UNCHANGED <<torn, survived, crashes>>
    BY <1>2 DEF UnlistHouse, Types, IsOpen
  <2>5. Unlisted(p).action = "property_unlisted"
    BY DEF Unlisted
  <2>. QED
    BY <2>2, <2>3, <2>4, <2>5, SingleDecides
<1>3. CASE \E minBid \in Terms, increment \in Terms : OpenAuction(p, minBid, increment)
  <2>1. PICK m \in Terms, i \in Terms : OpenAuction(p, m, i)
    BY <1>3
  <2>2. Opened(p, m, i) \in PropertyReceipts
    BY DurableAssumption DEF Opened, PropertyReceipts
  <2>3. Fits(house, Opened(p, m, i))
    BY <2>1, <2>2 DEF Fits, Opened, OpenAuction
  <2>4. overlapped' \in BOOLEAN /\ (overlapped => overlapped')
        /\ Handle(<<Opened(p, m, i)>>) /\ UNCHANGED <<torn, survived, crashes>>
    BY <2>1 DEF OpenAuction, Types, aux
  <2>5. Opened(p, m, i).action = "property_auction_opened"
    BY DEF Opened
  <2>. QED
    BY <2>2, <2>3, <2>4, <2>5, SingleDecides
<1>4. CASE CancelAuction(p)
  <2>2. Cancelled(p) \in PropertyReceipts
    BY DEF Cancelled, PropertyReceipts
  <2>3. Fits(house, Cancelled(p))
    BY <1>4, <2>2 DEF Fits, Cancelled, CancelAuction, IsOpen, IsOpenAt
  <2>4. overlapped' \in BOOLEAN /\ (overlapped => overlapped')
        /\ Handle(<<Cancelled(p)>>) /\ UNCHANGED <<torn, survived, crashes>>
    BY <1>4 DEF CancelAuction, Types, aux
  <2>5. Cancelled(p).action = "property_auction_cancelled"
    BY DEF Cancelled
  <2>. QED
    BY <2>2, <2>3, <2>4, <2>5, SingleDecides
<1>. QED
  BY <1>1, <1>2, <1>3, <1>4

LEMMA PlaceBidDecides ==
    ASSUME Types, NEW p \in Players, NEW n \in Bids, PlaceBid(p, n)
    PROVE  \E s : Decided(s)
<1>. DEFINE a == house.auction
            w == Debit(p, n)
            v == Credit(a.bidder, a.high)
            r == Bid(p, n)
<1>1. house \in Houses /\ overlapped \in BOOLEAN
  BY DEF Types
<1>2. a.high \in Nat /\ a.bidder \in PlayerOrNone /\ n \in Nat \ {0}
  <2>1. a \in Auctions
    BY <1>1, HouseParts
  <2>2. n \in Nat \ {0}
    BY DurableAssumption
  <2>. QED
    BY <2>1, <2>2 DEF Auctions
<1>3. r \in PropertyReceipts /\ r.action = "property_bid" /\ r.actor = p /\ r.amount = n
  BY <1>2 DEF Bid, PropertyReceipts
<1>4. w \in WalletReceipts /\ Signed(w) = 0 - n /\ w.actor = p /\ w.amount = n
  BY <1>2, WalletMade
<1>5. Fits(house, r)
  BY <1>3 DEF Fits, PlaceBid, IsOpen, IsOpenAt
<1>6. gold[p] >= n /\ UNCHANGED aux /\ IsOpenAt(house)
  BY DEF PlaceBid, CanAfford, IsOpen, IsOpenAt
<1>7. CASE a.bidder = NoPlayer
  <2>1. Handle(<<w>> \o <<>> \o <<r>>)
    BY <1>7 DEF PlaceBid
  <2>. HIDE DEF w, r
  <2>2. Handle(<<w, r>>)
    <3>1. w \in Receipts /\ r \in Receipts
      BY <1>3, <1>4 DEF Receipts
    <3>2. <<w>> \o <<>> \o <<r>> = <<w, r>>
      BY <3>1, Joined, Zenon
    <3>. QED
      BY <2>1, <3>2
  <2>3. Plan(<<w, r>>) /\ <<w, r>> # <<>> /\ Head(<<w, r>>) = w /\ Last(<<w, r>>) = r
        /\ Moved(<<w, r>>) = Signed(w)
    BY <1>3, <1>4, TwoReceipts
  <2>4. Coherent(house) => a.high = 0
    BY <1>6, <1>7 DEF Coherent
  <2>5. Coherent(house) => Moved(<<w, r>>) + Worth(PropertyReducer(house, r)) = Worth(house)
    BY <1>1, <1>2, <1>3, <1>4, <1>5, <2>3, <2>4, WorthAfter
  <2>6. Decided(<<w, r>>)
    BY <1>1, <1>4, <1>5, <1>6, <2>2, <2>3, <2>5 DEF Decided, aux
  <2>. QED
    BY <2>6
<1>8. CASE a.bidder # NoPlayer
  <2>1. Handle(<<w>> \o <<v>> \o <<r>>)
    BY <1>8 DEF PlaceBid
  <2>7. v \in WalletReceipts /\ Signed(v) = a.high /\ v.action = "wallet_credit"
    BY <1>2, <1>8, WalletMade DEF PlayerOrNone
  <2>. HIDE DEF w, v, r
  <2>2. Handle(<<w, v, r>>)
    <3>1. w \in Receipts /\ v \in Receipts /\ r \in Receipts
      BY <1>3, <1>4, <2>7 DEF Receipts
    <3>2. <<w>> \o <<v>> \o <<r>> = <<w, v, r>>
      BY <3>1, Joined, Zenon
    <3>. QED
      BY <2>1, <3>2
  <2>3. Plan(<<w, v, r>>) /\ <<w, v, r>> # <<>> /\ Head(<<w, v, r>>) = w
        /\ Last(<<w, v, r>>) = r /\ Moved(<<w, v, r>>) = Signed(w) + Signed(v)
    BY <1>3, <1>4, <2>7, ThreeReceipts
  <2>5. Coherent(house) => Moved(<<w, v, r>>) + Worth(PropertyReducer(house, r)) = Worth(house)
    BY <1>1, <1>2, <1>3, <1>4, <1>5, <2>3, <2>7, WorthAfter
  <2>6. Decided(<<w, v, r>>)
    BY <1>1, <1>4, <1>5, <1>6, <2>2, <2>3, <2>5 DEF Decided, aux
  <2>. QED
    BY <2>6
<1>. QED
  BY <1>7, <1>8

LEMMA SettleDecides ==
    ASSUME Types, Settle
    PROVE  \E s : Decided(s)
<1>. DEFINE a == house.auction
            v == Credit(a.seller, a.high)
            r == Settled(a.bidder, a.seller, a.high)
<1>1. house \in Houses /\ overlapped \in BOOLEAN
  BY DEF Types
<1>2. a.high \in Nat /\ a.bidder \in PlayerOrNone /\ a.seller \in Players
  <2>1. a \in Auctions /\ a.seller \in Players
    BY <1>1, HouseParts DEF Settle, IsOpen
  <2>. QED
    BY <2>1 DEF Auctions
<1>3. r \in PropertyReceipts /\ r.action = "property_auction_settled"
  BY <1>2 DEF Settled, PropertyReceipts
<1>5. Fits(house, r)
  BY <1>3 DEF Fits, Settled, Settle, IsOpen, IsOpenAt
<1>6. UNCHANGED aux /\ IsOpenAt(house)
  BY DEF Settle, IsOpen, IsOpenAt
<1>7. CASE a.bidder = NoPlayer
  <2>1. Handle(<<>> \o <<r>>)
    BY <1>7 DEF Settle
  <2>. HIDE DEF r
  <2>2. Handle(<<r>>)
    <3>1. <<>> \o <<r>> = <<r>>
      OBVIOUS
    <3>. QED
      BY <2>1, <3>1
  <2>3. Plan(<<r>>) /\ <<r>> # <<>> /\ Head(<<r>>) = r /\ Last(<<r>>) = r
        /\ Moved(<<r>>) = 0 /\ r.action # "wallet_debit"
    BY <1>3, OneReceipt
  <2>4. Coherent(house) => a.high = 0
    BY <1>6, <1>7 DEF Coherent
  <2>5. Coherent(house) => Moved(<<r>>) + Worth(PropertyReducer(house, r)) = Worth(house)
    BY <1>1, <1>2, <1>3, <1>5, <2>3, <2>4, WorthAfter
  <2>6. Decided(<<r>>)
    BY <1>1, <1>5, <1>6, <2>2, <2>3, <2>5 DEF Decided, aux
  <2>. QED
    BY <2>6
<1>8. CASE a.bidder # NoPlayer
  <2>1. Handle(<<v>> \o <<r>>)
    BY <1>8 DEF Settle
  <2>7. v \in WalletReceipts /\ Signed(v) = a.high /\ v.action = "wallet_credit"
    BY <1>2, WalletMade
  <2>. HIDE DEF v, r
  <2>2. Handle(<<v, r>>)
    <3>1. v \in Receipts /\ r \in Receipts
      BY <1>3, <2>7 DEF Receipts
    <3>2. <<v>> \o <<r>> = <<v, r>>
      BY <3>1, Joined, Zenon
    <3>. QED
      BY <2>1, <3>2
  <2>3. Plan(<<v, r>>) /\ <<v, r>> # <<>> /\ Head(<<v, r>>) = v
        /\ Last(<<v, r>>) = r /\ Moved(<<v, r>>) = Signed(v)
    BY <1>3, <2>7, TwoReceipts
  <2>5. Coherent(house) => Moved(<<v, r>>) + Worth(PropertyReducer(house, r)) = Worth(house)
    BY <1>1, <1>2, <1>3, <1>5, <2>3, <2>7, WorthAfter
  <2>6. Decided(<<v, r>>)
    BY <1>1, <1>5, <1>6, <2>2, <2>3, <2>5, <2>7 DEF Decided, aux
  <2>. QED
    BY <2>6
<1>. QED
  BY <1>7, <1>8

(* The steps, handlers taken together. *)
LEMMA Steps ==
    ASSUME Types, [Next]_vars
    PROVE  \/ \E s : Decided(s)
           \/ WriteReceipt \/ RouteCatches \/ Crash \/ CrashAfterFsync \/ Boot
           \/ UNCHANGED vars
<1>1. CASE \E p \in Players : BuyPrimary(p)
  BY <1>1, BuyPrimaryDecides, Zenon
<1>2. CASE \E p \in Players : BuyListed(p)
  BY <1>2, BuyListedDecides, Zenon
<1>3. CASE \E p \in Players : UnlistHouse(p) \/ CancelAuction(p)
  BY <1>3, OwnerDecides, Zenon
<1>4. CASE \E p \in Players, price \in Terms : ListHouse(p, price)
  BY <1>4, OwnerDecides, Zenon
<1>5. CASE \E p \in Players, minBid, increment \in Terms : OpenAuction(p, minBid, increment)
  BY <1>5, OwnerDecides, Zenon
<1>6. CASE \E p \in Players, n \in Bids : PlaceBid(p, n)
  BY <1>6, PlaceBidDecides, Zenon
<1>7. CASE Settle
  BY <1>7, SettleDecides, Zenon
<1>. QED
  BY <1>1, <1>2, <1>3, <1>4, <1>5, <1>6, <1>7, Zenon DEF Next

-----------------------------------------------------------------------------
(* The wallets: what is in memory is what the log says, and every debit in it *)
(* was covered.                                                               *)

LEMMA StartType == Start \in Wallets
BY DurableAssumption DEF Start, Wallets

(* An affordable receipt moves what it says. *)
LEMMA Affordable ==
    ASSUME NEW g \in Wallets, NEW r \in Receipts, NEW p \in Players, NEW n \in Int,
           r.action = "wallet_debit" => g[r.actor] >= r.amount, g[p] = InitialGold + n
    PROVE  TreasuryReducer(g, r)[p] = InitialGold + Counted(p, n, r)
<1>. InitialGold \in Nat /\ g \in [Players -> Nat]
  BY DurableAssumption DEF Wallets
<1>1. CASE r.action = "wallet_credit"
  BY <1>1, ReceiptFields DEF TreasuryReducer, Counted
<1>2. CASE r.action = "wallet_debit"
  BY <1>2, ReceiptFields DEF TreasuryReducer, Counted
<1>3. CASE r.action \notin {"wallet_credit", "wallet_debit"}
  BY <1>3 DEF TreasuryReducer, Counted
<1>. QED
  BY <1>1, <1>2, <1>3

(* The log with the next receipt of the running handler. *)
LEMMA LogGrows ==
    ASSUME WalletInvariant, todo # <<>>, log' = Append(log, Head(todo)), survived \subseteq survived'
    PROVE  /\ Head(todo) \in Receipts /\ log \in Seq(Receipts) /\ log' \in Seq(Receipts)
           /\ AllSeen => /\ gold = ReplayedGold(Start, log)
                         /\ ReplayedGold(Start, log') = TreasuryReducer(gold, Head(todo))
           /\ Counts'
<1>. DEFINE r == Head(todo)
<1>1. log \in Seq(Receipts) /\ gold \in Wallets /\ (AllSeen => gold = ReplayedGold(Start, log))
  BY DEF WalletInvariant, Types, Plans, GoldReplayed
<1>2. r \in Receipts
  BY PlanParts DEF WalletInvariant, Plans
<1>3. Append(log, r) \in Seq(Receipts)
  BY <1>1, <1>2, AppendProperties
<1>4. AllSeen => ReplayedGold(Start, Append(log, r)) = TreasuryReducer(gold, r)
  BY <1>1, <1>2, StartType, GoldSteps
<1>5. ASSUME AllSeen, NEW p \in Players
      PROVE  ReplayedGold(Start, Append(log, r))[p] = InitialGold + Net(p, Append(log, r))
  <2>1. gold[p] = InitialGold + Net(p, log)
    BY <1>1, <1>5 DEF WalletInvariant, Counts
  <2>2. Net(p, log) \in Int /\ Net(p, Append(log, r)) = Counted(p, Net(p, log), r)
    BY <1>1, <1>2, NetSteps
  <2>3. r.action = "wallet_debit" => gold[r.actor] >= r.amount
    BY DEF WalletInvariant, Paid
  <2>. HIDE DEF r
  <2>4. TreasuryReducer(gold, r)[p] = InitialGold + Counted(p, Net(p, log), r)
    BY <1>1, <1>2, <2>1, <2>2, <2>3, Affordable
  <2>. QED
    BY <1>4, <1>5, <2>2, <2>4
<1>6. AllSeen' => AllSeen
  BY DEF AllSeen
<1>7. Counts'
  BY <1>5, <1>6, Zenon DEF Counts, Start
<1>. QED
  BY <1>1, <1>2, <1>3, <1>4, <1>7

LEMMA WalletInit == Init => WalletInvariant
<1>. SUFFICES ASSUME Init PROVE WalletInvariant
  OBVIOUS
<1>1. log = <<>> /\ log \in Seq(Receipts) /\ todo = <<>> /\ gold = Start
  BY DEF Init, Start
<1>2. Types
  BY <1>1, StartType, NewHouseType DEF Init, Types
<1>3. Plans /\ Paid
  BY <1>1 DEF Init, Plans, Plan, Paid
<1>4. ReplayedGold(Start, log) = Start
  BY <1>1, StartType, GoldSteps
<1>5. Counts
  <2>1. ASSUME NEW p \in Players
        PROVE  ReplayedGold(Start, log)[p] = InitialGold + Net(p, log)
    <3>1. Net(p, log) = 0
      BY <1>1, NetSteps
    <3>2. Start[p] = InitialGold /\ InitialGold \in Nat
      BY DurableAssumption DEF Start
    <3>. QED
      BY <1>4, <3>1, <3>2
  <2>. QED
    BY <2>1 DEF Counts
<1>. QED
  BY <1>1, <1>2, <1>3, <1>4, <1>5 DEF WalletInvariant, GoldReplayed

(* The log stays as it is. *)
LEMMA CountsStay ==
    ASSUME Counts, UNCHANGED log, AllSeen' => AllSeen
    PROVE  Counts'
BY DEF Counts, Start

(* A caught failure, whichever it is. *)
LEMMA CaughtSteps ==
    ASSUME RouteCatches
    PROVE  /\ up /\ up' = up /\ todo # <<>> /\ todo' = <<>> /\ ~begun'
           /\ UNCHANGED <<db, overlapped>>
           /\ Last(todo).action \in {"property_listed", "property_unlisted",
                                     "property_purchased", "property_transferred"}
           /\ AppendThrows \/ FsyncThrows \/ MaterializeThrows
BY DEF RouteCatches, Caught, FromRoute

LEMMA WalletNext ==
    ASSUME WalletInvariant, [Next]_vars
    PROVE  WalletInvariant'
<1>. USE DEF WalletInvariant
<1>1. CASE \E s : Decided(s)
  <2>1. PICK s : Decided(s)
    BY <1>1
  <2>2. Types' /\ Plans' /\ Paid' /\ GoldReplayed' /\ UNCHANGED <<log, survived>>
    BY <2>1 DEF Decided, Handle, Idle, Types, Plans, Paid, GoldReplayed, Start, AllSeen
  <2>. QED
    BY <2>2, CountsStay DEF AllSeen
<1>2. CASE WriteReceipt
  <2>. DEFINE r == Head(todo)
  <2>1. /\ todo # <<>> /\ log' = Append(log, r) /\ gold' = TreasuryReducer(gold, r)
        /\ house' = PropertyReducer(house, r) /\ db' = Materialize(db, r)
        /\ todo' = Tail(todo) /\ begun' = (Tail(todo) # <<>>) /\ UNCHANGED <<up, aux>> /\ up
    BY <1>2 DEF WriteReceipt
  <2>2. /\ r \in Receipts /\ log' \in Seq(Receipts) /\ Counts'
        /\ AllSeen => ReplayedGold(Start, log') = TreasuryReducer(gold, r)
    BY <2>1, LogGrows DEF aux
  <2>3. Types'
    <3>1. gold' \in Wallets /\ house' \in Houses /\ db' \in Houses
      BY <2>1, <2>2, WalletTypes, ReducerTypes, MaterializeTypes DEF Types
    <3>. QED
      BY <2>1, <2>2, <3>1 DEF Types, aux
  <2>4. Plans' /\ Paid'
    BY <2>1, PlanParts DEF Plans, Paid
  <2>5. GoldReplayed'
    BY <2>1, <2>2 DEF GoldReplayed, Start, AllSeen, aux
  <2>. QED
    BY <2>2, <2>3, <2>4, <2>5
<1>3. CASE RouteCatches
  <2>. DEFINE r == Head(todo)
  <2>1. /\ up /\ up' = up /\ todo # <<>> /\ todo' = <<>> /\ ~begun' /\ UNCHANGED <<db, overlapped>>
        /\ begun' \in BOOLEAN
    BY <1>3, CaughtSteps DEF RouteCatches, Caught
  <2>2. Plans' /\ Paid'
    BY <2>1 DEF Plans, Plan, Paid
  <2>3. CASE AppendThrows
    <3>1. Types' /\ GoldReplayed' /\ UNCHANGED <<log, survived>>
      BY <2>1, <2>3 DEF AppendThrows, Types, GoldReplayed, Start, AllSeen
    <3>. QED
      BY <2>2, <3>1, CountsStay DEF AllSeen
  <2>4. CASE FsyncThrows
    <3>1. log' = Append(log, r) /\ torn' = TRUE /\ survived' = survived \cup {"written"}
          /\ UNCHANGED <<gold, house>>
      BY <2>4 DEF FsyncThrows
    <3>2. log' \in Seq(Receipts) /\ Counts'
      BY <2>1, <3>1, LogGrows
    <3>3. Types'
      BY <2>1, <3>1, <3>2 DEF Types
    <3>4. GoldReplayed'
      BY <3>1 DEF GoldReplayed, AllSeen
    <3>. QED
      BY <2>2, <3>2, <3>3, <3>4
  <2>5. CASE MaterializeThrows
    <3>1. /\ log' = Append(log, r) /\ gold' = TreasuryReducer(gold, r)
          /\ house' = PropertyReducer(house, r) /\ torn' = (torn \/ Len(todo) > 1)
          /\ survived' = survived \cup {"projected"}
      BY <2>5 DEF MaterializeThrows
    <3>2. /\ r \in Receipts /\ log' \in Seq(Receipts) /\ Counts'
          /\ AllSeen => ReplayedGold(Start, log') = TreasuryReducer(gold, r)
      BY <2>1, <3>1, LogGrows
    <3>3. gold' \in Wallets /\ house' \in Houses
      BY <3>1, <3>2, WalletTypes, ReducerTypes DEF Types
    <3>4. Types'
      BY <2>1, <3>1, <3>2, <3>3 DEF Types
    <3>5. GoldReplayed'
      BY <3>1, <3>2 DEF GoldReplayed, Start, AllSeen
    <3>. QED
      BY <2>2, <3>2, <3>4, <3>5
  <2>. QED
    BY <1>3, <2>3, <2>4, <2>5, CaughtSteps
<1>4. CASE Crash
  <2>1. Types'
    BY <1>4, NewHouseType DEF Crash, Down, Types, Wallets
  <2>2. Plans' /\ Paid' /\ GoldReplayed' /\ UNCHANGED <<log, survived>>
    BY <1>4 DEF Crash, Down, Plans, Plan, Paid, GoldReplayed
  <2>. QED
    BY <2>1, <2>2, CountsStay DEF AllSeen
<1>5. CASE CrashAfterFsync
  <2>1. log' \in Seq(Receipts) /\ Counts'
    BY <1>5, LogGrows DEF CrashAfterFsync, Down
  <2>2. torn' \in BOOLEAN
    BY <1>5 DEF CrashAfterFsync, Types
  <2>3. Types'
    BY <1>5, <2>1, <2>2, NewHouseType DEF CrashAfterFsync, Down, Types, Wallets
  <2>4. Plans' /\ Paid' /\ GoldReplayed'
    BY <1>5 DEF CrashAfterFsync, Down, Plans, Plan, Paid, GoldReplayed
  <2>. QED
    BY <2>1, <2>3, <2>4
<1>6. CASE Boot
  <2>1. /\ up' = TRUE /\ gold' = ReplayedGold(Start, log) /\ db' = Rematerialized(db, log)
        /\ house' = Hydrated(ReplayedHouse(log), db') /\ ~up
        /\ survived' = survived \ {"projected"}
        /\ UNCHANGED <<log, todo, begun, overlapped, torn, crashes>>
    BY <1>6 DEF Boot, Start
  <2>2. log \in Seq(Receipts) /\ db \in Houses
    BY DEF Types
  <2>3. gold' \in Wallets
    BY <2>1, <2>2, StartType, GoldSteps
  <2>4. db' \in Houses /\ ReplayedHouse(log) \in Houses
    BY <2>1, <2>2, TablesSteps, HouseSteps
  <2>5. Hydrated(ReplayedHouse(log), db') \in Houses
    BY <2>4 DEF Hydrated, Houses
  <2>6. Types'
    BY <2>1, <2>3, <2>4, <2>5 DEF Types
  <2>7. todo = <<>> /\ ~begun
    BY <2>1 DEF Plans
  <2>8. Plans' /\ Paid'
    BY <2>1, <2>7 DEF Plans, Plan, Paid
  <2>9. GoldReplayed' /\ UNCHANGED log /\ (AllSeen' => AllSeen)
    BY <2>1 DEF GoldReplayed, Start, AllSeen
  <2>. QED
    BY <2>6, <2>8, <2>9, CountsStay
<1>7. CASE UNCHANGED vars
  BY <1>7 DEF vars, Types, Plans, Paid, GoldReplayed, Counts, Start, AllSeen
<1>. QED
  BY <1>1, <1>2, <1>3, <1>4, <1>5, <1>6, <1>7, Steps

-----------------------------------------------------------------------------
(* The house: memory, tables and log. *)

(* While the process runs, materializing the log over the tables leaves them *)
(* showing the house.                                                        *)
LEMMA TablesFollow ==
    ASSUME WalletInvariant, HouseInvariant, Intact, up
    PROVE  Coherent(house) /\ SameHouse(Rematerialized(db, log), ReplayedHouse(log))
<1>. DEFINE H == ReplayedHouse(log)
            e == Rematerialized(db, log)
<1>1. log \in Seq(Receipts) /\ house \in Houses /\ db \in Houses
  BY DEF WalletInvariant, Types
<1>2. H \in Houses /\ e \in Houses
  BY <1>1, HouseSteps, TablesSteps
<1>3. SameHouse(house, H) /\ Lags(db, H, log) /\ Coherent(H)
  BY DEF HouseInvariant, Together, Converges
<1>4. Coherent(house)
  <2>. HIDE DEF H, e
  <2>. QED BY <1>1, <1>2, <1>3, SameFits
<1>5. Reaches(db, H, e, log) /\ (WellFormed(db.row) => Follows(db, H, e))
  BY <1>1 DEF HouseInvariant, Converges
<1>6. SameHouse(e, H)
  <2>. HIDE DEF H, e
  <2>. QED BY <1>1, <1>2, <1>3, <1>5, ReachesEnd
<1>. QED
  BY <1>4, <1>6

(* A receipt that fits is written. *)
LEMMA HouseGrows ==
    ASSUME WalletInvariant, HouseInvariant, Intact, todo # <<>>, Tail(todo) = <<>>
    PROVE  LET r == Head(todo)
               l == Append(log, r)
           IN  /\ Fits(house, r) /\ Coherent(house)
               /\ Coherent(ReplayedHouse(l))
               /\ \A d \in Houses :
                    /\ Reaches(d, ReplayedHouse(l), Rematerialized(d, l), l)
                    /\ WellFormed(d.row) => Follows(d, ReplayedHouse(l), Rematerialized(d, l))
               /\ SameHouse(PropertyReducer(house, r), ReplayedHouse(l))
               /\ Lags(Materialize(db, r), ReplayedHouse(l), l)
               /\ "projected" \notin survived => SameHouse(Materialize(db, r), ReplayedHouse(l))
               /\ r.action \in {"property_listed", "property_unlisted",
                                "property_purchased", "property_transferred"} =>
                    Lags(db, ReplayedHouse(l), l)
               /\ SameHouse(Rematerialized(db, l), ReplayedHouse(l))
<1>. DEFINE r == Head(todo)
            l == Append(log, r)
            H == ReplayedHouse(log)
            K == ReplayedHouse(l)
<1>1. log \in Seq(Receipts) /\ house \in Houses /\ db \in Houses /\ up
  BY DEF WalletInvariant, Types, Plans
<1>2. r \in Receipts /\ r = Last(todo)
  BY PlanParts DEF WalletInvariant, Plans
<1>3. H \in Houses /\ K = PropertyReducer(H, r)
  BY <1>1, <1>2, HouseSteps
<1>4. SameHouse(house, H) /\ Lags(db, H, log) /\ Coherent(H)
      /\ ("projected" \notin survived => SameHouse(db, H))
  BY <1>1 DEF HouseInvariant, Together, Converges
<1>5. Fits(house, r)
  BY <1>2 DEF HouseInvariant, Fitting, Intact
<1>. HIDE DEF r, H, K
<1>6. SameHouse(H, house) /\ Coherent(house) /\ SameHouse(Rematerialized(db, log), H)
  BY <1>1, <1>4, SameIsSymmetric, TablesFollow DEF H
<1>7. Fits(H, r)
  BY <1>1, <1>3, <1>5, <1>6, SameFits
<1>8. Coherent(K)
  BY <1>3, <1>4, <1>7, CoherentKept
<1>9. ASSUME NEW d \in Houses
      PROVE  /\ Reaches(d, K, Rematerialized(d, l), l)
             /\ WellFormed(d.row) => Follows(d, K, Rematerialized(d, l))
  <2>1. /\ Reaches(d, H, Rematerialized(d, log), log)
        /\ WellFormed(d.row) => Follows(d, H, Rematerialized(d, log))
    BY DEF HouseInvariant, Converges, H
  <2>2. /\ Rematerialized(d, log) \in Houses
        /\ Rematerialized(d, l) = Materialize(Rematerialized(d, log), r)
    BY <1>1, <1>2, TablesSteps
  <2>3. Reaches(d, K, Rematerialized(d, l), l)
    BY <1>1, <1>3, <1>4, <1>7, <2>1, <2>2, ReachesKept
  <2>4. WellFormed(d.row) => Follows(d, K, Rematerialized(d, l))
    BY <1>3, <1>4, <1>7, <2>1, <2>2, FollowsKept
  <2>. QED
    BY <2>3, <2>4
<1>10. SameHouse(PropertyReducer(house, r), K)
  BY <1>1, <1>3, <1>4, <1>7, SameReduced
<1>11. /\ Lags(Materialize(db, r), K, l)
       /\ "projected" \notin survived => SameHouse(Materialize(db, r), K)
       /\ r.action \in {"property_listed", "property_unlisted",
                        "property_purchased", "property_transferred"} => Lags(db, K, l)
  BY <1>1, <1>3, <1>4, <1>7, SameMaterialized, LagsKept, LagsBehind
<1>12. SameHouse(Rematerialized(db, l), K)
  <2>1. /\ Rematerialized(db, log) \in Houses
        /\ Rematerialized(db, l) = Materialize(Rematerialized(db, log), r)
    BY <1>1, <1>2, TablesSteps
  <2>. QED
    BY <1>3, <1>4, <1>6, <1>7, <2>1, SameMaterialized
<1>. QED
  BY <1>5, <1>6, <1>8, <1>9, <1>10, <1>11, <1>12 DEF r, K

(* A receipt of a wallet leaves house and tables as they are. *)
LEMMA WalletGrows ==
    ASSUME WalletInvariant, todo # <<>>, Tail(todo) # <<>>
    PROVE  LET r == Head(todo)
               l == Append(log, r)
           IN  /\ ReplayedHouse(l) = ReplayedHouse(log)
               /\ \A d \in Houses : Rematerialized(d, l) = Rematerialized(d, log)
               /\ \A o : WrittenFrom(l, o) <=> WrittenFrom(log, o)
               /\ PropertyReducer(house, r) = house /\ Materialize(db, r) = db
               /\ Last(Tail(todo)) = Last(todo)
<1>. DEFINE r == Head(todo)
            l == Append(log, r)
<1>1. log \in Seq(Receipts) /\ house \in Houses /\ db \in Houses
  BY DEF WalletInvariant, Types
<1>2. r \in WalletReceipts /\ r \in Receipts /\ Last(Tail(todo)) = Last(todo)
  BY PlanParts DEF WalletInvariant, Plans
<1>. HIDE DEF r
<1>3. ReplayedHouse(log) \in Houses /\ ReplayedHouse(l) = PropertyReducer(ReplayedHouse(log), r)
  BY <1>1, <1>2, HouseSteps
<1>4. ReplayedHouse(l) = ReplayedHouse(log)
  BY <1>2, <1>3, WalletReceiptsPass
<1>5. ASSUME NEW d \in Houses
      PROVE  Rematerialized(d, l) = Rematerialized(d, log)
  <2>1. /\ Rematerialized(d, log) \in Houses
        /\ Rematerialized(d, l) = Materialize(Rematerialized(d, log), r)
    BY <1>1, <1>2, TablesSteps
  <2>. QED
    BY <1>2, <2>1, WalletReceiptsPass
<1>6. PropertyReducer(house, r) = house /\ Materialize(db, r) = db
  BY <1>1, <1>2, WalletReceiptsPass
<1>7. ASSUME NEW o
      PROVE  WrittenFrom(l, o) <=> WrittenFrom(log, o)
  BY <1>1, <1>2, WrittenFromGrows DEF Writes, WalletReceipts
<1>. QED
  BY <1>2, <1>4, <1>5, <1>6, <1>7 DEF r

LEMMA HouseInit == Init => HouseInvariant
<1>. SUFFICES ASSUME Init PROVE HouseInvariant
  OBVIOUS
<1>1. log = <<>> /\ todo = <<>> /\ house = NewHouse /\ db = NewHouse /\ up
  BY DEF Init
<1>2. ReplayedHouse(log) = NewHouse
  BY <1>1, HouseSteps
<1>3. Coherent(NewHouse)
  BY DEF NewHouse, Coherent, WellFormed, IsOpenAt
<1>4. ASSUME NEW d \in Houses
      PROVE  /\ Reaches(d, ReplayedHouse(log), Rematerialized(d, log), log)
             /\ WellFormed(d.row) => Follows(d, ReplayedHouse(log), Rematerialized(d, log))
  <2>1. Rematerialized(d, log) = d
    BY <1>1, TablesSteps
  <2>. QED
    BY <1>1, <1>2, <2>1, FollowsStart, ReachesStart
<1>5. SameHouse(NewHouse, NewHouse) /\ Lags(NewHouse, NewHouse, log)
  BY DEF SameHouse, SameRow, Lags, SameAuction
<1>. QED
  BY <1>1, <1>2, <1>3, <1>4, <1>5 DEF HouseInvariant, Fitting, Converges, Together

(* What is loaded at boot is the replayed house, up to its sale count. *)
LEMMA HydratedIsSame ==
    ASSUME NEW h \in Houses, NEW d \in Houses, SameHouse(d, h)
    PROVE  SameHouse(Hydrated(h, d), h)
<1>1. Hydrated(h, d).row = d.row /\ Hydrated(h, d).auction =
        IF d.auction.status = "open" THEN d.auction ELSE h.auction
  BY DEF Hydrated
<1>. QED
  BY <1>1 DEF SameHouse, SameRow, IsOpenAt

LEMMA HouseNext ==
    ASSUME WalletInvariant, HouseInvariant, [Next]_vars
    PROVE  HouseInvariant'
<1>. DEFINE r == Head(todo)
<1>0. Types
  BY DEF WalletInvariant
<1>1. CASE \E s : Decided(s)
  <2>1. PICK s : Decided(s)
    BY <1>1
  <2>2. UNCHANGED <<log, house, db, up, survived>> /\ todo' = s /\ (overlapped => overlapped')
        /\ (~overlapped' => Fits(house, Last(s)))
    BY <2>1 DEF Decided, Handle
  <2>3. Fitting'
    BY <2>2 DEF Fitting
  <2>4. Converges' /\ Together'
    BY <2>2 DEF HouseInvariant, Converges, Together, Intact, AllSeen
  <2>. QED
    BY <2>3, <2>4 DEF HouseInvariant
<1>2. CASE WriteReceipt
  <2>1. /\ todo # <<>> /\ log' = Append(log, r) /\ house' = PropertyReducer(house, r)
        /\ db' = Materialize(db, r) /\ todo' = Tail(todo)
        /\ up' = up /\ up /\ UNCHANGED <<overlapped, survived>>
    BY <1>2 DEF WriteReceipt, aux
  <2>2. Fitting'
    <3>1. CASE Tail(todo) = <<>>
      BY <2>1, <3>1 DEF Fitting
    <3>2. CASE Tail(todo) # <<>>
      BY <2>1, <3>2, WalletGrows DEF HouseInvariant, Fitting
    <3>. QED
      BY <3>1, <3>2
  <2>3. CASE ~Intact
    BY <2>1, <2>2, <2>3 DEF HouseInvariant, Converges, Together, Intact, AllSeen
  <2>4. CASE Intact /\ Tail(todo) = <<>>
    <3>1. /\ Coherent(ReplayedHouse(log'))
          /\ \A d \in Houses :
               /\ Reaches(d, ReplayedHouse(log'), Rematerialized(d, log'), log')
               /\ WellFormed(d.row) => Follows(d, ReplayedHouse(log'), Rematerialized(d, log'))
          /\ SameHouse(house', ReplayedHouse(log')) /\ Lags(db', ReplayedHouse(log'), log')
          /\ "projected" \notin survived => SameHouse(db', ReplayedHouse(log'))
      BY <2>1, <2>4, HouseGrows
    <3>. QED
      BY <2>1, <2>2, <3>1 DEF HouseInvariant, Converges, Together
  <2>5. CASE Intact /\ Tail(todo) # <<>>
    <3>1. /\ ReplayedHouse(log') = ReplayedHouse(log)
          /\ \A d \in Houses : Rematerialized(d, log') = Rematerialized(d, log)
          /\ \A o : WrittenFrom(log', o) <=> WrittenFrom(log, o)
          /\ house' = house /\ db' = db
      BY <2>1, <2>5, WalletGrows
    <3>2. Converges'
      BY <2>1, <2>5, <3>1 DEF HouseInvariant, Converges, Reaches
    <3>3. Together'
      BY <2>1, <2>5, <3>1 DEF HouseInvariant, Together, Lags
    <3>. QED
      BY <2>2, <3>2, <3>3 DEF HouseInvariant
  <2>. QED
    BY <2>3, <2>4, <2>5
<1>3. CASE RouteCatches
  <2>1. /\ up /\ up' = up /\ todo # <<>> /\ todo' = <<>> /\ UNCHANGED <<db, overlapped>>
        /\ Last(todo).action \in {"property_listed", "property_unlisted",
                                  "property_purchased", "property_transferred"}
    BY <1>3, CaughtSteps
  <2>2. Fitting'
    BY <2>1 DEF Fitting
  <2>3. CASE AppendThrows
    BY <2>1, <2>2, <2>3
    DEF AppendThrows, HouseInvariant, Converges, Together, Intact, AllSeen
  <2>4. CASE FsyncThrows
    <3>1. ~Intact'
      BY <2>4 DEF FsyncThrows, Intact, AllSeen
    <3>. QED
      BY <2>2, <3>1 DEF HouseInvariant, Converges, Together
  <2>5. CASE MaterializeThrows
    <3>1. /\ log' = Append(log, r) /\ house' = PropertyReducer(house, r)
          /\ survived' = survived \cup {"projected"} /\ (Intact' <=> Intact)
      BY <2>1, <2>5 DEF MaterializeThrows, Intact, AllSeen
    <3>2. CASE ~Intact
      BY <2>2, <3>1, <3>2 DEF HouseInvariant, Converges, Together
    <3>3. CASE Intact /\ Tail(todo) = <<>>
      <4>1. r = Last(todo)
        BY <2>1, <3>3, PlanParts DEF WalletInvariant, Plans
      <4>2. /\ Coherent(ReplayedHouse(log'))
            /\ \A d \in Houses :
                 /\ Reaches(d, ReplayedHouse(log'), Rematerialized(d, log'), log')
                 /\ WellFormed(d.row) =>
                      Follows(d, ReplayedHouse(log'), Rematerialized(d, log'))
            /\ SameHouse(house', ReplayedHouse(log')) /\ Lags(db', ReplayedHouse(log'), log')
        BY <2>1, <3>1, <3>3, <4>1, HouseGrows
      <4>. QED
        BY <2>1, <2>2, <3>1, <4>2 DEF HouseInvariant, Converges, Together
    <3>4. CASE Intact /\ Tail(todo) # <<>>
      <4>1. /\ ReplayedHouse(log') = ReplayedHouse(log)
            /\ \A d \in Houses : Rematerialized(d, log') = Rematerialized(d, log)
            /\ \A o : WrittenFrom(log', o) <=> WrittenFrom(log, o)
            /\ house' = house /\ db' = db
        BY <2>1, <3>1, <3>4, WalletGrows
      <4>2. Converges'
        BY <3>1, <3>4, <4>1 DEF HouseInvariant, Converges, Reaches
      <4>3. Together'
        BY <2>1, <3>1, <3>4, <4>1 DEF HouseInvariant, Together, Lags
      <4>. QED
        BY <2>2, <4>2, <4>3 DEF HouseInvariant
    <3>. QED
      BY <3>2, <3>3, <3>4
  <2>. QED
    BY <1>3, <2>3, <2>4, <2>5, CaughtSteps
<1>4. CASE Crash
  <2>1. /\ log' = log /\ db' = db /\ UNCHANGED <<overlapped, survived>> /\ todo' = <<>>
        /\ up /\ ~up'
    BY <1>4 DEF Crash, Down
  <2>2. Intact => SameHouse(Rematerialized(db, log), ReplayedHouse(log))
    BY <2>1, TablesFollow
  <2>. QED
    BY <2>1, <2>2 DEF HouseInvariant, Fitting, Converges, Together, Intact, AllSeen
<1>5. CASE CrashAfterFsync
  <2>1. /\ log' = Append(log, r) /\ db' = db /\ UNCHANGED <<overlapped, survived>>
        /\ todo # <<>> /\ todo' = <<>> /\ up /\ ~up'
    BY <1>5 DEF CrashAfterFsync, Down
  <2>2. Fitting' /\ (Intact' <=> Intact)
    BY <2>1 DEF Fitting, Intact, AllSeen
  <2>3. CASE ~Intact
    BY <2>2, <2>3 DEF HouseInvariant, Converges, Together
  <2>4. CASE Intact /\ Tail(todo) = <<>>
    <3>1. /\ Coherent(ReplayedHouse(log'))
          /\ \A d \in Houses :
               /\ Reaches(d, ReplayedHouse(log'), Rematerialized(d, log'), log')
               /\ WellFormed(d.row) => Follows(d, ReplayedHouse(log'), Rematerialized(d, log'))
          /\ SameHouse(Rematerialized(db, log'), ReplayedHouse(log'))
      BY <2>1, <2>4, HouseGrows
    <3>. QED
      BY <2>1, <2>2, <3>1 DEF HouseInvariant, Converges, Together
  <2>5. CASE Intact /\ Tail(todo) # <<>>
    <3>1. /\ ReplayedHouse(log') = ReplayedHouse(log)
          /\ \A d \in Houses : Rematerialized(d, log') = Rematerialized(d, log)
          /\ \A o : WrittenFrom(log', o) <=> WrittenFrom(log, o)
      BY <2>1, <2>5, WalletGrows
    <3>2. db \in Houses /\ SameHouse(Rematerialized(db, log), ReplayedHouse(log))
      BY <1>0, <2>1, <2>5, TablesFollow DEF Types
    <3>3. Converges'
      BY <2>2, <2>5, <3>1 DEF HouseInvariant, Converges, Reaches
    <3>4. Together'
      BY <2>1, <3>1, <3>2 DEF Together
    <3>. QED
      BY <2>2, <3>3, <3>4 DEF HouseInvariant
  <2>. QED
    BY <2>3, <2>4, <2>5
<1>6. CASE Boot
  <2>1. /\ up' = TRUE /\ db' = Rematerialized(db, log) /\ ~up
        /\ house' = Hydrated(ReplayedHouse(log), db') /\ log' = log /\ todo' = todo
        /\ overlapped' = overlapped /\ (Intact' <=> Intact)
    BY <1>6 DEF Boot, Intact, AllSeen
  <2>2. todo = <<>>
    BY <2>1 DEF WalletInvariant, Plans
  <2>3. ASSUME Intact
        PROVE  SameHouse(db', ReplayedHouse(log)) /\ SameHouse(house', ReplayedHouse(log))
    <3>1. SameHouse(db', ReplayedHouse(log))
      BY <2>1, <2>3 DEF HouseInvariant, Together
    <3>2. ReplayedHouse(log) \in Houses /\ db' \in Houses
      BY <1>0, <2>1, HouseSteps, TablesSteps DEF Types
    <3>. QED
      BY <2>1, <3>1, <3>2, HydratedIsSame
  <2>4. Intact => Lags(db', ReplayedHouse(log), log)
    BY <2>3 DEF SameHouse, SameAuction, Lags
  <2>. QED
    BY <2>1, <2>2, <2>3, <2>4 DEF HouseInvariant, Fitting, Converges, Together
<1>7. CASE UNCHANGED vars
  BY <1>7 DEF vars, HouseInvariant, Fitting, Converges, Together, Intact, AllSeen
<1>. QED
  BY <1>0, <1>1, <1>2, <1>3, <1>4, <1>5, <1>6, <1>7, Steps

-----------------------------------------------------------------------------
(* The coins. *)

LEMMA WorthOfSame ==
    ASSUME NEW d, NEW h, SameHouse(d, h)
    PROVE  Worth(d) = Worth(h)
BY DEF SameHouse, SameRow, Worth

LEMMA WorthIsNumber == ASSUME NEW h \in Houses PROVE Worth(h) \in Nat
<1>1. h.auction.high \in Nat
  BY HouseParts DEF Auctions
<1>. QED
  BY <1>1, DurableAssumption DEF Worth

LEMMA TotalIsNumber == ASSUME NEW g \in Wallets PROVE Total(g) \in Int
<1>1. g \in [Players -> Int]
  BY DEF Wallets
<1>. QED
  BY <1>1, DurableAssumption, SumIsInteger DEF Total

LEMMA SignedIsNumber == ASSUME NEW w \in WalletReceipts PROVE Signed(w) \in Int
BY DEF WalletReceipts, Signed

(* An affordable wallet receipt moves what it says, in total. *)
LEMMA TotalMoves ==
    ASSUME NEW g \in Wallets, NEW w \in WalletReceipts,
           w.action = "wallet_debit" => g[w.actor] >= w.amount
    PROVE  Total(TreasuryReducer(g, w)) = Total(g) + Signed(w)
<1>. DEFINE k == TreasuryReducer(g, w)
            p == w.actor
            n == Signed(w)
<1>1. g \in [Players -> Nat] /\ p \in Players /\ w.amount \in Nat
      /\ w.action \in {"wallet_credit", "wallet_debit"}
  BY DEF Wallets, WalletReceipts
<1>2. k[p] = g[p] + n /\ \A q \in Players \ {p} : k[q] = g[q]
  BY <1>1 DEF TreasuryReducer, Signed
<1>3. k \in Wallets /\ n \in Int
  BY WalletTypes, SignedIsNumber DEF Receipts
<1>. HIDE DEF k, n, p
<1>4. g \in [Players -> Int] /\ k \in [Players -> Int]
  BY <1>3 DEF Wallets
<1>5. Sums(k, Players)[Players] = Sums(g, Players)[Players] + n
  BY <1>1, <1>2, <1>3, <1>4, DurableAssumption, SumChanges
<1>. QED
  BY <1>5 DEF Total, k, n

LEMMA MovedIsNumber == ASSUME NEW s, Plan(s) PROVE Moved(s) \in Int
<1>0. CASE s = <<>>
  BY <1>0 DEF Moved
<1>1. CASE \E r \in PropertyReceipts : s = <<r>>
  BY <1>1, OneReceipt
<1>2. CASE \E w \in WalletReceipts, r \in PropertyReceipts : s = <<w, r>>
  BY <1>2, TwoReceipts, SignedIsNumber
<1>3. CASE \E w \in WalletReceipts, v \in WalletReceipts, r \in PropertyReceipts :
             v.action = "wallet_credit" /\ s = <<w, v, r>>
  BY <1>3, ThreeReceipts, SignedIsNumber
<1>. QED
  BY <1>0, <1>1, <1>2, <1>3 DEF Plan

LEMMA WholeInit == Init => Whole
<1>. SUFFICES ASSUME Init PROVE Whole
  OBVIOUS
<1>1. log = <<>> /\ todo = <<>>
  BY DEF Init
<1>2. ReplayedHouse(log) = NewHouse /\ ReplayedGold(Start, log) = Start
  BY <1>1, StartType, HouseSteps, GoldSteps
<1>3. Worth(NewHouse) = 0
  BY DEF Worth, NewHouse, IsOpenAt
<1>4. Total(Start) = InitialGold * Cardinality(Players)
  <2>1. InitialGold \in Int
    BY DurableAssumption
  <2>. QED
    BY <2>1, DurableAssumption, SumOfConstant DEF Total, Start
<1>5. Total(Start) \in Int
  BY StartType, TotalIsNumber
<1>. QED
  BY <1>1, <1>2, <1>3, <1>4, <1>5 DEF Whole, Balanced

(* A handler ends with a receipt in the log, its last one or torn. *)
LEMMA LastWritten ==
    ASSUME WalletInvariant, HouseInvariant, Whole, todo # <<>>, todo' = <<>>, up,
           log' = Append(log, Head(todo)), torn' = (torn \/ Len(todo) > 1),
           overlapped' = overlapped, survived \subseteq survived'
    PROVE  Whole'
<1>. DEFINE r == Head(todo)
<1>0. Plans /\ (~torn => AllSeen) /\ (~torn /\ ~overlapped => Intact)
  BY DEF WalletInvariant, Types, AllSeen, Intact
<1>1. CASE torn' \/ overlapped
  BY <1>1 DEF Whole
<1>2. CASE ~torn' /\ ~overlapped
  <2>0. Tail(todo) = <<>> /\ ~torn /\ r = Last(todo) /\ Moved(todo) = 0 /\ r \in PropertyReceipts
    BY <1>0, <1>2, PlanParts DEF Plans
  <2>1. Balanced(gold, 0, PropertyReducer(house, r))
    BY <1>2, <2>0 DEF Whole
  <2>2. ReplayedGold(Start, log') = gold
    BY <1>0, <2>0, LogGrows, PropertyReceiptsPass
  <2>3. Worth(PropertyReducer(house, r)) = Worth(ReplayedHouse(log'))
    BY <1>0, <1>2, <2>0, HouseGrows, WorthOfSame
  <2>. QED
    BY <1>2, <2>1, <2>2, <2>3 DEF Whole, Balanced, Start
<1>. QED
  BY <1>1, <1>2

LEMMA WholeNext ==
    ASSUME WalletInvariant, HouseInvariant, Whole, [Next]_vars
    PROVE  Whole'
<1>. DEFINE r == Head(todo)
            H == ReplayedHouse(log)
            g == ReplayedGold(Start, log)
<1>0. /\ Types /\ Plans /\ H \in Houses /\ g \in Wallets
      /\ (up /\ ~torn => g = gold) /\ (~up => todo = <<>> /\ ~begun)
      /\ (~torn => AllSeen) /\ (~torn /\ ~overlapped => Intact)
  BY HouseSteps, GoldSteps, StartType
  DEF WalletInvariant, Types, Plans, GoldReplayed, AllSeen, Intact
<1>1. CASE \E s : Decided(s)
  <2>1. PICK s : Decided(s)
    BY <1>1
  <2>2. UNCHANGED <<log, gold, house, torn>> /\ todo' = s /\ ~begun' /\ todo = <<>> /\ up
        /\ (~overlapped' => ~overlapped) /\ ~begun
    BY <1>0, <2>1 DEF Decided, Handle, Idle, Plans, Types
  <2>3. ASSUME ~torn', ~overlapped'
        PROVE  Balanced(gold, Moved(s), PropertyReducer(house, Last(s)))
    <3>1. Balanced(gold, 0, H)
      BY <1>0, <2>2, <2>3 DEF Whole
    <3>2. SameHouse(house, H) /\ Coherent(house) /\ house \in Houses
      BY <1>0, <2>2, <2>3, TablesFollow DEF HouseInvariant, Together, Types
    <3>3. Worth(house) = Worth(H)
      BY <3>2, WorthOfSame
    <3>4. Moved(s) + Worth(PropertyReducer(house, Last(s))) = Worth(house)
      BY <2>1, <2>3, <3>2 DEF Decided
    <3>5. Total(gold) \in Int /\ Worth(house) \in Nat
      BY <1>0, <3>2, TotalIsNumber, WorthIsNumber DEF Types
    <3>6. Moved(s) \in Int /\ Worth(PropertyReducer(house, Last(s))) \in Int
      <4>1. s # <<>> /\ Plan(s)
        BY <2>1 DEF Decided
      <4>2. Last(s) \in Receipts
        BY <4>1, PlanParts DEF Receipts
      <4>3. PropertyReducer(house, Last(s)) \in Houses
        BY <3>2, <4>2, ReducerTypes
      <4>. QED
        BY <4>1, <4>3, WorthIsNumber, MovedIsNumber
    <3>. QED
      BY <3>1, <3>3, <3>4, <3>5, <3>6 DEF Balanced
  <2>. QED
    BY <1>0, <2>2, <2>3 DEF Whole, Start
<1>2. CASE WriteReceipt
  <2>1. /\ todo # <<>> /\ log' = Append(log, r) /\ gold' = TreasuryReducer(gold, r)
        /\ house' = PropertyReducer(house, r) /\ todo' = Tail(todo) /\ up
        /\ begun' = (Tail(todo) # <<>>) /\ UNCHANGED <<overlapped, torn, survived>>
    BY <1>2 DEF WriteReceipt, aux
  <2>2. CASE torn \/ overlapped
    BY <2>1, <2>2 DEF Whole
  <2>3. CASE ~torn /\ ~overlapped /\ Tail(todo) = <<>>
    <3>1. Balanced(gold, 0, PropertyReducer(house, r))
      BY <1>0, <2>1, <2>3, PlanParts DEF Whole, Plans
    <3>2. ReplayedGold(Start, log') = gold
      <4>1. r \in PropertyReceipts
        BY <1>0, <2>1, <2>3, PlanParts DEF Plans
      <4>2. ReplayedGold(Start, log') = TreasuryReducer(gold, r)
        BY <1>0, <2>1, <2>3, LogGrows
      <4>. QED
        BY <4>1, <4>2, PropertyReceiptsPass
    <3>3. Worth(PropertyReducer(house, r)) = Worth(ReplayedHouse(log'))
      BY <1>0, <2>1, <2>3, HouseGrows, WorthOfSame
    <3>. QED
      BY <2>1, <2>3, <3>1, <3>2, <3>3 DEF Whole, Balanced, Start
  <2>4. CASE ~torn /\ ~overlapped /\ Tail(todo) # <<>>
    <3>1. house' = house /\ Last(Tail(todo)) = Last(todo)
      BY <2>1, <2>4, WalletGrows
    <3>2. r \in WalletReceipts /\ Moved(todo) = Signed(r) + Moved(Tail(todo)) /\ Plan(Tail(todo))
      BY <1>0, <2>1, <2>4, PlanParts DEF Plans
    <3>3. Total(gold') = Total(gold) + Signed(r)
      BY <1>0, <2>1, <3>2, TotalMoves DEF WalletInvariant, Paid, Types
    <3>4. Balanced(gold, Moved(todo), PropertyReducer(house, Last(todo)))
      BY <2>1, <2>4 DEF Whole
    <3>5. Total(gold) \in Int /\ Signed(r) \in Int /\ Moved(Tail(todo)) \in Int
      BY <1>0, <3>2, TotalIsNumber, SignedIsNumber, MovedIsNumber DEF Types
    <3>6. Balanced(gold', Moved(Tail(todo)), PropertyReducer(house, Last(todo)))
      <4>. DEFINE W == Worth(PropertyReducer(house, Last(todo)))
      <4>1. Total(gold) + (Signed(r) + Moved(Tail(todo))) + W = InitialGold * Cardinality(Players)
        BY <3>2, <3>4 DEF Balanced
      <4>2. W \in Int
        <5>1. Last(todo) \in Receipts /\ house \in Houses
          BY <1>0, <2>1, PlanParts DEF Plans, Types, Receipts
        <5>. QED
          BY <5>1, ReducerTypes, WorthIsNumber
      <4>3. Total(gold') + Moved(Tail(todo)) + W = InitialGold * Cardinality(Players)
        <5>. HIDE DEF W
        <5>. QED BY <3>3, <3>5, <4>1, <4>2
      <4>. QED
        BY <4>3 DEF Balanced
    <3>. QED
      BY <2>1, <2>4, <3>1, <3>6 DEF Whole
  <2>. QED
    BY <2>2, <2>3, <2>4
<1>3. CASE RouteCatches
  <2>1. /\ todo # <<>> /\ todo' = <<>> /\ ~begun' /\ overlapped' = overlapped /\ up
    BY <1>3, CaughtSteps
  <2>2. CASE AppendThrows
    BY <2>1, <2>2 DEF AppendThrows, Whole, Start
  <2>3. CASE FsyncThrows
    BY <2>3 DEF FsyncThrows, Whole
  <2>4. CASE MaterializeThrows
    <3>1. log' = Append(log, r) /\ torn' = (torn \/ Len(todo) > 1) /\ survived \subseteq survived'
      BY <2>4 DEF MaterializeThrows
    <3>. QED
      BY <1>0, <2>1, <3>1, LastWritten
  <2>. QED
    BY <1>3, <2>2, <2>3, <2>4, CaughtSteps
<1>4. CASE Crash
  <2>1. /\ UNCHANGED <<log, overlapped>> /\ todo' = <<>> /\ ~begun' /\ torn' = (torn \/ begun)
    BY <1>4 DEF Crash, Down
  <2>. QED
    BY <2>1 DEF Whole, Start
<1>5. CASE CrashAfterFsync
  <2>1. /\ log' = Append(log, r) /\ overlapped' = overlapped /\ todo # <<>> /\ todo' = <<>>
        /\ ~begun' /\ up /\ torn' = (torn \/ Len(todo) > 1) /\ survived' = survived
    BY <1>5 DEF CrashAfterFsync, Down
  <2>. QED
    BY <2>1, LastWritten
<1>6. CASE Boot
  <2>1. UNCHANGED <<log, todo, begun, torn, overlapped>> /\ ~up
    BY <1>6 DEF Boot
  <2>. QED
    BY <1>0, <2>1 DEF Whole, Start
<1>7. CASE UNCHANGED vars
  BY <1>7 DEF vars, Whole, Start
<1>. QED
  BY <1>0, <1>1, <1>2, <1>3, <1>4, <1>5, <1>6, <1>7, Steps

-----------------------------------------------------------------------------
(* The theorems. *)

Sound == WalletInvariant /\ HouseInvariant /\ Whole

LEMMA SoundHolds == Spec => []Sound
<1>1. Init => Sound
  BY WalletInit, HouseInit, WholeInit DEF Sound
<1>2. Sound /\ [Next]_vars => Sound'
  BY WalletNext, HouseNext, WholeNext DEF Sound
<1>. QED
  BY <1>1, <1>2, PTL DEF Spec

(* Balances are never negative, a house always has a known owner or none, and *)
(* a listed one has a price: for every number of players, terms and bids, and *)
(* with any number of crashes (the reducers and the materializer write nothing *)
(* else).                                                                     *)
THEOREM WellTyped == Spec => []TypeOK
<1>1. Sound => TypeOK
  BY HouseParts DEF Sound, WalletInvariant, Types, Plans, TypeOK, Wallets, Rows, PlayerOrNone
<1>. QED
  BY <1>1, SoundHolds, PTL

(* Materializing the whole log over any tables, at any moment, leaves them at *)
(* most as far behind memory as Reaches and, for well-formed rows, Follows    *)
(* say, and memory itself coherent: an auction is open exactly when the house *)
(* is marked auctioning.  Only a house listed or unlisted with its auction    *)
(* open, and a receipt in the log that memory never saw, are left out.        *)
THEOREM TablesConverge == Spec => []Converges
<1>1. Sound => Converges
  BY DEF Sound, HouseInvariant
<1>. QED
  BY <1>1, SoundHolds, PTL

(* The tables show the house that memory shows whenever no handler runs:     *)
(* materializers.ts and property.ts keep two sets of guards and reach one    *)
(* house, after every handler and every boot.  Left out are a house listed   *)
(* or unlisted with its auction open, and the time after a caught failure    *)
(* between append and materialization: of the tables, until the next boot;   *)
(* of the fsync, for good.                                                   *)
THEOREM TablesMirror == Spec => []MirrorShowsTheHouse
<1>1. Sound => MirrorShowsTheHouse
  <2>. SUFFICES ASSUME Sound, Idle, ~overlapped, survived = {}
                PROVE  Visible(db) = Visible(house)
    BY DEF MirrorShowsTheHouse
  <2>1. /\ db \in Houses /\ house \in Houses
        /\ SameHouse(house, ReplayedHouse(log)) /\ SameHouse(db, ReplayedHouse(log))
    BY DEF Sound, WalletInvariant, Types, HouseInvariant, Together, Idle, Intact, AllSeen
  <2>2. SameHouse(db, house)
    BY <2>1, SameIsSymmetric, SameIsTransitive
  <2>. QED
    BY <2>1, <2>2, VisibleIsSame
<1>. QED
  BY <1>1, SoundHolds, PTL

(* What runs is the house the receipts tell of, and loading the rows over it *)
(* (loadPropertiesAndSeed) is no change, also when the tables had missed a   *)
(* receipt; unless the house was listed or unlisted with its auction open,   *)
(* or a caught failed fsync left a receipt that memory never saw.            *)
THEOREM HydrationChangesNothing == Spec => []HydrationIsReplay
<1>1. Sound => HydrationIsReplay
  <2>. SUFFICES ASSUME Sound, up, ~overlapped, "written" \notin survived
                PROVE  Visible(house) = Visible(ReplayedHouse(log))
    BY DEF HydrationIsReplay
  <2>1. house \in Houses /\ log \in Seq(Receipts) /\ SameHouse(house, ReplayedHouse(log))
    BY DEF Sound, WalletInvariant, Types, HouseInvariant, Together, Intact, AllSeen
  <2>2. ReplayedHouse(log) \in Houses
    BY <2>1, HouseSteps
  <2>. QED
    BY <2>1, <2>2, VisibleIsSame
<1>. QED
  BY <1>1, SoundHolds, PTL

(* Every balance is the grants and credits less the debits of the whole log, *)
(* however often the process died or the tables failed: the reducer          *)
(* (applyReceiptToTreasury) never refuses a debit that a handler had checked, *)
(* unless a caught failed fsync left a receipt that no balance counted.      *)
THEOREM BalancesAreTheLog == Spec => []EveryDebitCounts
<1>1. Sound => EveryDebitCounts
  <2>. SUFFICES ASSUME Sound, NEW p \in Players, up, "written" \notin survived
                PROVE  gold[p] = InitialGold + Net(p, log)
    BY DEF EveryDebitCounts, Idle, Balance, Net
  <2>. QED
    BY DEF Sound, WalletInvariant, GoldReplayed, Counts, AllSeen
<1>. QED
  BY <1>1, SoundHolds, PTL

(* Wallets and standing bid hold every coin granted and not spent on the      *)
(* primary sale, across crashes and boots, unless a failure cut a handler's   *)
(* receipts in two, a receipt is in the log that memory never saw, or the     *)
(* house was listed or unlisted during an auction.                            *)
THEOREM EscrowIsKept == Spec => []EscrowSurvivesRestart
<1>1. Sound => EscrowSurvivesRestart
  <2>. SUFFICES ASSUME Sound, Idle, ~torn, ~overlapped
                PROVE  GoldHeld = GoldInCirculation
    BY DEF EscrowSurvivesRestart
  <2>1. /\ gold \in Wallets /\ house \in Houses /\ up /\ ~begun
        /\ gold = ReplayedGold(Start, log) /\ SameHouse(house, ReplayedHouse(log))
    BY DEF Sound, WalletInvariant, Types, Plans, GoldReplayed, HouseInvariant, Together, Idle,
       Intact, AllSeen
  <2>2. Balanced(gold, 0, house)
    <3>1. Balanced(gold, 0, ReplayedHouse(log))
      BY <2>1 DEF Sound, Whole
    <3>. QED
      BY <2>1, <3>1, WorthOfSame DEF Balanced
  <2>3. FoldFunction(LAMBDA n, sum : n + sum, 0, gold) = Total(gold)
    <3>1. DOMAIN gold = Players
      BY <2>1 DEF Wallets
    <3>. QED
      BY <3>1, FoldedSum DEF Total
  <2>4. GoldHeld = Total(gold) + (IF IsOpenAt(house) THEN house.auction.high ELSE 0)
    BY <2>3 DEF GoldHeld, IsOpen, IsOpenAt
  <2>5. Total(gold) \in Int /\ house.auction.high \in Nat /\ PrimaryPrice \in Nat
    BY <2>1, TotalIsNumber, HouseParts, DurableAssumption DEF Auctions
  <2>6. Total(gold) + 0 + Worth(house) = InitialGold * Cardinality(Players)
    BY <2>2 DEF Balanced
  <2>7. InitialGold * Cardinality(Players) \in Int
    BY DurableAssumption, FS_CardinalityType
  <2>. DEFINE N == InitialGold * Cardinality(Players)
  <2>. HIDE DEF N
  <2>8. Total(gold) + 0 + Worth(house) = N /\ N \in Int
    BY <2>6, <2>7 DEF N
  <2>9. GoldInCirculation = N - (IF house.row.owner = NoPlayer THEN 0 ELSE PrimaryPrice)
    BY DEF GoldInCirculation, N
  <2>. QED
    BY <2>4, <2>5, <2>8, <2>9 DEF Worth
<1>. QED
  BY <1>1, SoundHolds, PTL
===============================================================================
