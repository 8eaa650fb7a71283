---------------------------- MODULE HouseReceipts ----------------------------
(***************************************************************************)
(* The receipts of one house and what two readers make of them:            *)
(*  - the reducers, applied in memory when a receipt is written and again, *)
(*    from the first receipt, at every boot: the treasury's and property's;*)
(*  - the materializer, which writes each receipt through to SQLite, and   *)
(*    runs again over whatever the tables already hold at most boots.      *)
(* The two are separate pieces of code with different guards; HouseDurable *)
(* asks when they agree.                                                   *)
(*                                                                         *)
(* Abstractions: property_created and the bid-refund marker, which change  *)
(* nothing modelled here, are left out, and so are places, timestamps,     *)
(* hashes, owner_history and scheduled_close_ms; 0 is the null price.      *)
(***************************************************************************)
EXTENDS Integers, SequencesExt

CONSTANTS
    Players,    \* player ids
    NoPlayer    \* the null player id

(* Receipts: one constructor per action. *)
Debit(p, n)       == [action |-> "wallet_debit", actor |-> p, amount |-> n]
Credit(p, n)      == [action |-> "wallet_credit", actor |-> p, amount |-> n]
Purchased(p)      == [action |-> "property_purchased", actor |-> p]
Transferred(p, s) == [action |-> "property_transferred", actor |-> p, seller |-> s]
Listed(p, n)      == [action |-> "property_listed", actor |-> p, price |-> n]
Unlisted(p)       == [action |-> "property_unlisted", actor |-> p]
Opened(p, m, i)   == [action |-> "property_auction_opened", actor |-> p,
                      minBid |-> m, increment |-> i]
Bid(p, n)         == [action |-> "property_bid", actor |-> p, amount |-> n]
Cancelled(p)      == [action |-> "property_auction_cancelled", actor |-> p]
Settled(w, s, n)  == [action |-> "property_auction_settled", winner |-> w,
                      seller |-> s, price |-> n]

(* A house, in memory and in the tables: its row and its latest auction. *)
NewHouse ==
    [row     |-> [owner |-> NoPlayer, status |-> "unowned", listed |-> 0, sales |-> 0],
     auction |-> [status |-> "none", seller |-> NoPlayer, minBid |-> 0, increment |-> 0,
                  high |-> 0, bidder |-> NoPlayer]]

SoldTo_KeepsStatus(row, p) ==
    [owner |-> p, status |-> row.status, listed |-> 0, sales |-> row.sales + 1]

SoldTo(row, p) == [owner |-> p, status |-> "owned", listed |-> 0, sales |-> row.sales + 1]

NewAuction(r) == [status |-> "open", seller |-> r.actor, minBid |-> r.minBid,
                  increment |-> r.increment, high |-> 0, bidder |-> NoPlayer]

MinNextBid(a) == IF a.high = 0 THEN a.minBid ELSE a.high + a.increment

-----------------------------------------------------------------------------
(* The reducers *)

(* applyReceiptToTreasury: a debit that would overdraw is not applied. *)
TreasuryReducer(gold, r) ==
    CASE r.action = "wallet_credit" -> [gold EXCEPT ![r.actor] = @ + r.amount]
      [] r.action = "wallet_debit" /\ gold[r.actor] >= r.amount ->
           [gold EXCEPT ![r.actor] = @ - r.amount]
      [] OTHER -> gold

(* The guards of applyReceiptToProperty. *)
Accepts(h, r) ==
    CASE r.action \in {"property_listed", "property_unlisted"} -> h.row.owner = r.actor
      [] r.action = "property_purchased" -> h.row.status = "unowned" /\ h.row.owner = NoPlayer
      [] r.action = "property_transferred" -> h.row.owner = r.seller
      [] r.action = "property_auction_opened" ->
           h.auction.status # "open" /\ h.row.owner = r.actor /\ h.row.status = "owned"
      [] r.action = "property_bid" ->
           /\ h.auction.status = "open" /\ h.auction.seller # r.actor
           /\ r.amount >= MinNextBid(h.auction)
      [] r.action = "property_auction_cancelled" ->
           h.auction.status = "open" /\ h.auction.seller = r.actor /\ h.auction.high = 0
      [] r.action = "property_auction_settled" -> h.auction.status = "open"
      [] OTHER -> FALSE

(* What applyReceiptToProperty does to a house whose guard lets it. *)
Applied(h, r) ==
    CASE r.action = "property_listed" ->
           [h EXCEPT !.row.status = "listed", !.row.listed = r.price]
      [] r.action = "property_unlisted" ->
           [h EXCEPT !.row.status = "owned", !.row.listed = 0]
      [] r.action \in {"property_purchased", "property_transferred"} ->
           [h EXCEPT !.row = SoldTo(@, r.actor)]
      [] r.action = "property_auction_opened" ->
           [row |-> [h.row EXCEPT !.status = "auctioning", !.listed = 0],
            auction |-> NewAuction(r)]
      [] r.action = "property_bid" ->
           [h EXCEPT !.auction.high = r.amount, !.auction.bidder = r.actor]
      [] r.action = "property_auction_cancelled" ->
           [h EXCEPT !.row.status = "owned", !.auction.status = "cancelled"]
      [] r.action = "property_auction_settled" ->
           [h EXCEPT !.row = IF r.winner = NoPlayer THEN [@ EXCEPT !.status = "owned"]
                             ELSE SoldTo(@, r.winner),
                     !.auction.status = "settled"]

PropertyReducer(h, r) == IF Accepts(h, r) THEN Applied(h, r) ELSE h

-----------------------------------------------------------------------------
(* The materializer: every UPDATE is a row and the WHERE it needs. *)

UpdateRow(d, where, row) == IF where THEN [d EXCEPT !.row = row] ELSE d

UpdateAuction(d, where, auction) == IF where THEN [d EXCEPT !.auction = auction] ELSE d

MaterializeOpened_KeepsHigh(d, r) ==
    UpdateRow([d EXCEPT !.auction = [NewAuction(r) EXCEPT !.high = d.auction.high,
                                                          !.bidder = d.auction.bidder]],
              d.row.status \in {"owned", "unowned"},
              [d.row EXCEPT !.status = "auctioning", !.listed = 0])

(* handlePropertyAuctionOpened replaces the row whatever it held, and marks *)
(* the house if its status allows.                                          *)
MaterializeOpened(d, r) ==
    UpdateRow([d EXCEPT !.auction = NewAuction(r)],
              d.row.status \in {"owned", "unowned"},
              [d.row EXCEPT !.status = "auctioning", !.listed = 0])

(* A house still marked auctioning becomes owned. *)
CorrectStatus_Dropped(d) == d

CorrectStatus(d) ==
    UpdateRow(d, d.row.status = "auctioning", [d.row EXCEPT !.status = "owned"])

MaterializeSettled(d, r) ==
    LET sold == UpdateRow(d, r.winner # NoPlayer /\ d.row.owner = r.seller,
                          SoldTo(d.row, r.winner))
    IN  UpdateAuction(CorrectStatus(sold), d.auction.status = "open",
                      [d.auction EXCEPT !.status = "settled"])

MaterializeCancelled(d, r) ==
    CorrectStatus(UpdateAuction(d,
        /\ d.auction.status = "open" /\ d.auction.high = 0
        /\ d.auction.seller = r.actor,
        [d.auction EXCEPT !.status = "cancelled"]))

(* handlePropertyBid: no comparison of amounts, receipts come in order. *)
MaterializeBid_NoBidder(d, r) ==
    UpdateAuction(d, d.auction.status = "open", [d.auction EXCEPT !.high = r.amount])

MaterializeBid(d, r) ==
    UpdateAuction(d, d.auction.status = "open",
                  [d.auction EXCEPT !.high = r.amount, !.bidder = r.actor])

SoldWhere_Always(d, r) == TRUE

(* handlePropertyPurchased and handlePropertyTransferred: the owner predicate. *)
SoldWhere(d, r) ==
    d.row.owner = IF r.action = "property_purchased" THEN NoPlayer ELSE r.seller

Materialize(d, r) ==
    CASE r.action = "property_listed" ->
           UpdateRow(d, d.row.owner = r.actor,
                     [d.row EXCEPT !.status = "listed", !.listed = r.price])
      [] r.action = "property_unlisted" ->
           UpdateRow(d, d.row.owner = r.actor,
                     [d.row EXCEPT !.status = "owned", !.listed = 0])
      [] r.action \in {"property_purchased", "property_transferred"} ->
           UpdateRow(d, SoldWhere(d, r), SoldTo(d.row, r.actor))
      [] r.action = "property_auction_opened" -> MaterializeOpened(d, r)
      [] r.action = "property_bid" -> MaterializeBid(d, r)
      [] r.action = "property_auction_cancelled" -> MaterializeCancelled(d, r)
      [] r.action = "property_auction_settled" -> MaterializeSettled(d, r)
      [] OTHER -> d

-----------------------------------------------------------------------------
(* replayReceipts, over a whole log *)

ReplayedGold(gold, log) == FoldLeft(TreasuryReducer, gold, log)

ReplayedHouse(log) == FoldLeft(PropertyReducer, NewHouse, log)

Rematerialized(d, log) == FoldLeft(Materialize, d, log)
===============================================================================
