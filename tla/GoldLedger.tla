------------------------------ MODULE GoldLedger ------------------------------
(***************************************************************************)
(* What the house market promises about gold, whatever receipts it writes  *)
(* to keep the promise: gold exists in wallets and in the stakes of        *)
(* standing bids and nowhere else, it enters only by a credit that is a    *)
(* faucet and leaves only by a debit that is a sink, and a stake goes back *)
(* to the player who put it down or to the seller it was bid to.           *)
(*                                                                         *)
(* The module is the abstract specification of HouseMarket; it models no   *)
(* line of the code by itself.                                             *)
(***************************************************************************)
EXTENDS Integers

CONSTANTS
    Players,    \* player ids
    Houses,     \* property ids
    NoPlayer,   \* the holder of no stake
    Amounts     \* the amounts a receipt may move: positive, bounded

VARIABLES
    wallet,     \* wallet[p]: the gold player p can spend
    stake,      \* stake[h]: who has gold staked on house h, and how much
    supply      \* the gold that exists: faucets so far minus sinks so far

ledgerVars == <<wallet, stake, supply>>

NoStake == [holder |-> NoPlayer, amount |-> 0]

Moved(from, to, n) ==
    [p \in Players |-> wallet[p] - (IF p = from THEN n ELSE 0)
                                 + (IF p = to THEN n ELSE 0)]

LedgerTypeOK ==
    /\ wallet \in [Players -> Nat]
    /\ stake \in [Houses -> [holder : Players \cup {NoPlayer}, amount : Nat]]
    /\ supply \in Nat

Init ==
    /\ wallet = [p \in Players |-> 0]
    /\ stake = [h \in Houses |-> NoStake]
    /\ supply = 0

(* A faucet: a credit nobody else pays for. *)
Mint(p, n) ==
    /\ wallet' = Moved(NoPlayer, p, n)
    /\ supply' = supply + n
    /\ UNCHANGED stake

(* A sink: a debit nobody else receives. *)
Burn(p, n) ==
    /\ n <= wallet[p]
    /\ wallet' = Moved(p, NoPlayer, n)
    /\ supply' = supply - n
    /\ UNCHANGED stake

(* A sale between two players. *)
Pay(from, to, n) ==
    /\ from # to
    /\ n <= wallet[from]
    /\ wallet' = Moved(from, to, n)
    /\ UNCHANGED <<stake, supply>>

(* A bid: p stakes n, more than was staked, and the stake it displaces goes *)
(* back to its holder in the same step.                                     *)
Stake(p, h, n) ==
    /\ stake[h].amount < n /\ n <= wallet[p]
    /\ wallet' = [q \in Players |->
                    wallet[q] - (IF q = p THEN n ELSE 0)
                              + (IF q = stake[h].holder THEN stake[h].amount ELSE 0)]
    /\ stake' = [stake EXCEPT ![h] = [holder |-> p, amount |-> n]]
    /\ UNCHANGED supply

(* The auction of h is over: the whole stake goes to the seller. *)
Release(h, seller) ==
    /\ stake[h].amount > 0
    /\ stake[h].holder # seller
    /\ wallet' = Moved(NoPlayer, seller, stake[h].amount)
    /\ stake' = [stake EXCEPT ![h] = NoStake]
    /\ UNCHANGED supply

Next ==
    \/ \E p \in Players, n \in Amounts : Mint(p, n) \/ Burn(p, n)
    \/ \E from, to \in Players, n \in Amounts : Pay(from, to, n)
    \/ \E p \in Players, h \in Houses, n \in Amounts : Stake(p, h, n)
    \/ \E h \in Houses, seller \in Players : Release(h, seller)

Spec == Init /\ [][Next]_ledgerVars
===============================================================================
