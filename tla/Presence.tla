------------------------------- MODULE Presence -------------------------------
(***************************************************************************)
(* world/presence.ts: at which place each player is recorded, and which    *)
(* pairs were recorded together long enough to have observed each other.   *)
(*                                                                         *)
(* Only entering and observing are receipts; that a player left is not, so *)
(* a replay brings back whoever ever entered.  Of the landmarks one stands *)
(* for all.  Lingering, which only an NPC's greeting reads, is left out.   *)
(***************************************************************************)
EXTENDS Integers, FiniteSets

CONSTANTS
    Players,    \* player ids
    Nowhere,    \* no place
    Observe     \* PRESENCE_OBSERVE_THRESHOLD_MS, in units of the model's clock

VARIABLES
    place,      \* presenceByPlayer: current_place
    since,      \* coPresenceStart: how long ago, Unstarted if the key is not there
    observed,   \* observedPairs
    entered,    \* receipts: the place each player entered last
    written,    \* receipts: the pairs ever observed
    met,        \* auxiliary: how long two players have been recorded together
    restless    \* auxiliary: who entered while still recorded

pvars == <<place, since, observed, entered, written, met, restless>>

Places == {"rookguard", "rookguard:plaza", "azura"}

Pairs == {pair \in SUBSET Players : Cardinality(pair) = 2}

(* makeCoPresenceKey *)
Keys == Pairs \X Places

Unstarted == -1

At(p, x) == place[p] = x

Together(pair, x) == \A p \in pair : At(p, x)

-----------------------------------------------------------------------------
PresenceInit ==
    /\ place = [p \in Players |-> Nowhere]
    /\ since = [k \in Keys |-> Unstarted]
    /\ observed = {}
    /\ entered = [p \in Players |-> Nowhere]
    /\ written = {}
    /\ met = [pair \in Pairs |-> 0]
    /\ restless = {}

Cleared_Never(p) == since

(* clearCoPresenceForPlayer, for the place p is recorded at *)
Cleared(p) ==
    [k \in Keys |-> IF p \in k[1] /\ k[2] = place[p] THEN Unstarted ELSE since[k]]

MetAnew(p) == [pair \in Pairs |-> IF p \in pair THEN 0 ELSE met[pair]]

(* onPlayerMoved *)
Moved(p, x) ==
    IF At(p, x) THEN UNCHANGED pvars
    ELSE /\ place' = [place EXCEPT ![p] = x]
         /\ since' = Cleared(p)
         /\ entered' = [entered EXCEPT ![p] = x]
         /\ met' = MetAnew(p)
         /\ UNCHANGED <<observed, written, restless>>

(* resetSessionState and the first onPlayerMoved, in enter_world; the times  *)
(* of co-presence stay as they are.                                          *)
Entered(p, x) ==
    /\ place' = [place EXCEPT ![p] = x]
    /\ observed' = {k \in observed : p \notin k[1]}
    /\ entered' = [entered EXCEPT ![p] = x]
    /\ met' = MetAnew(p)
    /\ restless' = IF At(p, Nowhere) THEN restless ELSE restless \cup {p}
    /\ UNCHANGED <<since, written>>

Gone_Kept(p) == place

Gone(p) == [place EXCEPT ![p] = Nowhere]

(* onPlayerDisconnect *)
Disconnected(p) ==
    /\ place' = Gone(p)
    /\ since' = Cleared(p)
    /\ met' = MetAnew(p)
    /\ UNCHANGED <<observed, entered, written, restless>>

(* The pairs that checkCoPresence looks at when onPresenceTick runs for ps. *)
Checked(ps) ==
    {k \in Keys \ observed : Together(k[1], k[2]) /\ k[1] \cap ps # {}}

Due(k) == since[k] >= Observe

(* onPresenceTick for the players ps in turn *)
PresenceTick(ps) ==
    LET started == {k \in Checked(ps) : since[k] = Unstarted}
        due == {k \in Checked(ps) \ started : Due(k)} IN
    /\ since' = [k \in Keys |-> IF k \in started THEN 0 ELSE since[k]]
    /\ observed' = observed \cup due
    /\ written' = written \cup due
    /\ UNCHANGED <<place, entered, met, restless>>

(* A unit of time passes; time only matters up to Observe. *)
PresenceElapse ==
    /\ since' = [k \in Keys |-> IF since[k] \in 0..Observe - 1 THEN since[k] + 1 ELSE since[k]]
    /\ met' = [pair \in Pairs |->
            IF met[pair] < Observe /\ \E x \in Places : Together(pair, x)
            THEN met[pair] + 1 ELSE met[pair]]
    /\ UNCHANGED <<place, observed, entered, written, restless>>

(* applyReceiptToPresence over the whole log *)
PresenceReplay ==
    /\ place' = entered
    /\ since' = [k \in Keys |-> Unstarted]
    /\ observed' = written
    /\ met' = [pair \in Pairs |-> 0]
    /\ restless' = {}
    /\ UNCHANGED <<entered, written>>

=============================================================================
