-------------------------------- MODULE Gather --------------------------------
(***************************************************************************)
(* The chill-zone loop of world/gather.ts: a player claims a node, holds   *)
(* what it yields, may refine it and delivers it.  The server owns every   *)
(* clock; all of it is in memory and gone after a restart.                 *)
(*                                                                         *)
(* Positions are left out: a player may be at any node and any station.    *)
(* Times are kept as what is left of them.                                 *)
(***************************************************************************)
EXTENDS Integers, FiniteSets

CONSTANTS
    Players,        \* player ids
    Nodes,          \* the nodes of the zone
    None,           \* no player, no node
    GatherTime,     \* gatherDurationMs, in units of the model's clock
    RefineTime,     \* refineDurationMs
    RespawnTime     \* respawnCooldownMs

(* Assumed by the modules that compose this one. *)
GatherAssumption ==
    /\ None \notin Players /\ None \notin Nodes
    /\ GatherTime \in Nat /\ RefineTime \in Nat /\ RespawnTime \in Nat
    /\ IsFiniteSet(Players)

VARIABLES
    node,       \* the nodes of the zone
    activity,   \* gatherByPlayer
    held,       \* heldByPlayer
    loose       \* auxiliary: yields of each node neither delivered nor dropped

gvars == <<node, activity, held, loose>>

Node == [state : {"available"}, claimant : {None}, left : {0}]
        \cup [state : {"depleting"}, claimant : Players, left : 0..GatherTime]
        \cup [state : {"depleted"}, claimant : {None}, left : 0..RespawnTime]

Activity == [state : {"idle", "gathering", "refining"}, node : Nodes \cup {None},
             left : 0..GatherTime \cup 0..RefineTime]

(* A refinable type is raw or refined; where it came from tells items apart. *)
Held == [node : Nodes \cup {None}, refined : BOOLEAN]

Available == [state |-> "available", claimant |-> None, left |-> 0]
IdleNow == [state |-> "idle", node |-> None, left |-> 0]
Empty == [node |-> None, refined |-> FALSE]

HoldersOf(n) == {p \in Players : held[p].node = n}

-----------------------------------------------------------------------------
GatherInit ==
    /\ node = [n \in Nodes |-> Available]
    /\ activity = [p \in Players |-> IdleNow]
    /\ held = [p \in Players |-> Empty]
    /\ loose = [n \in Nodes |-> 0]

(* The guards of startGather on the player. *)
MayGather(p) == activity[p].state = "idle" /\ held[p] = Empty

(* startGather *)
StartGather(p, n) ==
    /\ node[n].state = "available"
    /\ MayGather(p)
    /\ node' = [node EXCEPT ![n] =
            [state |-> "depleting", claimant |-> p, left |-> GatherTime]]
    /\ activity' = [activity EXCEPT ![p] =
            [state |-> "gathering", node |-> n, left |-> GatherTime]]
    /\ UNCHANGED <<held, loose>>

(* startRefine; only a raw item is refinable *)
StartRefine(p) ==
    /\ activity[p].state = "idle"
    /\ held[p] # Empty /\ ~held[p].refined
    /\ activity' = [activity EXCEPT ![p] =
            [state |-> "refining", node |-> None, left |-> RefineTime]]
    /\ UNCHANGED <<node, held, loose>>

HandedOver_Kept(p) == held

(* deliver consumes the slot. *)
HandedOver(p) == [held EXCEPT ![p] = Empty]

(* deliver and its receipt; a refine under way goes on without the item. *)
Deliver(p) ==
    /\ held[p] # Empty
    /\ held' = HandedOver(p)
    /\ loose' = [loose EXCEPT ![held[p].node] = @ - 1]
    /\ UNCHANGED <<node, activity>>

ReleaseClaim_Forgotten(p) == node

ReleaseClaim_StateOnly(p) ==
    [n \in Nodes |-> IF node[n].claimant = p THEN [node[n] EXCEPT !.state = "available"] ELSE node[n]]

(* releaseClaim *)
ReleaseClaim(p) ==
    [n \in Nodes |->
        IF /\ activity[p].state = "gathering" /\ activity[p].node = n
           /\ node[n].state = "depleting" /\ node[n].claimant = p
        THEN Available ELSE node[n]]

(* onPlayerLeave *)
Leave(p) ==
    /\ node' = ReleaseClaim(p)
    /\ activity' = [activity EXCEPT ![p] = IdleNow]
    /\ held' = [held EXCEPT ![p] = Empty]
    /\ loose' = IF held[p] = Empty THEN loose ELSE [loose EXCEPT ![held[p].node] = @ - 1]

(* The activities tickGather completes, and the node one of them yields from. *)
Done(p) == activity[p].state # "idle" /\ activity[p].left = 0
Yields(p, n) == activity[p].state = "gathering" /\ Done(p) /\ activity[p].node = n
Yielded(n) == \E p \in Players : Yields(p, n)

Depleted == [state |-> "depleted", claimant |-> None, left |-> RespawnTime]

Respawned_Never(nd) == nd

(* The second loop of tickGather. *)
Respawned(nd) == IF nd.state = "depleted" /\ nd.left = 0 THEN Available ELSE nd

(* What p holds after the tick: an upgrade finds the item gone if it was    *)
(* delivered meanwhile.                                                     *)
HeldAfterTick(p) ==
    CASE activity[p].state = "gathering" /\ Done(p) -> [node |-> activity[p].node, refined |-> FALSE]
      [] activity[p].state = "refining" /\ Done(p) /\ held[p] # Empty -> [held[p] EXCEPT !.refined = TRUE]
      [] OTHER -> held[p]

(* tickGather *)
TickGather ==
    /\ activity' = [p \in Players |-> IF Done(p) THEN IdleNow ELSE activity[p]]
    /\ node' = [n \in Nodes |-> Respawned(IF Yielded(n) THEN Depleted ELSE node[n])]
    /\ held' = [p \in Players |-> HeldAfterTick(p)]
    /\ loose' = [n \in Nodes |-> loose[n] + Cardinality({p \in Players : Yields(p, n)})]

Less(t) == IF t > 0 THEN t - 1 ELSE 0

(* A unit of time passes. *)
GatherElapse ==
    /\ node' = [n \in Nodes |-> [node[n] EXCEPT !.left = Less(@)]]
    /\ activity' = [p \in Players |-> [activity[p] EXCEPT !.left = Less(@)]]
    /\ UNCHANGED <<held, loose>>

(* createGatherSystem: nothing survives a restart. *)
GatherRestart ==
    /\ node' = [n \in Nodes |-> Available]
    /\ activity' = [p \in Players |-> IdleNow]
    /\ held' = [p \in Players |-> Empty]
    /\ loose' = [n \in Nodes |-> 0]

GatherNext ==
    \/ \E p \in Players, n \in Nodes : StartGather(p, n)
    \/ \E p \in Players : StartRefine(p) \/ Deliver(p) \/ Leave(p)
    \/ TickGather \/ GatherElapse \/ GatherRestart

GatherSpec == GatherInit /\ [][GatherNext]_gvars

-----------------------------------------------------------------------------
(* The types; only a node being depleted has a claimant. *)
GatherTypeOK ==
    /\ node \in [Nodes -> Node]
    /\ activity \in [Players -> Activity]
    /\ held \in [Players -> Held]
    /\ loose \in [Nodes -> Int]

(* A node is being depleted exactly while the one player it names gathers    *)
(* at it, on the same clock: no claim is left behind and none is shared.     *)
ClaimsMatch ==
    /\ \A n \in Nodes : node[n].state = "depleting" =>
           LET p == node[n].claimant IN
           p # None /\ activity[p] = [state |-> "gathering", node |-> n, left |-> node[n].left]
    /\ \A p \in Players : activity[p].state = "gathering" =>
           node[activity[p].node].state = "depleting" /\ node[activity[p].node].claimant = p

(* Every yield is in one player's hand until one receipt delivers it or its  *)
(* holder leaves: nothing is delivered twice and nothing is overwritten.     *)
YieldsInHand == \A n \in Nodes : loose[n] = Cardinality(HoldersOf(n))

=============================================================================
