--------------------------- MODULE ChillZoneProofs ---------------------------
(***************************************************************************)
(* What ChillZone checks on a small instance, for any numbers of players,  *)
(* sockets and nodes and any durations.                                    *)
(***************************************************************************)
EXTENDS ChillZone, FiniteSetTheorems, TLAPS

(* Whoever gathers is at a node and has empty hands: a yield overwrites nothing. *)
HandsFree ==
    \A p \in Players : activity[p].state = "gathering" =>
        activity[p].node \in Nodes /\ held[p] = G!Empty

(* The invariant of the loop. *)
LoopInvariant ==
    /\ G!GatherTypeOK
    /\ ClaimsMatch
    /\ YieldsInHand
    /\ HandsFree

USE ChillZoneAssumption DEF G!GatherAssumption

(* The instance of Gather has FiniteSets of its own: they are the same. *)
LEMMA SameFiniteSets == \A T : G!IsFiniteSet(T) <=> IsFiniteSet(T)
BY DEF G!IsFiniteSet, IsFiniteSet

LEMMA SameCardinality == \A T : G!Cardinality(T) = Cardinality(T)
BY DEF G!Cardinality, Cardinality, G!IsFiniteSet, IsFiniteSet

LEMMA CountedYields ==
    YieldsInHand <=> \A n \in Nodes : loose[n] = Cardinality(G!HoldersOf(n))
BY SameCardinality DEF YieldsInHand, G!YieldsInHand

LEMMA CountedYieldsNext ==
    YieldsInHand' <=> \A n \in Nodes : loose'[n] = Cardinality(G!HoldersOf(n)')
BY SameCardinality DEF YieldsInHand, G!YieldsInHand

LEMMA HoldersFinite == \A n : IsFiniteSet(G!HoldersOf(n))
BY SameFiniteSets, FS_Subset DEF G!HoldersOf

-----------------------------------------------------------------------------
(* The steps of the loop *)

LEMMA LoopInit == G!GatherInit => LoopInvariant
<1>. SUFFICES ASSUME G!GatherInit PROVE LoopInvariant
  OBVIOUS
<1>1. G!GatherTypeOK
  BY DEF G!GatherInit, G!GatherTypeOK, G!Available, G!IdleNow, G!Empty, G!Node, G!Activity, G!Held
<1>2. ClaimsMatch
  BY DEF G!GatherInit, ClaimsMatch, G!ClaimsMatch, G!Available, G!IdleNow
<1>3. YieldsInHand
  <2>1. \A n \in Nodes : G!HoldersOf(n) = {}
    BY DEF G!GatherInit, G!HoldersOf, G!Empty
  <2>. QED
    BY <2>1, CountedYields, FS_EmptySet DEF G!GatherInit
<1>4. HandsFree
  BY DEF G!GatherInit, G!IdleNow, HandsFree
<1>. QED
  BY <1>1, <1>2, <1>3, <1>4 DEF LoopInvariant

(* Who holds a yield does not change with what nobody holds anew. *)
LEMMA SameHolders ==
    ASSUME YieldsInHand, UNCHANGED loose,
           \A p \in Players : held'[p].node = held[p].node
    PROVE  YieldsInHand'
<1>1. \A n \in Nodes : G!HoldersOf(n)' = G!HoldersOf(n)
  BY DEF G!HoldersOf
<1>. QED
  BY <1>1 DEF YieldsInHand, G!YieldsInHand

LEMMA StartGatherKeeps ==
    ASSUME LoopInvariant, NEW p \in Players, NEW n \in Nodes, G!StartGather(p, n)
    PROVE  LoopInvariant'
<1>1. G!GatherTypeOK'
  BY DEF LoopInvariant, G!GatherTypeOK, G!StartGather, G!Node, G!Activity
<1>2. ClaimsMatch'
  BY DEF LoopInvariant, G!GatherTypeOK, G!StartGather, G!MayGather, ClaimsMatch, G!ClaimsMatch, G!Node, G!Activity
<1>3. YieldsInHand'
  BY SameHolders DEF LoopInvariant, G!StartGather
<1>4. HandsFree'
  BY DEF LoopInvariant, HandsFree, G!GatherTypeOK, G!StartGather, G!MayGather
<1>. QED
  BY <1>1, <1>2, <1>3, <1>4 DEF LoopInvariant

LEMMA StartRefineKeeps ==
    ASSUME LoopInvariant, NEW p \in Players, G!StartRefine(p)
    PROVE  LoopInvariant'
<1>1. G!GatherTypeOK'
  BY DEF LoopInvariant, G!GatherTypeOK, G!StartRefine, G!Activity
<1>2. ClaimsMatch'
  BY DEF LoopInvariant, G!GatherTypeOK, G!StartRefine, ClaimsMatch, G!ClaimsMatch, G!Node, G!Activity
<1>3. YieldsInHand'
  BY SameHolders DEF LoopInvariant, G!StartRefine
<1>4. HandsFree'
  BY DEF LoopInvariant, HandsFree, G!GatherTypeOK, G!StartRefine
<1>. QED
  BY <1>1, <1>2, <1>3, <1>4 DEF LoopInvariant

(* A player lets go of what it holds, by a delivery or by leaving. *)
LEMMA LetsGo ==
    ASSUME G!GatherTypeOK, YieldsInHand, NEW p \in Players, held[p] # G!Empty,
           held' = [held EXCEPT ![p] = G!Empty],
           loose' = [loose EXCEPT ![held[p].node] = @ - 1]
    PROVE  YieldsInHand' /\ loose' \in [Nodes -> Int]
<1>0. None \notin Nodes
  OBVIOUS
<1>1. loose' \in [Nodes -> Int]
  <2>. DEFINE m == held[p].node
  <2>1. loose' = [n \in Nodes |-> IF n = m THEN loose[n] - 1 ELSE loose[n]]
    BY DEF G!GatherTypeOK
  <2>2. \A n \in Nodes : loose[n] \in Int
    BY DEF G!GatherTypeOK
  <2>3. \A n \in Nodes : (IF n = m THEN loose[n] - 1 ELSE loose[n]) \in Int
    BY <2>2
  <2>. QED
    BY <2>1, <2>3
<1>2. ASSUME NEW n \in Nodes PROVE loose'[n] = Cardinality(G!HoldersOf(n)')
  <2>1. IsFiniteSet(G!HoldersOf(n))
    BY HoldersFinite
  <2>2. loose[n] = Cardinality(G!HoldersOf(n))
    BY CountedYields
  <2>3. CASE held[p].node = n
    <3>1. p \in G!HoldersOf(n) /\ G!HoldersOf(n)' = G!HoldersOf(n) \ {p}
      BY <1>0, <2>3 DEF G!HoldersOf, G!GatherTypeOK, G!Empty
    <3>2. Cardinality(G!HoldersOf(n) \ {p}) = Cardinality(G!HoldersOf(n)) - 1
      BY <2>1, <3>1, FS_RemoveElement
    <3>. QED
      BY <2>2, <2>3, <3>1, <3>2 DEF G!GatherTypeOK
  <2>4. CASE held[p].node # n
    <3>1. G!HoldersOf(n)' = G!HoldersOf(n)
      BY <1>0, <2>4 DEF G!HoldersOf, G!GatherTypeOK, G!Empty
    <3>. QED
      BY <2>2, <2>4, <3>1 DEF G!GatherTypeOK
  <2>. QED
    BY <2>3, <2>4
<1>. QED
  BY <1>1, <1>2, CountedYieldsNext

LEMMA DeliverKeeps ==
    ASSUME LoopInvariant, NEW p \in Players, G!Deliver(p)
    PROVE  LoopInvariant'
<1>1. YieldsInHand' /\ loose' \in [Nodes -> Int]
  BY LetsGo DEF LoopInvariant, G!Deliver, G!HandedOver
<1>2. G!GatherTypeOK'
  BY <1>1 DEF LoopInvariant, G!GatherTypeOK, G!Deliver, G!HandedOver, G!Held, G!Empty
<1>3. ClaimsMatch'
  BY DEF LoopInvariant, G!Deliver, ClaimsMatch, G!ClaimsMatch
<1>4. HandsFree'
  BY DEF LoopInvariant, HandsFree, G!GatherTypeOK, G!Deliver, G!HandedOver
<1>. QED
  BY <1>1, <1>2, <1>3, <1>4 DEF LoopInvariant

LEMMA LeaveKeeps ==
    ASSUME LoopInvariant, NEW p \in Players, G!Leave(p)
    PROVE  LoopInvariant'
<1>1. YieldsInHand' /\ loose' \in [Nodes -> Int]
  <2>1. CASE held[p] = G!Empty
    <3>1. held' = held /\ loose' = loose
      BY <2>1 DEF LoopInvariant, G!GatherTypeOK, G!Leave
    <3>. QED
      BY <3>1, SameHolders DEF LoopInvariant, G!GatherTypeOK
  <2>2. CASE held[p] # G!Empty
    BY <2>2, LetsGo DEF LoopInvariant, G!Leave
  <2>. QED
    BY <2>1, <2>2
<1>2. G!GatherTypeOK'
  BY <1>1 DEF LoopInvariant, G!GatherTypeOK, G!Leave, G!ReleaseClaim, G!Available, G!IdleNow,
     G!Held, G!Empty, G!Node, G!Activity
<1>3. ClaimsMatch'
  <2>1. ASSUME NEW n \in Nodes, node'[n].state = "depleting"
        PROVE  LET q == node'[n].claimant IN
               q # None /\ activity'[q] = [state |-> "gathering", node |-> n, left |-> node'[n].left]
    <3>1. node'[n] = node[n]
      BY <2>1 DEF G!Leave, G!ReleaseClaim, G!Available
    <3>2. node[n].claimant \in Players
      BY <2>1, <3>1 DEF LoopInvariant, G!GatherTypeOK, G!Node
    <3>3. activity[node[n].claimant] = [state |-> "gathering", node |-> n, left |-> node[n].left]
      BY <2>1, <3>1 DEF LoopInvariant, ClaimsMatch, G!ClaimsMatch
    <3>4. node[n].claimant # p
      <4>1. node[n].claimant = p => node'[n] = G!Available
        BY <2>1, <3>1, <3>3 DEF G!Leave, G!ReleaseClaim
      <4>. QED
        BY <2>1, <4>1 DEF G!Available
    <3>. QED
      BY <2>1, <3>1, <3>2, <3>3, <3>4 DEF LoopInvariant, G!GatherTypeOK, G!Leave, ClaimsMatch, G!ClaimsMatch
  <2>2. ASSUME NEW q \in Players, activity'[q].state = "gathering"
        PROVE  node'[activity'[q].node].state = "depleting" /\ node'[activity'[q].node].claimant = q
    <3>1. q # p /\ activity'[q] = activity[q]
      BY <2>2 DEF LoopInvariant, G!GatherTypeOK, G!Leave, G!IdleNow
    <3>2. activity[q].node \in Nodes /\ node[activity[q].node].claimant = q
      BY <2>2, <3>1 DEF LoopInvariant, HandsFree, ClaimsMatch, G!ClaimsMatch
    <3>3. node'[activity[q].node] = node[activity[q].node]
      BY <3>1, <3>2 DEF G!Leave, G!ReleaseClaim
    <3>. QED
      BY <2>2, <3>1, <3>2, <3>3 DEF LoopInvariant, ClaimsMatch, G!ClaimsMatch
  <2>. QED
    BY <2>1, <2>2 DEF ClaimsMatch, G!ClaimsMatch
<1>4. HandsFree'
  BY DEF LoopInvariant, HandsFree, G!GatherTypeOK, G!Leave, G!IdleNow
<1>. QED
  BY <1>1, <1>2, <1>3, <1>4 DEF LoopInvariant

LEMMA ElapseKeeps ==
    ASSUME LoopInvariant, G!GatherElapse
    PROVE  LoopInvariant'
<1>1. G!GatherTypeOK'
  <2>1. GatherTime \in Nat /\ RefineTime \in Nat /\ RespawnTime \in Nat
    OBVIOUS
  <2>2. \A m \in Nat : \A t \in 0..m : G!Less(t) \in 0..m
    BY DEF G!Less
  <2>3. ASSUME NEW x \in G!Node PROVE [x EXCEPT !.left = G!Less(@)] \in G!Node
    <3>1. CASE x \in [state : {"available"}, claimant : {None}, left : {0}]
      BY <3>1 DEF G!Node, G!Less
    <3>2. CASE x \in [state : {"depleting"}, claimant : Players, left : 0..GatherTime]
      BY <2>1, <2>2, <3>2 DEF G!Node
    <3>3. CASE x \in [state : {"depleted"}, claimant : {None}, left : 0..RespawnTime]
      BY <2>1, <2>2, <3>3 DEF G!Node
    <3>. QED
      BY <3>1, <3>2, <3>3 DEF G!Node
  <2>4. ASSUME NEW x \in G!Activity PROVE [x EXCEPT !.left = G!Less(@)] \in G!Activity
    <3>1. G!Less(x.left) \in 0..GatherTime \cup 0..RefineTime
      BY <2>1, <2>2 DEF G!Activity
    <3>. QED
      BY <3>1 DEF G!Activity
  <2>. QED
    BY <2>3, <2>4 DEF LoopInvariant, G!GatherTypeOK, G!GatherElapse
<1>2. ClaimsMatch'
  <2>1. \A n \in Nodes : /\ node'[n].state = node[n].state /\ node'[n].claimant = node[n].claimant
                          /\ node'[n].left = G!Less(node[n].left)
    BY DEF LoopInvariant, G!GatherTypeOK, G!GatherElapse, G!Node
  <2>2. \A p \in Players : /\ activity'[p].state = activity[p].state /\ activity'[p].node = activity[p].node
                            /\ activity'[p] = [activity[p] EXCEPT !.left = G!Less(activity[p].left)]
    BY DEF LoopInvariant, G!GatherTypeOK, G!GatherElapse, G!Activity
  <2>3. \A n \in Nodes : node[n].state = "depleting" => node[n].claimant \in Players
    BY DEF LoopInvariant, G!GatherTypeOK, G!Node
  <2>4. ASSUME NEW n \in Nodes, node'[n].state = "depleting"
        PROVE  LET q == node'[n].claimant IN
               q # None /\ activity'[q] = [state |-> "gathering", node |-> n, left |-> node'[n].left]
    <3>1. node[n].claimant \in Players /\ node'[n].claimant = node[n].claimant
      BY <2>1, <2>3, <2>4
    <3>2. activity[node[n].claimant] = [state |-> "gathering", node |-> n, left |-> node[n].left]
      BY <2>1, <2>4 DEF LoopInvariant, ClaimsMatch, G!ClaimsMatch
    <3>3. activity'[node[n].claimant] = [activity[node[n].claimant] EXCEPT !.left = G!Less(node[n].left)]
      BY <2>2, <3>1, <3>2
    <3>. QED
      BY <2>1, <3>1, <3>2, <3>3
  <2>5. ASSUME NEW q \in Players, activity'[q].state = "gathering"
        PROVE  node'[activity'[q].node].state = "depleting" /\ node'[activity'[q].node].claimant = q
    <3>1. activity[q].state = "gathering" /\ activity'[q].node = activity[q].node
      BY <2>2, <2>5
    <3>2. activity[q].node \in Nodes
      BY <3>1 DEF LoopInvariant, HandsFree
    <3>3. node[activity[q].node].state = "depleting" /\ node[activity[q].node].claimant = q
      BY <3>1 DEF LoopInvariant, ClaimsMatch, G!ClaimsMatch
    <3>. QED
      BY <2>1, <3>1, <3>2, <3>3
  <2>. QED
    BY <2>4, <2>5 DEF ClaimsMatch, G!ClaimsMatch
<1>3. YieldsInHand'
  BY SameHolders DEF LoopInvariant, G!GatherElapse
<1>4. HandsFree'
  BY DEF LoopInvariant, HandsFree, G!GatherTypeOK, G!GatherElapse, G!Activity
<1>. QED
  BY <1>1, <1>2, <1>3, <1>4 DEF LoopInvariant

LEMMA RestartKeeps == ASSUME G!GatherRestart PROVE LoopInvariant'
<1>1. G!GatherTypeOK'
  BY DEF G!GatherRestart, G!GatherTypeOK, G!Available, G!IdleNow, G!Empty, G!Node, G!Activity, G!Held
<1>2. ClaimsMatch'
  BY DEF G!GatherRestart, ClaimsMatch, G!ClaimsMatch, G!Available, G!IdleNow
<1>3. YieldsInHand'
  <2>1. \A n \in Nodes : G!HoldersOf(n)' = {}
    BY DEF G!GatherRestart, G!HoldersOf, G!Empty
  <2>. QED
    BY <2>1, CountedYieldsNext, FS_EmptySet DEF G!GatherRestart
<1>4. HandsFree'
  BY DEF G!GatherRestart, HandsFree, G!IdleNow
<1>. QED
  BY <1>1, <1>2, <1>3, <1>4 DEF LoopInvariant

(* A claim names its gatherer, so a node yields to one player at most. *)
LEMMA TickKeeps ==
    ASSUME LoopInvariant, G!TickGather
    PROVE  LoopInvariant'
<1>0. /\ G!GatherTypeOK /\ ClaimsMatch /\ HandsFree
  BY DEF LoopInvariant
<1>1. ASSUME NEW n \in Nodes, ~G!Yielded(n), node'[n].state = "depleting"
      PROVE  /\ node'[n] = node[n]
             /\ node[n].claimant \in Players
             /\ activity'[node[n].claimant] = activity[node[n].claimant]
  <2>1. node'[n] = G!Respawned(node[n])
    BY <1>1 DEF G!TickGather
  <2>2. node'[n] = node[n] /\ node[n].claimant \in Players
    BY <1>0, <1>1, <2>1 DEF G!Respawned, G!Available, G!GatherTypeOK, G!Node
  <2>3. activity[node[n].claimant] = [state |-> "gathering", node |-> n, left |-> node[n].left]
    BY <1>0, <1>1, <2>2 DEF ClaimsMatch, G!ClaimsMatch
  <2>4. ~G!Done(node[n].claimant)
    BY <1>1, <2>2, <2>3 DEF G!Yielded, G!Yields
  <2>. QED
    BY <2>2, <2>4 DEF G!TickGather
<1>2. ASSUME NEW n \in Nodes, G!Yielded(n) PROVE node'[n].state # "depleting"
  BY <1>2 DEF G!TickGather, G!Depleted, G!Respawned, G!Available
<1>3. ASSUME NEW p \in Players, activity'[p].state = "gathering"
      PROVE  /\ activity'[p] = activity[p] /\ activity[p].node \in Nodes
             /\ ~G!Yielded(activity[p].node)
             /\ held'[p] = held[p]
  <2>1. activity'[p] = activity[p] /\ ~G!Done(p)
    BY <1>3 DEF G!TickGather, G!IdleNow
  <2>2. activity[p].node \in Nodes /\ node[activity[p].node].claimant = p
    BY <1>0, <1>3, <2>1 DEF HandsFree, ClaimsMatch, G!ClaimsMatch
  <2>3. ASSUME NEW q \in Players, G!Yields(q, activity[p].node) PROVE FALSE
    BY <1>0, <2>1, <2>2, <2>3 DEF G!Yields, ClaimsMatch, G!ClaimsMatch
  <2>4. held'[p] = held[p]
    BY <2>1 DEF G!TickGather, G!HeldAfterTick
  <2>. QED
    BY <2>1, <2>2, <2>3, <2>4 DEF G!Yielded
<1>4. ClaimsMatch'
  <2>1. ASSUME NEW n \in Nodes, node'[n].state = "depleting"
        PROVE  LET q == node'[n].claimant IN
               q # None /\ activity'[q] = [state |-> "gathering", node |-> n, left |-> node'[n].left]
    BY <1>0, <1>1, <1>2, <2>1 DEF ClaimsMatch, G!ClaimsMatch
  <2>2. ASSUME NEW q \in Players, activity'[q].state = "gathering"
        PROVE  node'[activity'[q].node].state = "depleting" /\ node'[activity'[q].node].claimant = q
    <3>1. node[activity[q].node].state = "depleting" /\ node[activity[q].node].claimant = q
      BY <1>0, <1>3, <2>2 DEF ClaimsMatch, G!ClaimsMatch
    <3>2. node'[activity[q].node] = node[activity[q].node]
      BY <1>3, <2>2, <3>1 DEF G!TickGather, G!Respawned
    <3>. QED
      BY <1>3, <2>2, <3>1, <3>2
  <2>. QED
    BY <2>1, <2>2 DEF ClaimsMatch, G!ClaimsMatch
<1>5. G!GatherTypeOK'
  <2>1. node' \in [Nodes -> G!Node]
    BY <1>0 DEF G!TickGather, G!GatherTypeOK, G!Respawned, G!Depleted, G!Available, G!Node
  <2>2. activity' \in [Players -> G!Activity]
    BY <1>0 DEF G!TickGather, G!GatherTypeOK, G!IdleNow, G!Activity
  <2>3. held' \in [Players -> G!Held]
    BY <1>0 DEF G!TickGather, G!GatherTypeOK, G!HeldAfterTick, G!Activity, G!Held
  <2>4. \A n \in Nodes : G!Cardinality({p \in Players : G!Yields(p, n)}) \in Nat
    <3>1. \A n : IsFiniteSet({p \in Players : G!Yields(p, n)})
      BY SameFiniteSets, FS_Subset
    <3>. QED
      BY <3>1, SameCardinality, FS_CardinalityType
  <2>5. loose' \in [Nodes -> Int]
    BY <1>0, <2>4 DEF G!TickGather, G!GatherTypeOK
  <2>. QED
    BY <2>1, <2>2, <2>3, <2>5 DEF G!GatherTypeOK
<1>6. YieldsInHand'
  <2>. SUFFICES ASSUME NEW n \in Nodes PROVE loose'[n] = Cardinality(G!HoldersOf(n)')
    BY CountedYieldsNext
  <2>. DEFINE takers == {p \in Players : G!Yields(p, n)}
  <2>1. G!HoldersOf(n)' = G!HoldersOf(n) \cup takers
    <3>1. ASSUME NEW p \in Players PROVE held'[p].node = n <=> held[p].node = n \/ G!Yields(p, n)
      <4>1. CASE activity[p].state = "gathering" /\ G!Done(p)
        BY <1>0, <4>1 DEF G!TickGather, G!HeldAfterTick, G!Yields, HandsFree, G!Empty
      <4>2. CASE activity[p].state = "refining" /\ G!Done(p) /\ held[p] # G!Empty
        BY <1>0, <4>2 DEF G!TickGather, G!HeldAfterTick, G!Yields, G!GatherTypeOK, G!Held
      <4>3. CASE ~(activity[p].state = "gathering" /\ G!Done(p)) /\ ~(activity[p].state = "refining" /\ G!Done(p) /\ held[p] # G!Empty)
        BY <4>3 DEF G!TickGather, G!HeldAfterTick, G!Yields
      <4>. QED
        BY <4>1, <4>2, <4>3
    <3>. QED
      BY <3>1 DEF G!HoldersOf
  <2>2. G!HoldersOf(n) \cap takers = {}
    BY <1>0 DEF G!HoldersOf, G!Yields, HandsFree, G!Empty
  <2>3. IsFiniteSet(G!HoldersOf(n)) /\ IsFiniteSet(takers)
    BY HoldersFinite, SameFiniteSets, FS_Subset
  <2>4. Cardinality(G!HoldersOf(n) \cup takers) = Cardinality(G!HoldersOf(n)) + Cardinality(takers)
    <3>1. Cardinality(G!HoldersOf(n)) \in Nat /\ Cardinality(takers) \in Nat
      BY <2>3, FS_CardinalityType
    <3>2. Cardinality(G!HoldersOf(n) \cup takers)
            = Cardinality(G!HoldersOf(n)) + Cardinality(takers) - Cardinality(G!HoldersOf(n) \cap takers)
      BY <2>3, FS_Union
    <3>3. Cardinality(G!HoldersOf(n) \cap takers) = 0
      BY <2>2, FS_EmptySet
    <3>. QED
      BY <3>1, <3>2, <3>3
  <2>5. loose'[n] = loose[n] + Cardinality(takers)
    BY SameCardinality DEF G!TickGather
  <2>. QED
    BY <2>1, <2>4, <2>5, CountedYields DEF LoopInvariant
<1>7. HandsFree'
  BY <1>0, <1>3 DEF HandsFree
<1>. QED
  BY <1>4, <1>5, <1>6, <1>7 DEF LoopInvariant

-----------------------------------------------------------------------------
(* The steps of the sockets *)

SocketInvariant ==
    /\ S!SessionsTypeOK
    /\ OneSovereign
    /\ WorldListsTheLoggedIn

LEMMA SocketInit == S!SessionsInit => SocketInvariant
BY DEF S!SessionsInit, S!Closed, S!Maps, S!Session, SocketInvariant, S!SessionsTypeOK,
   OneSovereign, S!OneSovereign, WorldListsTheLoggedIn, S!WorldListsTheLoggedIn, S!SessionsAssumption

LEMMA SocketRestart == S!SessionsRestart => SocketInvariant'
BY DEF S!SessionsRestart, S!Closed, S!Maps, S!Session, SocketInvariant, S!SessionsTypeOK,
   OneSovereign, S!OneSovereign, WorldListsTheLoggedIn, S!WorldListsTheLoggedIn, S!SessionsAssumption

(* What one socket's step leaves of the other sockets. *)
LEMMA SocketTypes ==
    ASSUME SocketInvariant, NEW c \in Sockets,
           S!Connect(c) \/ S!EnterWorld(c) \/ S!PassGate(c) \/ S!Close(c)
               \/ \E p \in Players, m \in S!Maps : S!Login(c, p, m)
    PROVE  /\ S!SessionsTypeOK'
           /\ \A d \in Sockets \ {c} : session'[d] = session[d]
<1>0. /\ session \in [Sockets -> S!Session] /\ session[c] \in S!Session
      /\ \A d \in Sockets : ~session[d].open => session[d] = S!Closed
      /\ shown \in [S!Maps -> SUBSET Players] /\ ghosts \in [S!Maps -> SUBSET Players]
      /\ sovereign \in Sockets \cup {None}
  BY DEF SocketInvariant, S!SessionsTypeOK
<1>1. ASSUME NEW r \in S!Session, session' = [session EXCEPT ![c] = r], r.open \/ r = S!Closed
      PROVE  /\ session' \in [Sockets -> S!Session]
             /\ \A d \in Sockets : ~session'[d].open => session'[d] = S!Closed
             /\ \A d \in Sockets \ {c} : session'[d] = session[d]
  BY <1>0, <1>1
<1>2. CASE S!Connect(c)
  <2>. DEFINE r == [session[c] EXCEPT !.open = TRUE]
  <2>1. r \in S!Session /\ r.open
    BY <1>0 DEF S!Session
  <2>2. session' = [session EXCEPT ![c] = r] /\ UNCHANGED <<shown, sovereign, ghosts>>
    BY <1>2 DEF S!Connect
  <2>. HIDE DEF r
  <2>. QED
    BY <1>0, <1>1, <2>1, <2>2 DEF S!SessionsTypeOK
<1>3. CASE S!EnterWorld(c)
  <2>. DEFINE r == [session[c] EXCEPT !.inWorld = TRUE]
  <2>0. session[c].player # None
    BY <1>3 DEF S!EnterWorld
  <2>1. r \in S!Session /\ r.open /\ session[c].map \in S!Maps /\ session[c].player \in Players
    <3>1. session[c].open
      BY <1>0, <2>0 DEF S!Closed
    <3>. QED
      BY <1>0, <2>0, <3>1 DEF S!Session
  <2>2. session' = [session EXCEPT ![c] = r]
    BY <1>3 DEF S!EnterWorld
  <2>3. /\ shown' \in [S!Maps -> SUBSET Players] /\ ghosts' \in [S!Maps -> SUBSET Players]
        /\ sovereign' = sovereign
    BY <1>0, <1>3, <2>1 DEF S!EnterWorld
  <2>. HIDE DEF r
  <2>. QED
    BY <1>0, <1>1, <2>1, <2>2, <2>3 DEF S!SessionsTypeOK
<1>4. CASE S!PassGate(c)
  <2>. DEFINE r == [session[c] EXCEPT !.map = "Azura"]
  <2>1. r \in S!Session /\ r.open /\ session[c].player \in Players
    BY <1>0, <1>4 DEF S!Session, S!PassGate, S!Closed, S!Maps
  <2>2. session' = [session EXCEPT ![c] = r]
    BY <1>4 DEF S!PassGate
  <2>3. /\ shown' \in [S!Maps -> SUBSET Players] /\ ghosts' \in [S!Maps -> SUBSET Players]
        /\ sovereign' = sovereign
    BY <1>0, <1>4, <2>1 DEF S!PassGate
  <2>. HIDE DEF r
  <2>. QED
    BY <1>0, <1>1, <2>1, <2>2, <2>3 DEF S!SessionsTypeOK
<1>5. CASE S!Close(c)
  <2>1. S!Closed \in S!Session
    BY DEF S!Closed, S!Session, S!Maps
  <2>2. session' = [session EXCEPT ![c] = S!Closed]
    BY <1>5 DEF S!Close
  <2>3. shown' \in [S!Maps -> SUBSET Players]
    BY <1>0, <1>5 DEF S!Close, S!RemovedFromWorld
  <2>4. ghosts' \in [S!Maps -> SUBSET Players] /\ sovereign' \in Sockets \cup {None}
    BY <1>0, <1>5 DEF S!Close
  <2>. QED
    BY <1>1, <2>1, <2>2, <2>3, <2>4 DEF S!SessionsTypeOK
<1>6. ASSUME NEW p \in Players, NEW m \in S!Maps, S!Login(c, p, m)
      PROVE  S!SessionsTypeOK' /\ \A d \in Sockets \ {c} : session'[d] = session[d]
  <2>. DEFINE r == [session[c] EXCEPT !.map = m, !.player = IF S!Refused(c, p) THEN None ELSE p]
  <2>1. r \in S!Session /\ r.open
    BY <1>0, <1>6 DEF S!Session, S!Login
  <2>2. session' = [session EXCEPT ![c] = r]
    BY <1>0, <1>6 DEF S!Login
  <2>3. /\ shown' \in [S!Maps -> SUBSET Players] /\ ghosts' \in [S!Maps -> SUBSET Players]
        /\ sovereign' \in Sockets \cup {None}
    BY <1>0, <1>6 DEF S!Login
  <2>. HIDE DEF r
  <2>. QED
    BY <1>1, <2>1, <2>2, <2>3 DEF S!SessionsTypeOK
<1>. QED
  BY <1>2, <1>3, <1>4, <1>5, <1>6

(* The claim of the sovereign and whom the worlds list, step by step. *)
LEMMA SocketKeeps ==
    ASSUME SocketInvariant, NEW c \in Sockets,
           S!Connect(c) \/ S!EnterWorld(c) \/ S!PassGate(c) \/ S!Close(c)
               \/ \E p \in Players, m \in S!Maps : S!Login(c, p, m)
    PROVE  SocketInvariant'
<1>1. S!SessionsTypeOK' /\ \A d \in Sockets \ {c} : session'[d] = session[d]
  BY SocketTypes
<1>2. OneSovereign'
  <2>0. /\ session \in [Sockets -> S!Session] /\ OneSovereign /\ None \notin Sockets
        /\ None \notin Sovereigns
    BY DEF SocketInvariant, S!SessionsTypeOK, S!SessionsAssumption
  <2>1. CASE S!Connect(c) \/ S!EnterWorld(c) \/ S!PassGate(c)
    <3>1. /\ session'[c].player = session[c].player /\ sovereign' = sovereign
          /\ session[c].open => session'[c].open
      BY <2>0, <2>1 DEF S!Session, S!Connect, S!EnterWorld, S!PassGate
    <3>. QED
      BY <1>1, <2>0, <3>1 DEF OneSovereign, S!OneSovereign, S!SessionsTypeOK
  <2>2. CASE S!Close(c)
    <3>1. session'[c].player = None
      BY <2>0, <2>2 DEF S!Close, S!Closed
    <3>2. sovereign' = IF sovereign = c THEN None ELSE sovereign
      BY <2>0, <2>2 DEF S!Close, OneSovereign, S!OneSovereign
    <3>. QED
      BY <1>1, <2>0, <3>1, <3>2 DEF OneSovereign, S!OneSovereign, SocketInvariant, S!SessionsTypeOK
  <2>3. ASSUME NEW p \in Players, NEW m \in S!Maps, S!Login(c, p, m) PROVE OneSovereign'
    <3>1. /\ session'[c].player = IF S!Refused(c, p) THEN None ELSE p
          /\ session'[c].open
      BY <2>0, <2>3 DEF S!Login, S!Session
    <3>2. sovereign' = IF p \in Sovereigns /\ ~S!Refused(c, p) THEN c ELSE sovereign
      BY <2>3 DEF S!Login
    <3>3. sovereign \in Sockets \cup {None}
      BY DEF SocketInvariant, S!SessionsTypeOK
    <3>. QED
      BY <1>1, <2>0, <3>1, <3>2, <3>3 DEF OneSovereign, S!OneSovereign, S!Refused, S!SessionsAssumption
  <2>. QED
    BY <2>1, <2>2, <2>3
<1>3. WorldListsTheLoggedIn'
  <2>0. /\ session \in [Sockets -> S!Session] /\ WorldListsTheLoggedIn
        /\ shown \in [S!Maps -> SUBSET Players] /\ ghosts \in [S!Maps -> SUBSET Players]
    BY DEF SocketInvariant, S!SessionsTypeOK
  <2>1. CASE S!Connect(c)
    <3>1. session'[c].player = session[c].player /\ session'[c].inWorld = session[c].inWorld
          /\ session'[c].map = session[c].map /\ UNCHANGED <<shown, ghosts>>
      BY <2>0, <2>1 DEF S!Session, S!Connect
    <3>2. \A m \in S!Maps : S!Present(session', m) = S!Present(session, m)
      BY <1>1, <3>1 DEF S!Present
    <3>. QED
      BY <2>0, <3>1, <3>2 DEF WorldListsTheLoggedIn, S!WorldListsTheLoggedIn
  <2>2. CASE S!EnterWorld(c)
    <3>1. /\ session'[c].player = session[c].player /\ session'[c].inWorld
          /\ session'[c].map = session[c].map /\ session[c].map \in S!Maps
          /\ ~session[c].inWorld
      BY <2>0, <2>2 DEF S!Session, S!EnterWorld
    <3>2. \A m \in S!Maps : S!Present(session, m) \subseteq S!Present(session', m)
      BY <1>1, <3>1 DEF S!Present
    <3>3. session[c].player \in S!Present(session', session[c].map)
      BY <3>1 DEF S!Present
    <3>4. /\ shown' = [shown EXCEPT ![session[c].map] = @ \cup {session[c].player}]
          /\ ghosts' = [ghosts EXCEPT ![session[c].map] = @ \ {session[c].player}]
      BY <2>2 DEF S!EnterWorld
    <3>. QED
      BY <2>0, <3>1, <3>2, <3>3, <3>4 DEF WorldListsTheLoggedIn, S!WorldListsTheLoggedIn
  <2>3. CASE S!PassGate(c)
    <3>1. /\ session'[c].player = session[c].player /\ session'[c].inWorld /\ session[c].inWorld
          /\ session'[c].map = "Azura" /\ session[c].map = "Rookguard"
      BY <2>0, <2>3 DEF S!Session, S!PassGate
    <3>2. /\ S!Present(session, "Azura") \subseteq S!Present(session', "Azura")
          /\ S!Present(session, "Rookguard") \ {session[c].player} \subseteq S!Present(session', "Rookguard")
          /\ session[c].player \in S!Present(session', "Azura")
      BY <1>1, <3>1 DEF S!Present
    <3>3. /\ shown'["Rookguard"] = shown["Rookguard"] \ {session[c].player}
          /\ shown'["Azura"] = shown["Azura"] \cup {session[c].player}
          /\ \A m \in S!Maps : ghosts'[m] = ghosts[m] \ {session[c].player}
      BY <2>0, <2>3 DEF S!PassGate, S!Maps
    <3>. QED
      BY <2>0, <3>2, <3>3 DEF WorldListsTheLoggedIn, S!WorldListsTheLoggedIn, S!Maps
  <2>4. CASE S!Close(c)
    <3>. SUFFICES ASSUME NEW m \in S!Maps, NEW p \in shown'[m]
                  PROVE  p \in S!Present(session', m) \cup ghosts'[m]
      BY DEF WorldListsTheLoggedIn, S!WorldListsTheLoggedIn
    <3>1. p \in shown[m] /\ p \in Players
      BY <2>0, <2>4 DEF S!Close, S!RemovedFromWorld
    <3>2. CASE p \in ghosts[m]
      BY <2>4, <3>2 DEF S!Close
    <3>3. CASE p \in S!Present(session, m)
      <4>1. PICK d \in Sockets : session[d].inWorld /\ session[d].map = m /\ session[d].player = p
        BY <3>3 DEF S!Present
      <4>2. d # c
        BY <2>0, <2>4, <3>1, <4>1 DEF S!Close, S!RemovedFromWorld, S!SessionsAssumption
      <4>. QED
        BY <1>1, <4>1, <4>2 DEF S!Present
    <3>. QED
      BY <2>0, <3>1, <3>2, <3>3 DEF WorldListsTheLoggedIn, S!WorldListsTheLoggedIn
  <2>5. ASSUME NEW p \in Players, NEW m \in S!Maps, S!Login(c, p, m) PROVE WorldListsTheLoggedIn'
    BY <2>5 DEF S!Login, WorldListsTheLoggedIn, S!WorldListsTheLoggedIn
  <2>. QED
    BY <2>1, <2>2, <2>3, <2>4, <2>5
<1>. QED
  BY <1>1, <1>2, <1>3 DEF SocketInvariant

-----------------------------------------------------------------------------
(* The composition *)

ZoneInvariant ==
    /\ LoopInvariant
    /\ SocketInvariant
    /\ adrift \subseteq Players
    /\ AbsentHoldNothing

LEMMA ZoneInit == Init => ZoneInvariant
<1>. SUFFICES ASSUME Init PROVE ZoneInvariant
  OBVIOUS
<1>1. AbsentHoldNothing
  BY DEF Init, G!GatherInit, AbsentHoldNothing, Holds, G!IdleNow
<1>. QED
  BY <1>1, LoopInit, SocketInit DEF Init, ZoneInvariant

(* Whoever works is logged in, and a step that takes from nobody but whom it *)
(* logs out leaves the absent with nothing.                                  *)
LEMMA SameOnline ==
    ASSUME UNCHANGED session PROVE S!Online' = S!Online
BY DEF S!Online, S!OnlineAs

LEMMA WorkerOnline ==
    ASSUME SocketInvariant, NEW c \in Sockets, MayWork(c)
    PROVE  session[c].player \in S!Online /\ session[c].player \in Players
<1>1. session[c] \in S!Session /\ session[c].open
  BY DEF SocketInvariant, S!SessionsTypeOK, MayWork, S!Closed
<1>. QED
  BY <1>1 DEF MayWork, S!Session, S!Online, S!OnlineAs

LEMMA WorkKeeps ==
    ASSUME ZoneInvariant, NEW c \in Sockets,
           RefineIntent(c) \/ DeliverIntent(c) \/ \E n \in Nodes : GatherIntent(c, n)
    PROVE  ZoneInvariant'
<1>. DEFINE p == session[c].player
<1>0. p \in S!Online /\ p \in Players
  BY WorkerOnline DEF ZoneInvariant, RefineIntent, DeliverIntent, GatherIntent
<1>1. UNCHANGED <<svars, adrift>>
  BY DEF RefineIntent, DeliverIntent, GatherIntent
<1>2. LoopInvariant'
  BY <1>0, StartGatherKeeps, StartRefineKeeps, DeliverKeeps
     DEF ZoneInvariant, RefineIntent, DeliverIntent, GatherIntent
<1>3. SocketInvariant'
  BY <1>1 DEF ZoneInvariant, SocketInvariant, svars, S!SessionsTypeOK, OneSovereign, S!OneSovereign,
     WorldListsTheLoggedIn, S!WorldListsTheLoggedIn, S!Present
<1>4. \A q \in Players \ {p} : activity'[q] = activity[q] /\ held'[q] = held[q]
  BY <1>0 DEF ZoneInvariant, LoopInvariant, G!GatherTypeOK, RefineIntent, DeliverIntent, GatherIntent,
     G!StartGather, G!StartRefine, G!Deliver, G!HandedOver
<1>5. AbsentHoldNothing'
  BY <1>0, <1>1, <1>4, SameOnline DEF ZoneInvariant, svars, AbsentHoldNothing, Holds
<1>. QED
  BY <1>1, <1>2, <1>3, <1>5 DEF ZoneInvariant

LEMMA ClockKeeps ==
    ASSUME ZoneInvariant, Tick \/ Elapse
    PROVE  ZoneInvariant'
<1>1. UNCHANGED <<svars, adrift>>
  BY DEF Tick, Elapse
<1>2. LoopInvariant'
  BY TickKeeps, ElapseKeeps DEF ZoneInvariant, Tick, Elapse
<1>3. SocketInvariant'
  BY <1>1 DEF ZoneInvariant, SocketInvariant, svars, S!SessionsTypeOK, OneSovereign, S!OneSovereign,
     WorldListsTheLoggedIn, S!WorldListsTheLoggedIn, S!Present
<1>4. ASSUME NEW q \in Players, ~Holds(q) PROVE ~Holds(q)'
  <2>1. activity \in [Players -> G!Activity] /\ activity[q].state = "idle" /\ held[q] = G!Empty
    BY <1>4 DEF ZoneInvariant, LoopInvariant, G!GatherTypeOK, Holds
  <2>2. CASE Tick
    BY <2>1, <2>2 DEF Tick, G!TickGather, G!Done, G!HeldAfterTick, Holds
  <2>3. CASE Elapse
    BY <2>1, <2>3 DEF Elapse, G!GatherElapse, Holds, G!Activity
  <2>. QED
    BY <2>2, <2>3
<1>5. AbsentHoldNothing'
  BY <1>1, <1>4, SameOnline DEF ZoneInvariant, svars, AbsentHoldNothing
<1>. QED
  BY <1>1, <1>2, <1>3, <1>5 DEF ZoneInvariant

(* A socket's step that leaves the loop alone. *)
LEMMA SameLoop ==
    ASSUME LoopInvariant, UNCHANGED gvars
    PROVE  LoopInvariant' /\ \A p \in Players : Holds(p)' <=> Holds(p)
<1>1. YieldsInHand'
  BY SameHolders DEF LoopInvariant, gvars
<1>. QED
  BY <1>1 DEF LoopInvariant, gvars, G!GatherTypeOK, ClaimsMatch, G!ClaimsMatch, HandsFree, Holds

LEMMA SocketStepKeeps ==
    ASSUME ZoneInvariant, NEW c \in Sockets, Connect(c) \/ EnterWorld(c) \/ PassGate(c)
    PROVE  ZoneInvariant'
<1>1. SocketInvariant' /\ S!SessionsTypeOK' /\ \A d \in Sockets \ {c} : session'[d] = session[d]
  BY SocketKeeps, SocketTypes DEF ZoneInvariant, Connect, EnterWorld, PassGate
<1>2. UNCHANGED <<gvars, adrift>>
  BY DEF Connect, EnterWorld, PassGate
<1>3. session'[c].player = session[c].player /\ (session[c].open => session'[c].open)
  BY DEF ZoneInvariant, SocketInvariant, S!SessionsTypeOK, S!Session, Connect, EnterWorld, PassGate,
     S!Connect, S!EnterWorld, S!PassGate
<1>4. S!Online \subseteq S!Online'
  BY <1>1, <1>3 DEF S!Online, S!OnlineAs
<1>5. AbsentHoldNothing'
  BY <1>2, <1>4, SameLoop DEF ZoneInvariant, AbsentHoldNothing
<1>. QED
  BY <1>1, <1>2, <1>5, SameLoop DEF ZoneInvariant

LEMMA LoginKeeps ==
    ASSUME ZoneInvariant, NEW c \in Sockets, NEW p \in Players, NEW m \in S!Maps, Login(c, p, m)
    PROVE  ZoneInvariant'
<1>1. SocketInvariant' /\ S!SessionsTypeOK' /\ \A d \in Sockets \ {c} : session'[d] = session[d]
  BY SocketKeeps, SocketTypes DEF ZoneInvariant, Login
<1>2. UNCHANGED gvars
  BY DEF Login
<1>3. S!Online \subseteq S!Online' \cup {session[c].player}
  BY <1>1 DEF S!Online, S!OnlineAs
<1>4. adrift' = {a \in (adrift \cup {session[c].player}) \ (S!Online' \cup {None}) : Holds(a)}
  BY DEF Login
<1>5. adrift' \subseteq Players
  BY <1>4 DEF ZoneInvariant, SocketInvariant, S!SessionsTypeOK, S!Session
<1>6. AbsentHoldNothing'
  BY <1>2, <1>3, <1>4, SameLoop DEF ZoneInvariant, AbsentHoldNothing, S!SessionsAssumption
<1>. QED
  BY <1>1, <1>2, <1>5, <1>6, SameLoop DEF ZoneInvariant

LEMMA CloseKeeps ==
    ASSUME ZoneInvariant, NEW c \in Sockets, Close(c)
    PROVE  ZoneInvariant'
<1>1. SocketInvariant' /\ S!SessionsTypeOK' /\ \A d \in Sockets \ {c} : session'[d] = session[d]
  BY SocketKeeps, SocketTypes DEF ZoneInvariant, Close
<1>2. UNCHANGED adrift /\ session[c].player \in Players \cup {None}
  BY DEF Close, ZoneInvariant, SocketInvariant, S!SessionsTypeOK, S!Session
<1>3. S!Online \subseteq S!Online' \cup {session[c].player}
  BY <1>1 DEF S!Online, S!OnlineAs
<1>4. CASE session[c].player = None
  <2>1. UNCHANGED gvars
    BY <1>4 DEF Close, LeavesGather
  <2>2. AbsentHoldNothing'
    BY <1>2, <1>3, <1>4, <2>1, SameLoop DEF ZoneInvariant, AbsentHoldNothing, S!SessionsAssumption
  <2>. QED
    BY <1>1, <1>2, <2>1, <2>2, SameLoop DEF ZoneInvariant
<1>5. CASE session[c].player # None
  <2>. DEFINE p == session[c].player
  <2>1. p \in Players /\ G!Leave(p)
    BY <1>2, <1>5 DEF Close, LeavesGather
  <2>2. LoopInvariant'
    BY <2>1, LeaveKeeps DEF ZoneInvariant
  <2>3. ASSUME NEW q \in Players, q = p \/ ~Holds(q) PROVE ~Holds(q)'
    BY <2>1, <2>3 DEF ZoneInvariant, LoopInvariant, G!GatherTypeOK, G!Leave, G!IdleNow, Holds
  <2>4. AbsentHoldNothing'
    BY <1>2, <1>3, <2>3 DEF ZoneInvariant, AbsentHoldNothing
  <2>. QED
    BY <1>1, <1>2, <2>2, <2>4 DEF ZoneInvariant
<1>. QED
  BY <1>4, <1>5

LEMMA BootKeeps == ASSUME Restart PROVE ZoneInvariant'
<1>1. AbsentHoldNothing'
  BY DEF Restart, G!GatherRestart, AbsentHoldNothing, Holds, G!IdleNow
<1>. QED
  BY <1>1, RestartKeeps, SocketRestart DEF Restart, ZoneInvariant

LEMMA ZoneNext == ZoneInvariant /\ [Next]_vars => ZoneInvariant'
<1>. SUFFICES ASSUME ZoneInvariant, [Next]_vars PROVE ZoneInvariant'
  OBVIOUS
<1>1. ASSUME NEW c \in Sockets, Connect(c) \/ EnterWorld(c) \/ PassGate(c) PROVE ZoneInvariant'
  BY <1>1, SocketStepKeeps
<1>2. ASSUME NEW c \in Sockets, Close(c) PROVE ZoneInvariant'
  BY <1>2, CloseKeeps
<1>3. ASSUME NEW c \in Sockets,
             RefineIntent(c) \/ DeliverIntent(c) \/ \E n \in Nodes : GatherIntent(c, n)
      PROVE  ZoneInvariant'
  BY <1>3, WorkKeeps
<1>4. ASSUME NEW c \in Sockets, NEW p \in Players, NEW m \in S!Maps, Login(c, p, m)
      PROVE  ZoneInvariant'
  BY <1>4, LoginKeeps
<1>5. CASE Tick \/ Elapse
  BY <1>5, ClockKeeps
<1>6. CASE Restart
  BY <1>6, BootKeeps
<1>7. CASE UNCHANGED vars
  <2>1. UNCHANGED <<svars, gvars, adrift>>
    BY <1>7 DEF vars
  <2>2. SocketInvariant'
    BY <2>1 DEF ZoneInvariant, SocketInvariant, svars, S!SessionsTypeOK, OneSovereign, S!OneSovereign,
       WorldListsTheLoggedIn, S!WorldListsTheLoggedIn, S!Present
  <2>3. AbsentHoldNothing'
    BY <2>1, SameLoop, SameOnline DEF ZoneInvariant, svars, AbsentHoldNothing
  <2>. QED
    BY <2>1, <2>2, <2>3, SameLoop DEF ZoneInvariant
<1>. QED
  BY <1>1, <1>2, <1>3, <1>4, <1>5, <1>6, <1>7 DEF Next

LEMMA ZoneInvariantHolds == Spec => []ZoneInvariant
BY ZoneInit, ZoneNext, PTL DEF Spec

-----------------------------------------------------------------------------
(* Sockets, worlds, nodes and hands have their types. *)
THEOREM ZoneTypes == Spec => []TypeOK
<1>1. ZoneInvariant => TypeOK
  BY DEF ZoneInvariant, SocketInvariant, LoopInvariant, TypeOK
<1>. QED
  BY <1>1, ZoneInvariantHolds, PTL

(* Two sockets are never logged in under the sovereign's name. *)
THEOREM SovereignIsOne == Spec => []OneSovereign
BY ZoneInvariantHolds, PTL DEF ZoneInvariant, SocketInvariant

(* The worlds list nobody but whom a socket has there, and ghosts. *)
THEOREM WorldsList == Spec => []WorldListsTheLoggedIn
BY ZoneInvariantHolds, PTL DEF ZoneInvariant, SocketInvariant

(* A node is claimed by the one player gathering at it, on one clock. *)
THEOREM ClaimsAreExclusive == Spec => []ClaimsMatch
BY ZoneInvariantHolds, PTL DEF ZoneInvariant, LoopInvariant

(* Yields are neither delivered twice nor overwritten. *)
THEOREM YieldsAreKept == Spec => []YieldsInHand
BY ZoneInvariantHolds, PTL DEF ZoneInvariant, LoopInvariant

(* An absent player holds nothing, unless its socket became another's. *)
THEOREM AbsentLetGo == Spec => []AbsentHoldNothing
BY ZoneInvariantHolds, PTL DEF ZoneInvariant
=============================================================================
