------------------------------ MODULE ChillZone ------------------------------
(***************************************************************************)
(* Sessions and Gather as index.ts runs them together: an intent comes     *)
(* from a socket that is logged in and on the map of the nodes, the tick   *)
(* and the clock go on by themselves, a closing socket makes its player    *)
(* leave the loop, and so does a restart.                                  *)
(***************************************************************************)
EXTENDS Integers, FiniteSets

CONSTANTS Players, Sockets, None, Sovereigns, Nodes, GatherTime, RefineTime, RespawnTime

VARIABLES
    session, shown, sovereign, ghosts,      \* Sessions
    node, activity, held, loose,     \* Gather
    adrift  \* auxiliary: who held something when its last socket became someone else's

S == INSTANCE Sessions
G == INSTANCE Gather

ASSUME ChillZoneAssumption == S!SessionsAssumption /\ G!GatherAssumption

svars == <<session, shown, sovereign, ghosts>>
gvars == <<node, activity, held, loose>>
vars == <<svars, gvars, adrift>>

(* The zone of the nodes is Azura; the intents do not ask for enter_world. *)
MayWork(c) == session[c].player # None /\ session[c].map = "Azura"

Holds(p) == activity[p].state # "idle" \/ held[p] # G!Empty

Init == S!SessionsInit /\ G!GatherInit /\ adrift = {}

Connect(c) == S!Connect(c) /\ UNCHANGED <<gvars, adrift>>

Login(c, p, m) ==
    /\ S!Login(c, p, m)
    /\ adrift' = {a \in (adrift \cup {session[c].player}) \ (S!Online' \cup {None}) : Holds(a)}
    /\ UNCHANGED gvars

EnterWorld(c) == S!EnterWorld(c) /\ UNCHANGED <<gvars, adrift>>

PassGate(c) == S!PassGate(c) /\ UNCHANGED <<gvars, adrift>>

(* gather_intent, refine_intent and deliver_intent *)
GatherIntent(c, n) ==
    MayWork(c) /\ G!StartGather(session[c].player, n) /\ UNCHANGED <<svars, adrift>>
RefineIntent(c) ==
    MayWork(c) /\ G!StartRefine(session[c].player) /\ UNCHANGED <<svars, adrift>>
DeliverIntent(c) ==
    MayWork(c) /\ G!Deliver(session[c].player) /\ UNCHANGED <<svars, adrift>>

LeavesGather_NotYet(p) == UNCHANGED gvars

(* The close handler looks at the player of the socket, also when another    *)
(* socket is logged in as the same one.                                      *)
LeavesGather(p) == IF p = None THEN UNCHANGED gvars ELSE G!Leave(p)

Close(c) ==
    /\ S!Close(c)
    /\ LeavesGather(session[c].player)
    /\ UNCHANGED adrift

Tick == G!TickGather /\ UNCHANGED <<svars, adrift>>

Elapse == G!GatherElapse /\ UNCHANGED <<svars, adrift>>

Restart == S!SessionsRestart /\ G!GatherRestart /\ adrift' = {}

Next ==
    \/ \E c \in Sockets :
           \/ Connect(c) \/ EnterWorld(c) \/ PassGate(c) \/ Close(c)
           \/ RefineIntent(c) \/ DeliverIntent(c)
           \/ \E p \in Players, m \in S!Maps : Login(c, p, m)
           \/ \E n \in Nodes : GatherIntent(c, n)
    \/ Tick \/ Elapse \/ Restart

Spec == Init /\ [][Next]_vars

(* The interval of the tick and the clock. *)
FairSpec == Spec /\ WF_vars(Tick) /\ WF_vars(Elapse)

-----------------------------------------------------------------------------
(* The types of both parts, and those of this one. *)
TypeOK == S!SessionsTypeOK /\ G!GatherTypeOK /\ adrift \subseteq Players

(* As in Sessions: one sovereign at a time, and its claim can be given back. *)
OneSovereign == S!OneSovereign

(* As in Sessions: a world lists whom a socket has there, and ghosts.        *)
WorldListsTheLoggedIn == S!WorldListsTheLoggedIn

(* As in Gather, whatever sockets do: claims are exclusive and never stale.  *)
ClaimsMatch == G!ClaimsMatch

(* As in Gather: a yield is delivered once, or leaves with its holder.       *)
YieldsInHand == G!YieldsInHand

(* A player nobody is logged in as holds no node and no item, unless its     *)
(* socket went on as another player: then only a later close clears it.      *)
AbsentHoldNothing ==
    \A p \in Players \ (S!Online \cup adrift) : ~Holds(p)

(* A node always becomes available again, also when its gatherer leaves,     *)
(* is logged in twice or never comes back.                                   *)
NodesComeBack == \A n \in Nodes : node[n].state # "available" ~> node[n].state = "available"

=============================================================================
