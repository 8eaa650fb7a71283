------------------------------ MODULE Attendance ------------------------------
(***************************************************************************)
(* Sessions and Presence as index.ts runs them together: sockets put their *)
(* players at places, a closing socket takes its player from there, the    *)
(* tick watches who is together, and a restart replays the receipts.       *)
(***************************************************************************)
EXTENDS Integers, FiniteSets

CONSTANTS Players, Sockets, None, Sovereigns, Nowhere, Observe

VARIABLES
    session, shown, sovereign, ghosts,                          \* Sessions
    place, since, observed, entered, written, met, restless,    \* Presence
    stale   \* auxiliary: whom a login or a replay left recorded without a socket there

S == INSTANCE Sessions
P == INSTANCE Presence

ASSUME AttendanceAssumption ==
    /\ S!SessionsAssumption
    /\ Nowhere \notin P!Places /\ Observe \in Nat \ {0}

svars == <<session, shown, sovereign, ghosts>>
pvars == <<place, since, observed, entered, written, met, restless>>
vars == <<svars, pvars, stale>>

PlacesOn(m) == IF m = "Azura" THEN {"azura"} ELSE {"rookguard", "rookguard:plaza"}

InWorldAs(c) == IF session[c].inWorld THEN {session[c].player} \ {None} ELSE {}

(* Who is recorded at a place no socket has it at. *)
Unbacked ==
    {p \in Players : place[p] # Nowhere
        /\ ~ \E c \in Sockets : p \in InWorldAs(c) /\ place[p] \in PlacesOn(session[c].map)}

-----------------------------------------------------------------------------
Init == S!SessionsInit /\ P!PresenceInit /\ stale = {}

StaleStill == stale' = stale \cap Unbacked'

Connect(c) == S!Connect(c) /\ UNCHANGED <<pvars, stale>>

(* The login leaves the records of whoever the socket was before. *)
Login(c, p, m) ==
    /\ S!Login(c, p, m)
    /\ UNCHANGED pvars
    /\ stale' = Unbacked'

EnterWorld(c, x) ==
    /\ S!EnterWorld(c)
    /\ x \in PlacesOn(session[c].map)
    /\ P!Entered(session[c].player, x)
    /\ StaleStill

(* move_intent on one map *)
Move(c, x) ==
    /\ InWorldAs(c) # {}
    /\ x \in PlacesOn(session[c].map)
    /\ P!Moved(session[c].player, x)
    /\ UNCHANGED svars
    /\ StaleStill

PassGate(c) ==
    /\ S!PassGate(c)
    /\ P!Moved(session[c].player, "azura")
    /\ StaleStill

(* ws.on('close') *)
Close(c) ==
    LET p == session[c].player IN
    /\ S!Close(c)
    /\ IF p = None THEN UNCHANGED pvars ELSE P!Disconnected(p)
    /\ StaleStill

Tick ==
    /\ P!PresenceTick(UNION {InWorldAs(c) : c \in Sockets})
    /\ UNCHANGED <<svars, stale>>

Elapse == P!PresenceElapse /\ UNCHANGED <<svars, stale>>

(* The process ends and its successor replays the receipts. *)
Restart ==
    /\ S!SessionsRestart
    /\ P!PresenceReplay
    /\ stale' = Unbacked'

Next ==
    \/ \E c \in Sockets :
           \/ Connect(c) \/ PassGate(c) \/ Close(c)
           \/ \E p \in Players, m \in S!Maps : Login(c, p, m)
           \/ \E x \in P!Places : EnterWorld(c, x) \/ Move(c, x)
    \/ Tick \/ Elapse \/ Restart

Spec == Init /\ [][Next]_vars

-----------------------------------------------------------------------------
(* Whoever is recorded at a place is in the world there on some socket, but  *)
(* for those a login replaced or a replay brought back: a close, a gate and  *)
(* a second socket of the player never leave a record behind.                *)
RecordedAreThere == Unbacked \subseteq stale

(* "Check if two players have been in the same place long enough to observe  *)
(* each other" (checkCoPresence): the tick takes a pair for observed only    *)
(* after both were recorded there for the threshold without a break, unless  *)
(* one of them entered while still recorded: enter_world keeps the old start.*)
ObservedLongEnough ==
    [][Tick => \A k \in observed' \ observed :
                   met[k[1]] >= Observe \/ k[1] \cap restless # {}]_vars

=============================================================================
