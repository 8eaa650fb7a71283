------------------------------- MODULE Sessions -------------------------------
(***************************************************************************)
(* The sockets of index.ts: who is logged in on which, who is in which     *)
(* world, and the one sovereign session.                                   *)
(*                                                                         *)
(* Several sockets may be logged in as one player, and a socket may log in *)
(* again, in the world or not.  worlds[m].players is keyed by player, so   *)
(* two sockets of one player share an entry.  The map of a login comes     *)
(* from the account or the quest, and is free here; tutorial.complete goes *)
(* with the map Azura.  Tokens, the starter kit, death and movement are    *)
(* left out.                                                               *)
(***************************************************************************)
EXTENDS FiniteSets

CONSTANTS
    Players,        \* player ids
    Sockets,        \* connection ids
    None,           \* no player, no socket
    Sovereigns      \* players whose name is the sovereign's

(* Assumed by the modules that compose this one. *)
SessionsAssumption ==
    /\ None \notin Players /\ None \notin Sockets /\ Sovereigns \subseteq Players

VARIABLES
    session,    \* sessions
    shown,      \* the keys of worlds[m].players
    sovereign,  \* activeSovereignSessionId
    ghosts      \* auxiliary: whom a login in the world left there

svars == <<session, shown, sovereign, ghosts>>

Maps == {"Rookguard", "Azura"}

Session == [open : BOOLEAN, player : Players \cup {None}, inWorld : BOOLEAN, map : Maps]

Closed == [open |-> FALSE, player |-> None, inWorld |-> FALSE, map |-> "Rookguard"]

OnlineAs(p) == {c \in Sockets : session[c].open /\ session[c].player = p}

Online == {p \in Players : OnlineAs(p) # {}}

-----------------------------------------------------------------------------
SessionsInit ==
    /\ session = [c \in Sockets |-> Closed]
    /\ shown = [m \in Maps |-> {}]
    /\ sovereign = None
    /\ ghosts = [m \in Maps |-> {}]

(* A connection; its id is new. *)
Connect(c) ==
    /\ ~session[c].open
    /\ session' = [session EXCEPT ![c].open = TRUE]
    /\ UNCHANGED <<shown, sovereign, ghosts>>

Refused_Never(c, p) == FALSE

(* A sovereign is refused while another session is the active one. *)
Refused(c, p) == p \in Sovereigns /\ sovereign \notin {None, c}

(* Whom the sessions t have in the world on map m. *)
Present(t, m) == {t[c].player : c \in {d \in Sockets : t[d].inWorld /\ t[d].map = m}}

(* login as p, on any socket and however often; inWorld and the world's      *)
(* players are not touched.  A refused sovereign is logged out.              *)
Login(c, p, m) ==
    /\ session[c].open
    /\ session' = [session EXCEPT ![c].map = m, ![c].player = IF Refused(c, p) THEN None ELSE p]
    /\ sovereign' = IF p \in Sovereigns /\ ~Refused(c, p) THEN c ELSE sovereign
    /\ ghosts' = [n \in Maps |-> shown[n] \ Present(session', n)]
    /\ UNCHANGED shown

(* enter_world *)
EnterWorld(c) ==
    LET s == session[c] IN
    /\ s.player # None /\ ~s.inWorld
    /\ session' = [session EXCEPT ![c].inWorld = TRUE]
    /\ shown' = [shown EXCEPT ![s.map] = @ \cup {s.player}]
    /\ ghosts' = [ghosts EXCEPT ![s.map] = @ \ {s.player}]
    /\ UNCHANGED sovereign

(* The gate of Rookguard, in move_intent. *)
PassGate(c) ==
    LET s == session[c] IN
    /\ s.player # None /\ s.inWorld /\ s.map = "Rookguard"
    /\ session' = [session EXCEPT ![c].map = "Azura"]
    /\ shown' = [shown EXCEPT !["Rookguard"] = @ \ {s.player}, !["Azura"] = @ \cup {s.player}]
    /\ ghosts' = [m \in Maps |-> ghosts[m] \ {s.player}]
    /\ UNCHANGED sovereign

RemovedFromWorld_Never(c) == shown

(* The end of the close handler. *)
RemovedFromWorld(c) ==
    IF session[c].player # None /\ session[c].inWorld
    THEN [shown EXCEPT ![session[c].map] = @ \ {session[c].player}]
    ELSE shown

(* ws.on('close') *)
Close(c) ==
    /\ session[c].open
    /\ session' = [session EXCEPT ![c] = Closed]
    /\ shown' = RemovedFromWorld(c)
    /\ sovereign' = IF sovereign = c /\ session[c].player # None THEN None ELSE sovereign
    /\ ghosts' = [m \in Maps |-> ghosts[m] \cap shown'[m]]

SessionsRestart ==
    /\ session' = [c \in Sockets |-> Closed]
    /\ shown' = [m \in Maps |-> {}]
    /\ sovereign' = None
    /\ ghosts' = [m \in Maps |-> {}]

-----------------------------------------------------------------------------
(* The types; a closed socket keeps nothing. *)
SessionsTypeOK ==
    /\ session \in [Sockets -> Session]
    /\ \A c \in Sockets : ~session[c].open => session[c] = Closed
    /\ shown \in [Maps -> SUBSET Players] /\ ghosts \in [Maps -> SUBSET Players]
    /\ sovereign \in Sockets \cup {None}

(* "Only one Sovereign session at a time" (docs/ARCHITECTURE.md:113): two    *)
(* sockets are never logged in under the sovereign's name, whatever they     *)
(* logged in as before, and an open socket is there to give the claim back.  *)
OneSovereign ==
    /\ \A c \in Sockets : session[c].player \in Sovereigns => sovereign = c
    /\ sovereign # None => session[sovereign].open /\ session[sovereign].player # None

(* Whoever a world lists is logged in there, except those whose socket       *)
(* logged in again while it was in the world: nothing ever removes these.    *)
WorldListsTheLoggedIn ==
    \A m \in Maps : shown[m] \subseteq Present(session, m) \cup ghosts[m]

=============================================================================
