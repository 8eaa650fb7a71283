-------------------------- MODULE AttendanceProofs --------------------------
(***************************************************************************)
(* What Attendance checks on a small instance, for any numbers of players  *)
(* and sockets and any threshold.                                          *)
(***************************************************************************)
EXTENDS Attendance, TLAPS

SessionTypes == session \in [Sockets -> S!Session]

PresenceTypes ==
    /\ place \in [Players -> P!Places \cup {Nowhere}]
    /\ since \in [P!Keys -> P!Unstarted..Observe]
    /\ met \in [P!Pairs -> 0..Observe]
    /\ entered \in [Players -> P!Places \cup {Nowhere}]
    /\ restless \subseteq Players

(* Time counts only for pairs that are together, and only from when they met; *)
(* this fails for a pair one of whom entered while still recorded.            *)
TimesAreReal ==
    \A k \in P!Keys : since[k] # P!Unstarted /\ k[1] \cap restless = {} =>
        P!Together(k[1], k[2]) /\ since[k] <= met[k[1]]

AttendanceInvariant ==
    /\ SessionTypes
    /\ PresenceTypes
    /\ TimesAreReal
    /\ RecordedAreThere

USE AttendanceAssumption DEF S!SessionsAssumption

(* Neither the plaza nor another place is no place, and every map has places. *)
LEMMA PlacesFit ==
    /\ \A m \in S!Maps : PlacesOn(m) \subseteq P!Places
    /\ PlacesOn("Azura") = {"azura"}
    /\ Nowhere \notin P!Places
BY DEF S!Maps, PlacesOn, P!Places

(* A pair is two players, a key a pair and a place. *)
LEMMA KeysFit ==
    ASSUME NEW k \in P!Keys
    PROVE  k[1] \in P!Pairs /\ k[2] \in P!Places /\ k[1] \subseteq Players
BY DEF P!Keys, P!Pairs

-----------------------------------------------------------------------------
(* The steps of presence: types, and that times are real *)

PresenceOK == PresenceTypes /\ TimesAreReal

LEMMA PresenceStart == P!PresenceInit => PresenceOK
BY DEF P!PresenceInit, PresenceOK, PresenceTypes, TimesAreReal, P!Unstarted

LEMMA MovedKeeps ==
    ASSUME PresenceOK, NEW p \in Players, NEW x \in P!Places, P!Moved(p, x)
    PROVE  PresenceOK'
<1>1. CASE P!At(p, x)
  BY <1>1 DEF P!Moved, P!pvars, PresenceOK, PresenceTypes, TimesAreReal, P!Together, P!At
<1>2. CASE ~P!At(p, x)
  <2>1. PresenceTypes'
    BY <1>2 DEF P!Moved, PresenceOK, PresenceTypes, P!Cleared, P!MetAnew, P!Unstarted
  <2>2. ASSUME NEW k \in P!Keys, since'[k] # P!Unstarted, k[1] \cap restless' = {}
        PROVE  P!Together(k[1], k[2])' /\ since'[k] <= met'[k[1]]
    <3>1. since'[k] = since[k] /\ ~(p \in k[1] /\ k[2] = place[p]) /\ restless' = restless
      BY <1>2, <2>2 DEF P!Moved, P!Cleared
    <3>2. P!Together(k[1], k[2]) /\ since[k] <= met[k[1]]
      BY <2>2, <3>1 DEF PresenceOK, TimesAreReal
    <3>3. p \notin k[1]
      BY <3>1, <3>2 DEF P!Together, P!At
    <3>. QED
      BY <1>2, <3>1, <3>2, <3>3, KeysFit DEF P!Moved, P!MetAnew, P!Together, P!At, PresenceOK, PresenceTypes
  <2>. QED
    BY <2>1, <2>2 DEF PresenceOK, TimesAreReal
<1>. QED
  BY <1>1, <1>2

LEMMA EnteredKeeps ==
    ASSUME PresenceOK, NEW p \in Players, NEW x \in P!Places, P!Entered(p, x)
    PROVE  PresenceOK'
<1>1. PresenceTypes'
  BY DEF P!Entered, PresenceOK, PresenceTypes, P!MetAnew
<1>2. ASSUME NEW k \in P!Keys, since'[k] # P!Unstarted, k[1] \cap restless' = {}
      PROVE  P!Together(k[1], k[2])' /\ since'[k] <= met'[k[1]]
  <2>1. since' = since /\ k[1] \cap restless = {} /\ (p \in k[1] => place[p] = Nowhere)
    BY <1>2 DEF P!Entered, P!At
  <2>2. P!Together(k[1], k[2]) /\ since[k] <= met[k[1]]
    BY <1>2, <2>1 DEF PresenceOK, TimesAreReal
  <2>3. p \notin k[1]
    BY <2>1, <2>2, KeysFit, PlacesFit DEF P!Together, P!At
  <2>. QED
    BY <2>1, <2>2, <2>3, KeysFit DEF P!Entered, P!MetAnew, P!Together, P!At, PresenceOK, PresenceTypes
<1>. QED
  BY <1>1, <1>2 DEF PresenceOK, TimesAreReal

LEMMA DisconnectedKeeps ==
    ASSUME PresenceOK, NEW p \in Players, P!Disconnected(p)
    PROVE  PresenceOK'
<1>1. PresenceTypes'
  BY DEF P!Disconnected, P!Gone, PresenceOK, PresenceTypes, P!Cleared, P!MetAnew, P!Unstarted
<1>2. ASSUME NEW k \in P!Keys, since'[k] # P!Unstarted, k[1] \cap restless' = {}
      PROVE  P!Together(k[1], k[2])' /\ since'[k] <= met'[k[1]]
  <2>1. since'[k] = since[k] /\ ~(p \in k[1] /\ k[2] = place[p]) /\ restless' = restless
    BY <1>2 DEF P!Disconnected, P!Cleared
  <2>2. P!Together(k[1], k[2]) /\ since[k] <= met[k[1]]
    BY <1>2, <2>1 DEF PresenceOK, TimesAreReal
  <2>3. p \notin k[1]
    BY <2>1, <2>2 DEF P!Together, P!At
  <2>. QED
    BY <2>1, <2>2, <2>3, KeysFit
       DEF P!Disconnected, P!Gone, P!MetAnew, P!Together, P!At, PresenceOK, PresenceTypes
<1>. QED
  BY <1>1, <1>2 DEF PresenceOK, TimesAreReal

LEMMA TickKeeps ==
    ASSUME PresenceOK, NEW ps, P!PresenceTick(ps)
    PROVE  PresenceOK'
<1>1. PresenceTypes'
  BY DEF P!PresenceTick, PresenceOK, PresenceTypes, P!Unstarted
<1>2. ASSUME NEW k \in P!Keys, since'[k] # P!Unstarted, k[1] \cap restless' = {}
      PROVE  P!Together(k[1], k[2])' /\ since'[k] <= met'[k[1]]
  <2>1. UNCHANGED <<place, met, restless>>
    BY DEF P!PresenceTick
  <2>2. CASE k \in P!Checked(ps) /\ since[k] = P!Unstarted
    <3>1. since'[k] = 0 /\ P!Together(k[1], k[2])
      BY <2>2 DEF P!PresenceTick, P!Checked
    <3>. QED
      BY <2>1, <3>1, KeysFit DEF PresenceOK, PresenceTypes, P!Together, P!At
  <2>3. CASE ~(k \in P!Checked(ps) /\ since[k] = P!Unstarted)
    <3>1. since'[k] = since[k]
      BY <2>3 DEF P!PresenceTick
    <3>. QED
      BY <1>2, <2>1, <3>1 DEF PresenceOK, TimesAreReal, P!Together, P!At
  <2>. QED
    BY <2>2, <2>3
<1>. QED
  BY <1>1, <1>2 DEF PresenceOK, TimesAreReal

LEMMA ElapseKeeps == ASSUME PresenceOK, P!PresenceElapse PROVE PresenceOK'
<1>1. PresenceTypes'
  BY DEF P!PresenceElapse, PresenceOK, PresenceTypes, P!Unstarted
<1>2. ASSUME NEW k \in P!Keys, since'[k] # P!Unstarted, k[1] \cap restless' = {}
      PROVE  P!Together(k[1], k[2])' /\ since'[k] <= met'[k[1]]
  <2>1. UNCHANGED <<place, restless>> /\ since[k] # P!Unstarted
    BY <1>2 DEF P!PresenceElapse, P!Unstarted
  <2>2. P!Together(k[1], k[2]) /\ since[k] <= met[k[1]]
    BY <1>2, <2>1 DEF PresenceOK, TimesAreReal
  <2>3. /\ k[1] \in P!Pairs /\ k[2] \in P!Places
        /\ since[k] \in P!Unstarted..Observe /\ met[k[1]] \in 0..Observe
    BY KeysFit DEF PresenceOK, PresenceTypes
  <2>4. since'[k] = IF since[k] \in 0..Observe - 1 THEN since[k] + 1 ELSE since[k]
    BY DEF P!PresenceElapse
  <2>5. met'[k[1]] = IF met[k[1]] < Observe THEN met[k[1]] + 1 ELSE met[k[1]]
    BY <2>2, <2>3 DEF P!PresenceElapse
  <2>6. since'[k] <= met'[k[1]]
    BY <2>2, <2>3, <2>4, <2>5 DEF P!Unstarted
  <2>. QED
    BY <2>1, <2>2, <2>6 DEF P!Together, P!At
<1>. QED
  BY <1>1, <1>2 DEF PresenceOK, TimesAreReal

LEMMA ReplayKeeps == ASSUME PresenceOK, P!PresenceReplay PROVE PresenceOK'
BY DEF P!PresenceReplay, PresenceOK, PresenceTypes, TimesAreReal, P!Unstarted

-----------------------------------------------------------------------------
(* The steps of the sockets *)

LEMMA SessionsKeep ==
    ASSUME SessionTypes, NEW c \in Sockets,
           \/ S!Connect(c) \/ S!EnterWorld(c) \/ S!PassGate(c) \/ S!Close(c)
           \/ \E p \in Players, m \in S!Maps : S!Login(c, p, m)
    PROVE  SessionTypes'
<1>1. CASE S!Connect(c)
  BY <1>1 DEF SessionTypes, S!Connect, S!Session
<1>2. CASE S!EnterWorld(c)
  BY <1>2 DEF SessionTypes, S!EnterWorld, S!Session
<1>3. CASE S!PassGate(c)
  BY <1>3 DEF SessionTypes, S!PassGate, S!Session, S!Maps
<1>4. CASE S!Close(c)
  BY <1>4 DEF SessionTypes, S!Close, S!Session, S!Closed, S!Maps
<1>5. ASSUME NEW p \in Players, NEW m \in S!Maps, S!Login(c, p, m) PROVE SessionTypes'
  <2>. DEFINE x == [session[c] EXCEPT !.map = m, !.player = IF S!Refused(c, p) THEN None ELSE p]
  <2>1. x \in S!Session
    BY DEF SessionTypes, S!Session
  <2>2. session' = [session EXCEPT ![c] = x]
    BY <1>5 DEF SessionTypes, S!Login
  <2>. HIDE DEF x
  <2>. QED
    BY <2>1, <2>2 DEF SessionTypes
<1>. QED
  BY <1>1, <1>2, <1>3, <1>4, <1>5

(* A socket has p at the place it is recorded at. *)
Backed(c, p) == p \in InWorldAs(c) /\ place[p] \in PlacesOn(session[c].map)

LEMMA UnbackedIs == Unbacked = {p \in Players : place[p] # Nowhere /\ \A c \in Sockets : ~Backed(c, p)}
BY DEF Unbacked, Backed

(* No new record without a socket: what a step that keeps stale has to show. *)
LEMMA NoNewGhost ==
    ASSUME RecordedAreThere, StaleStill,
           \A q \in Players : place'[q] # Nowhere =>
               \/ \E c \in Sockets : Backed(c, q)'
               \/ place[q] = place'[q] /\ \A c \in Sockets : Backed(c, q) => \E d \in Sockets : Backed(d, q)'
    PROVE  RecordedAreThere'
<1>1. \A q \in Players : q \in Unbacked' => q \in Unbacked
  BY DEF Unbacked, Backed
<1>2. Unbacked' \subseteq Players
  BY DEF Unbacked
<1>. QED
  BY <1>1, <1>2 DEF RecordedAreThere, StaleStill

LEMMA EnterWorldKeeps ==
    ASSUME AttendanceInvariant, NEW c \in Sockets, NEW x \in P!Places, EnterWorld(c, x)
    PROVE  RecordedAreThere' /\ PresenceOK'
<1>. DEFINE p == session[c].player
<1>1. p \in Players /\ session[c] \in S!Session
  BY DEF EnterWorld, S!EnterWorld, AttendanceInvariant, SessionTypes, S!Session
<1>2. PresenceOK'
  BY <1>1, EnteredKeeps DEF EnterWorld, AttendanceInvariant, PresenceOK
<1>3. /\ session'[c].player = p /\ session'[c].inWorld /\ session'[c].map = session[c].map
      /\ \A d \in Sockets \ {c} : session'[d] = session[d]
  BY DEF EnterWorld, S!EnterWorld, AttendanceInvariant, SessionTypes, S!Session
<1>4. place'[p] = x /\ x \in PlacesOn(session[c].map) /\ \A q \in Players \ {p} : place'[q] = place[q]
  BY <1>1 DEF EnterWorld, P!Entered, AttendanceInvariant, PresenceTypes
<1>5. ASSUME NEW q \in Players, q = p PROVE Backed(c, q)'
  BY <1>1, <1>3, <1>4, <1>5 DEF Backed, InWorldAs
<1>6. ASSUME NEW q \in Players \ {p}, NEW d \in Sockets, Backed(d, q) PROVE Backed(d, q)'
  BY <1>3, <1>4, <1>6 DEF Backed, InWorldAs
<1>. QED
  BY <1>2, <1>4, <1>5, <1>6, NoNewGhost DEF EnterWorld, AttendanceInvariant

LEMMA GoneElsewhere ==
    ASSUME AttendanceInvariant, NEW p \in Players, NEW x \in P!Places, P!Moved(p, x)
    PROVE  place'[p] = x /\ \A q \in Players \ {p} : place'[q] = place[q]
BY DEF P!Moved, P!At, P!pvars, AttendanceInvariant, PresenceTypes

LEMMA MoveKeeps ==
    ASSUME AttendanceInvariant, NEW c \in Sockets, NEW x \in P!Places, Move(c, x)
    PROVE  RecordedAreThere' /\ PresenceOK'
<1>. DEFINE p == session[c].player
<1>1. p \in Players /\ session[c].inWorld /\ session' = session /\ x \in PlacesOn(session[c].map)
  BY DEF Move, InWorldAs, svars, AttendanceInvariant, SessionTypes, S!Session
<1>2. place'[p] = x /\ \A q \in Players \ {p} : place'[q] = place[q]
  BY <1>1, GoneElsewhere DEF Move
<1>3. PresenceOK'
  BY <1>1, MovedKeeps DEF Move, AttendanceInvariant, PresenceOK
<1>4. ASSUME NEW q \in Players, q = p PROVE Backed(c, q)'
  BY <1>1, <1>2, <1>4 DEF Backed, InWorldAs
<1>5. ASSUME NEW q \in Players \ {p}, NEW d \in Sockets, Backed(d, q) PROVE Backed(d, q)'
  BY <1>1, <1>2, <1>5 DEF Backed, InWorldAs
<1>. QED
  BY <1>2, <1>3, <1>4, <1>5, NoNewGhost DEF Move, AttendanceInvariant

LEMMA PassGateKeeps ==
    ASSUME AttendanceInvariant, NEW c \in Sockets, PassGate(c)
    PROVE  RecordedAreThere' /\ PresenceOK'
<1>. DEFINE p == session[c].player
<1>1. p \in Players /\ session[c].inWorld /\ session[c] \in S!Session
  BY DEF PassGate, S!PassGate, AttendanceInvariant, SessionTypes, S!Session
<1>2. "azura" \in P!Places
  BY DEF P!Places
<1>3. place'[p] = "azura" /\ \A q \in Players \ {p} : place'[q] = place[q]
  BY <1>1, <1>2, GoneElsewhere DEF PassGate
<1>4. PresenceOK'
  BY <1>1, <1>2, MovedKeeps DEF PassGate, AttendanceInvariant, PresenceOK
<1>5. /\ session'[c].player = p /\ session'[c].inWorld /\ session'[c].map = "Azura"
      /\ \A d \in Sockets \ {c} : session'[d] = session[d]
  BY <1>1 DEF PassGate, S!PassGate, AttendanceInvariant, SessionTypes, S!Session
<1>6. ASSUME NEW q \in Players, q = p PROVE Backed(c, q)'
  BY <1>1, <1>3, <1>5, <1>6, PlacesFit DEF Backed, InWorldAs
<1>7. ASSUME NEW q \in Players \ {p}, NEW d \in Sockets, Backed(d, q) PROVE Backed(d, q)'
  BY <1>3, <1>5, <1>7 DEF Backed, InWorldAs
<1>. QED
  BY <1>3, <1>4, <1>6, <1>7, NoNewGhost DEF PassGate, AttendanceInvariant

LEMMA CloseKeeps ==
    ASSUME AttendanceInvariant, NEW c \in Sockets, Close(c)
    PROVE  RecordedAreThere' /\ PresenceOK'
<1>. DEFINE p == session[c].player
<1>1. \A d \in Sockets \ {c} : session'[d] = session[d]
  BY DEF Close, S!Close, AttendanceInvariant, SessionTypes
<1>2. CASE p = None
  <2>1. UNCHANGED pvars /\ \A q \in Players : ~Backed(c, q)
    BY <1>2 DEF Close, Backed, InWorldAs
  <2>2. PresenceOK'
    BY <2>1 DEF pvars, AttendanceInvariant, PresenceOK, PresenceTypes, TimesAreReal, P!Together, P!At
  <2>3. ASSUME NEW q \in Players, NEW d \in Sockets, Backed(d, q) PROVE Backed(d, q)'
    BY <1>1, <2>1, <2>3 DEF Backed, InWorldAs, pvars
  <2>. QED
    BY <2>1, <2>2, <2>3, NoNewGhost DEF Close, AttendanceInvariant, pvars
<1>3. CASE p # None
  <2>1. p \in Players /\ P!Disconnected(p)
    BY <1>3 DEF Close, AttendanceInvariant, SessionTypes, S!Session
  <2>2. place'[p] = Nowhere /\ \A q \in Players \ {p} : place'[q] = place[q]
    BY <2>1 DEF P!Disconnected, P!Gone, AttendanceInvariant, PresenceTypes
  <2>3. PresenceOK'
    BY <2>1, DisconnectedKeeps DEF AttendanceInvariant, PresenceOK
  <2>4. ASSUME NEW q \in Players \ {p}, NEW d \in Sockets, Backed(d, q) PROVE Backed(d, q)'
    BY <1>1, <2>2, <2>4 DEF Backed, InWorldAs
  <2>. QED
    BY <2>2, <2>3, <2>4, NoNewGhost DEF Close, AttendanceInvariant
<1>. QED
  BY <1>2, <1>3

LEMMA AttendanceInit == Init => AttendanceInvariant
<1>. SUFFICES ASSUME Init PROVE AttendanceInvariant
  OBVIOUS
<1>1. SessionTypes
  BY DEF Init, S!SessionsInit, SessionTypes, S!Session, S!Closed, S!Maps
<1>2. RecordedAreThere
  BY DEF Init, P!PresenceInit, RecordedAreThere, Unbacked
<1>. QED
  BY <1>1, <1>2, PresenceStart DEF Init, AttendanceInvariant, PresenceOK

LEMMA AttendanceNext == AttendanceInvariant /\ [Next]_vars => AttendanceInvariant'
<1>. SUFFICES ASSUME AttendanceInvariant, [Next]_vars PROVE AttendanceInvariant'
  OBVIOUS
<1>1. ASSUME NEW c \in Sockets, Connect(c) PROVE AttendanceInvariant'
  <2>1. SessionTypes' /\ UNCHANGED <<pvars, stale>>
    BY <1>1, SessionsKeep DEF Connect, AttendanceInvariant
  <2>2. /\ session'[c].inWorld = session[c].inWorld /\ session'[c].player = session[c].player
        /\ session'[c].map = session[c].map
        /\ \A d \in Sockets \ {c} : session'[d] = session[d]
    BY <1>1 DEF Connect, S!Connect, AttendanceInvariant, SessionTypes, S!Session
  <2>3. \A d \in Sockets, q \in Players : Backed(d, q)' <=> Backed(d, q)
    BY <2>1, <2>2 DEF Backed, InWorldAs, pvars
  <2>4. RecordedAreThere'
    BY <2>1, <2>3, UnbackedIs DEF AttendanceInvariant, RecordedAreThere, pvars, Unbacked, Backed
  <2>. QED
    BY <2>1, <2>4 DEF pvars, AttendanceInvariant, PresenceTypes, TimesAreReal, P!Together, P!At
<1>2. ASSUME NEW c \in Sockets, NEW p \in Players, NEW m \in S!Maps, Login(c, p, m)
      PROVE  AttendanceInvariant'
  <2>1. SessionTypes' /\ UNCHANGED pvars /\ RecordedAreThere'
    BY <1>2, SessionsKeep DEF Login, AttendanceInvariant, RecordedAreThere
  <2>. QED
    BY <2>1 DEF pvars, AttendanceInvariant, PresenceTypes, TimesAreReal, P!Together, P!At
<1>3. ASSUME NEW c \in Sockets, NEW x \in P!Places, EnterWorld(c, x) PROVE AttendanceInvariant'
  BY <1>3, EnterWorldKeeps, SessionsKeep DEF EnterWorld, AttendanceInvariant, PresenceOK
<1>4. ASSUME NEW c \in Sockets, NEW x \in P!Places, Move(c, x) PROVE AttendanceInvariant'
  <2>1. SessionTypes'
    BY <1>4 DEF Move, svars, AttendanceInvariant, SessionTypes
  <2>. QED
    BY <1>4, <2>1, MoveKeeps DEF AttendanceInvariant, PresenceOK
<1>5. ASSUME NEW c \in Sockets, PassGate(c) PROVE AttendanceInvariant'
  BY <1>5, PassGateKeeps, SessionsKeep DEF PassGate, AttendanceInvariant, PresenceOK
<1>6. ASSUME NEW c \in Sockets, Close(c) PROVE AttendanceInvariant'
  BY <1>6, CloseKeeps, SessionsKeep DEF Close, AttendanceInvariant, PresenceOK
<1>7. CASE Tick \/ Elapse
  <2>1. UNCHANGED <<svars, place, stale>>
    BY <1>7 DEF Tick, Elapse, P!PresenceTick, P!PresenceElapse
  <2>2. SessionTypes' /\ RecordedAreThere'
    BY <2>1 DEF svars, AttendanceInvariant, SessionTypes, RecordedAreThere, Unbacked, InWorldAs
  <2>3. PresenceOK'
    BY <1>7, TickKeeps, ElapseKeeps DEF Tick, Elapse, AttendanceInvariant, PresenceOK
  <2>. QED
    BY <2>2, <2>3 DEF AttendanceInvariant, PresenceOK
<1>8. CASE Restart
  <2>1. SessionTypes'
    BY <1>8 DEF Restart, S!SessionsRestart, SessionTypes, S!Session, S!Closed, S!Maps
  <2>2. PresenceOK'
    BY <1>8, ReplayKeeps DEF Restart, AttendanceInvariant, PresenceOK
  <2>. QED
    BY <1>8, <2>1, <2>2 DEF Restart, RecordedAreThere, AttendanceInvariant, PresenceOK
<1>9. CASE UNCHANGED vars
  <2>1. UNCHANGED <<svars, pvars, stale>>
    BY <1>9 DEF vars
  <2>2. SessionTypes' /\ RecordedAreThere'
    BY <2>1 DEF svars, pvars, AttendanceInvariant, SessionTypes, RecordedAreThere, Unbacked, InWorldAs
  <2>3. PresenceOK'
    BY <2>1 DEF pvars, AttendanceInvariant, PresenceOK, PresenceTypes, TimesAreReal, P!Together, P!At
  <2>. QED
    BY <2>2, <2>3 DEF AttendanceInvariant, PresenceOK
<1>. QED
  BY <1>1, <1>2, <1>3, <1>4, <1>5, <1>6, <1>7, <1>8, <1>9 DEF Next

LEMMA AttendanceInvariantHolds == Spec => []AttendanceInvariant
BY AttendanceInit, AttendanceNext, PTL DEF Spec

-----------------------------------------------------------------------------
(* A close, a gate or a second socket leaves no record behind. *)
THEOREM RecordsAreBacked == Spec => []RecordedAreThere
BY AttendanceInvariantHolds, PTL DEF AttendanceInvariant

(* What the tick takes for due was together for the threshold. *)
LEMMA DueIsEarned ==
    ASSUME AttendanceInvariant, Tick, NEW k \in observed' \ observed
    PROVE  met[k[1]] >= Observe \/ k[1] \cap restless # {}
<1>. DEFINE ps == UNION {InWorldAs(c) : c \in Sockets}
<1>1. k \in P!Keys /\ since[k] # P!Unstarted /\ since[k] >= Observe
  BY DEF Tick, P!PresenceTick, P!Checked, P!Due
<1>2. k[1] \cap restless = {} => since[k] <= met[k[1]]
  BY <1>1 DEF AttendanceInvariant, TimesAreReal
<1>. QED
  BY <1>1, <1>2, KeysFit DEF AttendanceInvariant, PresenceTypes, P!Unstarted

(* Nobody is observed before the threshold, unless one of the two entered    *)
(* while still recorded.                                                     *)
THEOREM ObservationsTakeTime == Spec => ObservedLongEnough
<1>1. AttendanceInvariant /\ [Next]_vars =>
        [Tick => \A k \in observed' \ observed : met[k[1]] >= Observe \/ k[1] \cap restless # {}]_vars
  BY DueIsEarned
<1>. QED
  BY <1>1, AttendanceInvariantHolds, PTL DEF Spec, ObservedLongEnough
=============================================================================
