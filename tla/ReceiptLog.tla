------------------------------ MODULE ReceiptLog ------------------------------
(***************************************************************************)
(* receipts.jsonl, the logger that appends to it, the projections and the  *)
(* SQLite tables behind it, and the boot that rebuilds both.               *)
(*                                                                         *)
(* One write is a stack frame that moves through appendReceiptSync: append *)
(* the line, fsync, remember hash and sequence, apply the reducers,        *)
(* materialize in one transaction, and, for a player's first worthy act,   *)
(* write the origin_act_sealed receipt from inside the callback.  Between  *)
(* any two of these the process may die or the machine lose power; append, *)
(* fsync and the transaction may also throw, which a caller may survive    *)
(* (emitHeartbeat and the HTTP routes catch, the tick does not).           *)
(*                                                                         *)
(* A receipt is its id; the signature and the hashes of inputs are left    *)
(* out, prev is the id it names.  Every act is one player's, and worthy of *)
(* an origin.  Replay is the strict one.  A refused boot waits for an      *)
(* operator and is final here.                                             *)
(***************************************************************************)
EXTENDS Integers, SequencesExt

CONSTANTS
    MaxIds,     \* bound on receipts ever written
    MaxFaults   \* bound on crashes, power losses and errors

ASSUME LogAssumption == MaxIds \in Nat /\ MaxFaults \in Nat

Genesis == 0                \* GENESIS_MARKER, the prev_hash of the first receipt

VARIABLES
    file,       \* the file as the kernel has it: receipts, one a line
    synced,     \* how many of them the disk has for certain
    last,       \* lastHash and lastSequence of the logger
    frames,     \* the running appendReceiptSync calls, innermost first
    projected,  \* ids the in-memory projections have applied, in order
    tables,     \* ids materialized, in order: the committed transactions
    marker,     \* the replay marker: lines behind it and the hash it names
    phase,      \* "up", "down" or "refused"
    acked,      \* auxiliary: ids whose write went past fsync
    survived,   \* auxiliary: stages at which a write failed under a caller that caught
    ghost,      \* auxiliary: a boot has read lines the disk did not have for certain
    ids,        \* auxiliary: ids handed out
    faults      \* auxiliary: crashes, power losses and errors so far

vars == <<file, synced, last, frames, projected, tables, marker, phase,
          acked, survived, ghost, ids, faults>>

disk == <<file, synced, tables, marker>>

history == <<acked, survived, ghost, ids>>

Cuts == {"none", "newline", "body"}    \* what of its end a line has lost

Stages == {"written", "synced", "projected", "materialized"}

Fresh == [id |-> Genesis, seq |-> 0]

NoMarker == [lines |-> 0, hash |-> Genesis]

IdsOf(f) == [i \in DOMAIN f |-> f[i].id]

(* _meta.last_materialized_hash *)
MetaHash(t) == IF t = <<>> THEN Genesis ELSE Last(t)

TypeOK ==
    LET Ids == 1..MaxIds
        Frame == [id : Ids, seq : Ids, kind : {"act", "seal"}, stage : Stages]
        Line == [id : Ids, seq : Ids, prev : 0..MaxIds, kind : {"act", "seal"}, cut : Cuts]
    IN  /\ ToSet(file) \subseteq Line /\ synced \in 0..Len(file)
        /\ last \in [id : 0..MaxIds, seq : 0..MaxIds]
        /\ ToSet(frames) \subseteq Frame /\ Len(frames) <= 2
        /\ ToSet(projected) \cup ToSet(tables) \cup acked \subseteq Ids
        /\ marker \in [lines : 0..MaxIds, hash : 0..MaxIds]
        /\ phase \in {"up", "down", "refused"} /\ (frames # <<>> => phase = "up")
        /\ survived \subseteq Stages /\ ghost \in BOOLEAN

Init ==
    /\ file = <<>> /\ synced = 0 /\ tables = <<>> /\ marker = NoMarker
    /\ last = Fresh /\ frames = <<>> /\ projected = <<>> /\ phase = "up"
    /\ acked = {} /\ survived = {} /\ ghost = FALSE /\ ids = 0 /\ faults = 0

-----------------------------------------------------------------------------
(* appendReceiptSync *)

At(stage) == frames # <<>> /\ Head(frames).stage = stage

Advance(stage) == frames' = <<[Head(frames) EXCEPT !.stage = stage]>> \o Tail(frames)

Fault == faults < MaxFaults /\ faults' = faults + 1

(* The append, called by a handler or from inside the callback: the frame is *)
(* pushed with the line in the file.  writeSync may take fewer bytes than    *)
(* the line has and say so; nobody looks.                                    *)
Push(kind, cut) ==
    /\ ids < MaxIds
    /\ ids' = ids + 1
    /\ LET line == [id |-> ids + 1, seq |-> last.seq + 1, kind |-> kind,
                    prev |-> last.id, cut |-> cut]
       IN  /\ file' = Append(file, line)
           /\ frames' = <<[id |-> line.id, seq |-> line.seq, kind |-> kind,
                           stage |-> "written"]>> \o frames
    /\ UNCHANGED <<synced, last, projected, tables, marker, phase, acked, survived, ghost>>

WriteAct ==
    /\ phase = "up" /\ frames = <<>>
    /\ Push("act", "none")
    /\ UNCHANGED faults

ShortWrite ==
    /\ phase = "up" /\ frames = <<>>
    /\ Fault
    /\ \E cut \in Cuts \ {"none"} : Push("act", cut)

Synced_Skipped == synced

Synced == Len(file)

(* What the next receipt will link to and count from. *)
Remembered_Unchanged(f) == last

Remembered_CountsTwice(f) == [id |-> f.id, seq |-> f.seq + 1]

Remembered(f) == [id |-> f.id, seq |-> f.seq]

Fsync ==
    /\ At("written")
    /\ synced' = Synced
    /\ last' = Remembered(Head(frames))
    /\ acked' = acked \cup {Head(frames).id}
    /\ Advance("synced")
    /\ UNCHANGED <<file, projected, tables, marker, phase, survived, ghost, ids, faults>>

ApplyReducers ==
    /\ At("synced")
    /\ projected' = Append(projected, Head(frames).id)
    /\ Advance("projected")
    /\ UNCHANGED <<disk, last, phase, history, faults>>

CallbackDue_BeforeFsync == At("written") \/ At("projected")

CallbackDue == At("projected")

Materialize ==
    /\ CallbackDue
    /\ tables' = Append(tables, Head(frames).id)
    /\ Advance("materialized")
    /\ UNCHANGED <<file, synced, last, projected, marker, phase, history, faults>>

(* hasOriginActSealed reads the tables, which the trigger's own transaction *)
(* has reached by now.                                                       *)
SealMissing_NeverLooks == TRUE

SealMissing ==
    \A i \in DOMAIN file : file[i].kind = "seal" => file[i].id \notin ToSet(tables)

SealsOrigin == Head(frames).kind = "act" /\ SealMissing

Seal ==
    /\ At("materialized")
    /\ SealsOrigin
    /\ Push("seal", "none")
    /\ UNCHANGED faults

(* A nested write returns into a callback that has nothing left to do. *)
Return ==
    /\ At("materialized")
    /\ Len(frames) = 2 \/ ~SealsOrigin
    /\ frames' = <<>>
    /\ UNCHANGED <<disk, last, projected, phase, history, faults>>

LoseMemory ==
    /\ phase' = "down" /\ frames' = <<>> /\ projected' = <<>> /\ last' = Fresh

(* fsync, the transaction or the append of the seal throws.  The error unwinds *)
(* every frame, up to a caller that catches it or to none.                     *)
Throw ==
    /\ At("written") \/ At("projected") \/ At("materialized")
    /\ Fault
    /\ \/ /\ frames' = <<>> /\ survived' = survived \cup {Head(frames).stage}
          /\ UNCHANGED <<last, projected, phase>>
       \/ LoseMemory /\ UNCHANGED survived
    /\ UNCHANGED <<disk, acked, ghost, ids>>

-----------------------------------------------------------------------------
(* Failure and boot *)

(* The process dies; the kernel keeps what was written. *)
ProcessCrash ==
    /\ phase = "up" /\ Fault
    /\ LoseMemory
    /\ UNCHANGED <<disk, history>>

(* The machine dies.  What was not synced may be gone, from some byte on; the *)
(* tables (WAL, synchronous = NORMAL) may have lost their newest transactions *)
(* and the marker, which is never synced, its content.                        *)
PowerLoss ==
    /\ phase \in {"up", "down"} /\ Fault
    /\ LoseMemory
    /\ \E n \in synced..Len(file) :
         /\ synced' = n
         /\ \/ file' = SubSeq(file, 1, n)
            \/ \E cut \in Cuts \ {"none"} :
                 n > synced /\ file' = [SubSeq(file, 1, n) EXCEPT ![n].cut = cut]
    /\ \E n \in 0..Len(tables) : tables' = SubSeq(tables, 1, n)
    /\ marker' \in {marker, NoMarker}
    /\ UNCHANGED history

(* The lines that end in a newline before the first that does not: what the *)
(* replay can read.                                                          *)
Readable == SelectInSeq(Append(file, [cut |-> "body"]), LAMBDA r : r.cut # "none") - 1

(* A cut line runs into the next one and spoils both.  As the last line of    *)
(* the file the replay never sees it, but the logger's constructor parses it, *)
(* which only a line that is missing its newline alone survives.              *)
Unreadable ==
    \/ Readable < Len(file) - 1
    \/ Readable = Len(file) - 1 /\ Last(file).cut = "body"

(* The file is behind its marker, or empty where there was history. *)
HistoryLost ==
    \/ marker.lines > Readable /\ Readable >= Len(file) - 1
    \/ file = <<>> /\ (tables # <<>> \/ marker # NoMarker)

(* Where materialization starts: behind a marker that names the newest row. *)
StartLine_MarkerOnly == marker.lines

StartLine ==
    IF marker # NoMarker /\ marker.hash = MetaHash(tables) THEN marker.lines ELSE 0

(* replayReceipts as far as it gets; the marker moves when it reaches the end *)
(* and has materialized something.                                            *)
Replay ==
    /\ tables' = tables \o IdsOf(SubSeq(file, StartLine + 1, Readable))
    /\ marker' = IF StartLine >= Readable \/ Readable < Len(file) - 1 THEN marker
                 ELSE [lines |-> Readable, hash |-> file[Readable].id]

Boot ==
    /\ phase = "down"
    /\ ~HistoryLost /\ ~Unreadable
    /\ Replay
    /\ phase' = "up"
    /\ projected' = IdsOf(SubSeq(file, 1, Readable))
    /\ last' = IF file = <<>> THEN Fresh ELSE [id |-> Last(file).id, seq |-> Last(file).seq]
    /\ ghost' = (ghost \/ synced < Len(file))
    /\ UNCHANGED <<file, synced, frames, acked, survived, ids, faults>>

BootRefuses ==
    /\ phase = "down"
    /\ \/ HistoryLost /\ UNCHANGED <<tables, marker>>
       \/ ~HistoryLost /\ Unreadable /\ Replay
    /\ phase' = "refused"
    /\ UNCHANGED <<file, synced, last, frames, projected, history, faults>>

Next ==
    \/ WriteAct \/ ShortWrite \/ Fsync \/ ApplyReducers \/ Materialize \/ Seal \/ Return
    \/ Throw \/ ProcessCrash \/ PowerLoss \/ BootRefuses \/ Boot

Spec == Init /\ [][Next]_vars

-----------------------------------------------------------------------------
(* What must hold *)

ChainLinked ==
    /\ file # <<>> => file[1].prev = Genesis /\ file[1].seq = 1
    /\ \A i \in 1..Len(file) - 1 :
         file[i + 1].prev = file[i].id /\ file[i + 1].seq = file[i].seq + 1

(* Every receipt names its predecessor in the file, through nested writes,   *)
(* crashes, lost tails and reboots, as long as no caller carried on after a  *)
(* write of its own had failed between append and fsync.                     *)
ChainUnbroken == "written" \notin survived => ChainLinked

(* The claim without the exception.  The code does not keep it: emitHeartbeat *)
(* catches a failed fsync, and the next receipt reuses sequence and prev.     *)
ChainAlwaysUnbroken == ChainLinked

(* What the world was told stays: every receipt that got past its fsync is   *)
(* in the projections of every later life, or there is no later life because *)
(* the boot refuses the file; except one whose newline alone was not taken,  *)
(* which the replay skips and the next receipt spoils.                       *)
NoSilentLoss ==
    LET clipped == {file[i].id : i \in {j \in DOMAIN file : file[j].cut = "newline"}}
    IN  phase = "up" /\ frames = <<>> => acked \ clipped \subseteq ToSet(projected)

(* Receipts are durable before they are materialized: whatever the disk      *)
(* keeps of the tables, it keeps the receipts they were made from, unless a  *)
(* boot has read lines that an earlier failure had left unsynced.            *)
TablesBehindLog == ~ghost => ToSet(tables) \subseteq ToSet(IdsOf(file))

(* A boot that comes up has every receipt it could read in the tables,       *)
(* whatever transactions a power loss has cost them, unless a caller survived *)
(* a failed write: such a receipt is missing from the middle of the tables,   *)
(* and a marker from before the power loss can then match what is left.       *)
BootRebuildsTables ==
    [][Boot /\ survived = {} => ToSet(projected') \subseteq ToSet(tables')]_vars

(* The player's origin is sealed once, although the check looks at tables    *)
(* that lag behind the log: a seal that is in the file is materialized       *)
(* before another act can look, unless a caller survived a failed write or   *)
(* the seal is a last line without its newline.                              *)
SealedOnce ==
    LET Seals == {i \in DOMAIN file : file[i].kind = "seal" /\ file[i].cut # "newline"}
    IN  survived = {} => \A i, j \in Seals : i = j
===============================================================================
