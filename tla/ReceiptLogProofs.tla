-------------------------- MODULE ReceiptLogProofs --------------------------
(***************************************************************************)
(* Theorems about ReceiptLog, for any number of receipts and failures.     *)
(*                                                                         *)
(* The checked invariants hold because of what the logger and the disk     *)
(* agree on in between: the line of a write that is not synced yet is the  *)
(* last of the file, everything acknowledged is in the synced part, and    *)
(* hash and sequence in memory are those of the last line (LogInvariant).  *)
(* What the tables hold of the log, which the seal's check and the marker  *)
(* rely on, is a second invariant on top of it (TablesInvariant).          *)
(***************************************************************************)
EXTENDS ReceiptLog, FoldLemmas

Kinds == {"act", "seal"}

(* Lines and frames when n ids have been handed out. *)
Lines(n) == [id : 1..n, seq : 1..n, prev : 0..n, kind : Kinds, cut : Cuts]
Frames(n) == [id : 1..n, seq : 1..n, kind : Kinds, stage : Stages]

FileTypes ==
    /\ ids \in 0..MaxIds
    /\ file \in Seq(Lines(ids)) /\ Len(file) <= ids
    /\ synced \in 0..Len(file)
    /\ tables \in Seq(1..ids)
    /\ marker \in [lines : 0..ids, hash : 0..ids]
    /\ acked \subseteq 1..ids

(* A second frame is the seal's, written from inside the callback. *)
MemoryTypes ==
    /\ last \in [id : 0..ids, seq : 0..ids]
    /\ frames \in Seq(Frames(ids)) /\ Len(frames) <= 2
    /\ Len(frames) = 2 => Head(frames).kind = "seal"
    /\ projected \in Seq(1..ids)
    /\ phase \in {"up", "down", "refused"}
    /\ frames # <<>> => phase = "up"
    /\ survived \subseteq Stages /\ ghost \in BOOLEAN

(* The ids of the first n lines of a file. *)
Upto(f, n) == {f[i].id : i \in 1..n}

Clipped == {file[i].id : i \in {j \in DOMAIN file : file[j].cut = "newline"}}

(* The line of a write that is not synced is the last, and any later frame  *)
(* is acknowledged.                                                         *)
FramesInFile ==
    /\ At("written") => /\ file # <<>>
                        /\ Last(file).id = Head(frames).id
                        /\ Last(file).seq = Head(frames).seq
    /\ frames # <<>> /\ ~At("written") => Head(frames).id \in acked

(* Hash and sequence are those of the last line. *)
Ends(f, l) ==
    IF f = <<>> THEN l = Fresh ELSE l.id = Last(f).id /\ l.seq = Last(f).seq

MemoryAtEnd == phase = "up" /\ "written" \notin survived /\ ~At("written") => Ends(file, last)

AckedSynced == acked \subseteq Upto(file, synced)

AckedKnown ==
    phase = "up" => \A r \in acked \ Clipped :
        r \in ToSet(projected) \/ (At("synced") /\ r = Head(frames).id)

TablesSynced ==
    /\ ~ghost /\ phase # "refused" => ToSet(tables) \subseteq Upto(file, synced)
    /\ ~ghost => ToSet(tables) \subseteq Upto(file, Len(file))

LogInvariant ==
    /\ FileTypes /\ MemoryTypes
    /\ FramesInFile /\ MemoryAtEnd /\ ChainUnbroken
    /\ AckedSynced /\ AckedKnown /\ TablesSynced

USE LogAssumption

-----------------------------------------------------------------------------
(* Sequences *)

(* The replay reads up to the first line that has lost its end. *)
LEMMA ReadableLines ==
    ASSUME NEW S, file \in Seq(S)
    PROVE  /\ Readable \in 0..Len(file)
           /\ \A i \in 1..Readable : file[i].cut = "none"
           /\ Readable < Len(file) => file[Readable + 1].cut # "none"
<1>. DEFINE ended == Append(file, [cut |-> "body"])
            I == {i \in 1..Len(ended) : ended[i].cut # "none"}
<1>1. /\ Len(ended) = Len(file) + 1 /\ Len(file) \in Nat
      /\ \A i \in 1..Len(file) : ended[i] = file[i]
      /\ ended[Len(file) + 1] = [cut |-> "body"]
  <2>1. file \in Seq(S \cup {[cut |-> "body"]})
    BY SeqMonotonic
  <2>. QED
    BY <2>1, AppendProperties, LenProperties
<1>2. I \in SUBSET Nat /\ Len(file) + 1 \in I
  BY <1>1
<1>3. Readable = Min(I) - 1
  BY <1>2 DEF Readable, SelectInSeq
<1>4. Min(I) \in I /\ \A i \in I : Min(I) <= i
  BY <1>2, LeastElement
<1>5. PICK m \in Nat : m = Min(I)
  BY <1>2, <1>4
<1>6. Readable = m - 1 /\ m \in I /\ \A i \in I : m <= i
  BY <1>3, <1>4, <1>5
<1>7. m \in 1..Len(file) + 1 /\ ended[m].cut # "none"
  BY <1>1, <1>6
<1>8. \A i \in 1..m - 1 : ended[i].cut = "none"
  BY <1>1, <1>6, <1>7
<1>. HIDE DEF ended
<1>. QED
  BY <1>1, <1>6, <1>7, <1>8

(* A write adds a line and a frame; the bounds on both grow with the ids. *)
LEMMA RoomGrows ==
    ASSUME NEW n \in Nat
    PROVE  Lines(n) \subseteq Lines(n + 1) /\ Frames(n) \subseteq Frames(n + 1)
BY DEF Lines, Frames

(* An element put in front of a sequence, or in the place of its head. *)
LEMMA InFront ==
    ASSUME NEW S, NEW s \in Seq(S), NEW e \in S
    PROVE  /\ <<e>> \o s \in Seq(S) /\ Len(<<e>> \o s) = Len(s) + 1
           /\ <<e>> \o s # <<>> /\ Head(<<e>> \o s) = e
<1>1. <<e>> \in Seq(S) /\ Len(<<e>>) = 1 /\ <<e>>[1] = e
  OBVIOUS
<1>2. <<e>> \o s \in Seq(S) /\ Len(<<e>> \o s) = Len(s) + 1 /\ (<<e>> \o s)[1] = e
  BY <1>1, ConcatProperties
<1>. QED
  BY <1>2, EmptySeq, HeadTailProperties, LenProperties

LEMMA HeadReplaced ==
    ASSUME NEW S, NEW s \in Seq(S), s # <<>>, NEW e \in S
    PROVE  /\ <<e>> \o Tail(s) \in Seq(S) /\ Len(<<e>> \o Tail(s)) = Len(s)
           /\ <<e>> \o Tail(s) # <<>> /\ Head(<<e>> \o Tail(s)) = e
<1>1. Tail(s) \in Seq(S) /\ Len(Tail(s)) = Len(s) - 1
  BY HeadTailProperties
<1>. QED
  BY <1>1, InFront, LenProperties

(* The elements of an appended and of a concatenated sequence. *)
LEMMA AppendedElements ==
    ASSUME NEW S, NEW s \in Seq(S), NEW e \in S
    PROVE  Append(s, e) \in Seq(S) /\ ToSet(Append(s, e)) = ToSet(s) \cup {e}
BY AppendProperties, LenProperties DEF ToSet

LEMMA JoinedElements ==
    ASSUME NEW S, NEW s \in Seq(S), NEW t \in Seq(S)
    PROVE  s \o t \in Seq(S) /\ ToSet(s \o t) = ToSet(s) \cup ToSet(t)
<1>1. /\ s \o t \in Seq(S)
      /\ Len(s) \in Nat /\ Len(t) \in Nat /\ DOMAIN s = 1..Len(s) /\ DOMAIN t = 1..Len(t)
      /\ DOMAIN (s \o t) = 1..Len(s) + Len(t)
      /\ \A i \in 1..Len(s) + Len(t) :
            (s \o t)[i] = IF i <= Len(s) THEN s[i] ELSE t[i - Len(s)]
  BY ConcatProperties, LenProperties
<1>2. \A i \in 1..Len(t) : (s \o t)[i + Len(s)] = t[i] /\ i + Len(s) \in DOMAIN (s \o t)
  BY <1>1
<1>3. \A i \in 1..Len(s) : (s \o t)[i] = s[i] /\ i \in DOMAIN (s \o t)
  BY <1>1
<1>4. ToSet(s) \subseteq ToSet(s \o t)
  BY <1>1, <1>3, Zenon DEF ToSet
<1>5. ToSet(t) \subseteq ToSet(s \o t)
  BY <1>1, <1>2, Zenon DEF ToSet
<1>6. \A i \in DOMAIN (s \o t) : (s \o t)[i] \in ToSet(s) \cup ToSet(t)
  BY <1>1 DEF ToSet
<1>7. ToSet(s \o t) \subseteq ToSet(s) \cup ToSet(t)
  BY <1>6, Zenon DEF ToSet
<1>. QED
  BY <1>1, <1>4, <1>5, <1>7

LEMMA FirstElements ==
    ASSUME NEW S, NEW s \in Seq(S), NEW k \in 0..Len(s)
    PROVE  /\ SubSeq(s, 1, k) \in Seq(S) /\ Len(SubSeq(s, 1, k)) = k
           /\ DOMAIN SubSeq(s, 1, k) = 1..k
           /\ \A i \in 1..k : SubSeq(s, 1, k)[i] = s[i] /\ i \in DOMAIN s
<1>1. Len(s) \in Nat /\ DOMAIN s = 1..Len(s) /\ \A i \in 1..Len(s) : s[i] \in S
  BY ElementOfSeq, LenProperties
<1>2. k \in Nat /\ \A i \in 1..k : i \in 1..Len(s) /\ s[i] \in S
  BY <1>1
<1>3. /\ SubSeq(s, 1, k) \in Seq(S) /\ Len(SubSeq(s, 1, k)) = k
      /\ \A i \in 1..k : SubSeq(s, 1, k)[i] = s[i]
  BY <1>2, SubSeqProperties
<1>. QED
  BY <1>1, <1>2, <1>3, LenProperties

(* The replay takes the ids of a range of lines. *)
RowsOf(f, a, b) == IdsOf(SubSeq(f, a + 1, b))
IdsBetween(f, a, b) == {f[i].id : i \in a + 1..b}

LEMMA IdsOfRange ==
    ASSUME NEW n \in Nat, NEW f \in Seq(Lines(n)),
           NEW a \in Nat, NEW b \in 0..Len(f)
    PROVE  RowsOf(f, a, b) \in Seq(1..n) /\ ToSet(RowsOf(f, a, b)) = IdsBetween(f, a, b)
<1>. DEFINE g == SubSeq(f, a + 1, b)
<1>1. /\ Len(f) \in Nat /\ DOMAIN f = 1..Len(f)
      /\ \A i \in 1..Len(f) : f[i] \in Lines(n)
  BY ElementOfSeq, LenProperties
<1>2. /\ DOMAIN g = 1..Len(g)
      /\ Len(g) = IF a + 1 <= b THEN b - a ELSE 0
      /\ \A i \in 1..Len(g) : g[i] = f[a + i]
  BY <1>1, SubSeqProperties
<1>. HIDE DEF g
<1>3. ASSUME NEW i \in 1..Len(g)
      PROVE  a + i \in a + 1..b /\ g[i].id = f[a + i].id /\ g[i].id \in 1..n
  <2>1. a + i \in a + 1..b /\ a + i \in 1..Len(f) /\ g[i] = f[a + i]
    BY <1>1, <1>2
  <2>. QED
    BY <1>1, <2>1 DEF Lines
<1>4. \A i \in a + 1..b : i - a \in 1..Len(g) /\ g[i - a].id = f[i].id
  BY <1>2
<1>5. IdsOf(g) = [i \in 1..Len(g) |-> g[i].id]
  BY <1>2 DEF IdsOf
<1>6. Len(g) \in Nat
  BY <1>1, <1>2
<1>7. IdsOf(g) \in Seq(1..n)
  BY <1>3, <1>5, <1>6, IsASeq
<1>8. ToSet(IdsOf(g)) = {g[i].id : i \in 1..Len(g)}
  BY <1>5 DEF ToSet
<1>9. {g[i].id : i \in 1..Len(g)} = {f[i].id : i \in a + 1..b}
  <2>1. {g[i].id : i \in 1..Len(g)} \subseteq {f[i].id : i \in a + 1..b}
    BY <1>3, Zenon
  <2>2. {f[i].id : i \in a + 1..b} \subseteq {g[i].id : i \in 1..Len(g)}
    BY <1>4, Zenon
  <2>. QED
    BY <2>1, <2>2
<1>. QED
  BY <1>7, <1>8, <1>9 DEF g, RowsOf, IdsBetween

-----------------------------------------------------------------------------
(* The invariant *)

(* What the invariant says of the file and of the innermost frame. *)
LEMMA FileAndFrame ==
    ASSUME LogInvariant
    PROVE  /\ ids \in Nat /\ Len(file) \in Nat /\ DOMAIN file = 1..Len(file)
           /\ \A i \in 1..Len(file) : file[i] \in Lines(ids)
           /\ file = <<>> <=> Len(file) = 0
           /\ frames # <<>> => Head(frames) \in Frames(ids)
<1>1. ids \in Nat /\ file \in Seq(Lines(ids)) /\ frames \in Seq(Frames(ids))
  BY DEF LogInvariant, FileTypes, MemoryTypes
<1>2. file = <<>> <=> Len(file) = 0
  BY <1>1, EmptySeq
<1>3. frames # <<>> => Head(frames) \in Frames(ids)
  BY <1>1, HeadTailProperties
<1>. QED
  BY <1>1, <1>2, <1>3, ElementOfSeq, LenProperties

LEMMA InitInvariant == Init => LogInvariant
<1>. SUFFICES ASSUME Init PROVE LogInvariant
  OBVIOUS
<1>1. file = <<>> /\ tables = <<>> /\ frames = <<>> /\ projected = <<>> /\ Len(<<>>) = 0
  BY DEF Init
<1>2. FileTypes
  BY <1>1 DEF Init, FileTypes, NoMarker, Genesis
<1>3. MemoryTypes
  <2>1. ids = 0 /\ last = [id |-> 0, seq |-> 0]
    BY DEF Init, Fresh, Genesis
  <2>2. <<>> \in Seq(Frames(ids)) /\ <<>> \in Seq(1..ids)
    OBVIOUS
  <2>3. last \in [id : 0..ids, seq : 0..ids]
    BY <2>1
  <2>4. ghost \in BOOLEAN /\ survived \subseteq Stages /\ phase = "up"
    BY DEF Init
  <2>. QED
    BY <1>1, <2>2, <2>3, <2>4 DEF MemoryTypes
<1>4. FramesInFile /\ MemoryAtEnd /\ AckedSynced /\ AckedKnown
  BY <1>1 DEF Init, FramesInFile, MemoryAtEnd, AckedSynced, AckedKnown, At, Ends
<1>5. ChainUnbroken
  BY <1>1 DEF ChainUnbroken, ChainLinked
<1>6. ToSet(<<>>) = {}
  BY DEF ToSet
<1>7. TablesSynced
  BY <1>1, <1>6 DEF TablesSynced
<1>. QED
  BY <1>2, <1>3, <1>4, <1>5, <1>7 DEF LogInvariant

(* A line is appended behind the last one, which hash and sequence name. *)
LEMMA PushKeeps ==
    ASSUME LogInvariant, phase = "up", ~At("written"), ~At("synced"),
           NEW kind \in Kinds, NEW cut \in Cuts, Push(kind, cut),
           frames = <<>> \/ (Len(frames) = 1 /\ kind = "seal")
    PROVE  LogInvariant'
<1>. DEFINE line == [id |-> ids + 1, seq |-> last.seq + 1, kind |-> kind,
                     prev |-> last.id, cut |-> cut]
            frame == [id |-> line.id, seq |-> line.seq, kind |-> kind, stage |-> "written"]
<1>1. /\ ids < MaxIds /\ ids' = ids + 1
      /\ file' = Append(file, line) /\ frames' = <<frame>> \o frames
      /\ UNCHANGED <<synced, last, projected, tables, marker, phase, acked, survived, ghost>>
  BY DEF Push
<1>2. /\ ids \in Nat /\ Len(file) \in Nat /\ DOMAIN file = 1..Len(file)
      /\ \A i \in 1..Len(file) : file[i] \in Lines(ids)
      /\ file = <<>> <=> Len(file) = 0
  BY FileAndFrame
<1>3. FileTypes /\ MemoryTypes
  BY DEF LogInvariant
<1>4. line \in Lines(ids + 1) /\ frame \in Frames(ids + 1)
  BY <1>2, <1>3 DEF MemoryTypes, Lines, Frames, Stages
<1>5. file \in Seq(Lines(ids + 1)) /\ frames \in Seq(Frames(ids + 1))
  BY <1>2, <1>3, RoomGrows, SeqMonotonic DEF FileTypes, MemoryTypes
<1>6. /\ file' \in Seq(Lines(ids + 1)) /\ Len(file') = Len(file) + 1 /\ file' # <<>>
      /\ \A i \in 1..Len(file) : file'[i] = file[i]
      /\ file'[Len(file) + 1] = line /\ Last(file') = line
      /\ DOMAIN file' = 1..Len(file) + 1
  <2>. HIDE DEF line
  <2>. QED BY <1>1, <1>2, <1>4, <1>5, AppendProperties, EmptySeq, LenProperties DEF Last
<1>7. /\ frames' \in Seq(Frames(ids + 1)) /\ Len(frames') = Len(frames) + 1
      /\ frames' # <<>> /\ Head(frames') = frame
  <2>. HIDE DEF frame
  <2>. QED BY <1>1, <1>4, <1>5, InFront
<1>8. \A n \in 0..Len(file) : Upto(file', n) = Upto(file, n)
  <2>. HIDE DEF line
  <2>. QED BY <1>2, <1>6 DEF Upto
<1>9. FileTypes'
  <2>. HIDE DEF line
  <2>1. tables \in Seq(1..ids + 1)
    BY <1>2, <1>3, SeqMonotonic, 1..ids \subseteq 1..ids + 1 DEF FileTypes
  <2>. QED
    BY <1>1, <1>2, <1>3, <1>6, <2>1 DEF FileTypes
<1>10. MemoryTypes'
  <2>1. projected \in Seq(1..ids + 1)
    BY <1>2, <1>3, SeqMonotonic, 1..ids \subseteq 1..ids + 1 DEF MemoryTypes
  <2>2. last \in [id : 0..ids + 1, seq : 0..ids + 1]
    BY <1>2, <1>3 DEF MemoryTypes
  <2>3. Len(frames') <= 2 /\ (Len(frames') = 2 => Head(frames').kind = "seal")
    <3>1. frame.kind = kind
      OBVIOUS
    <3>2. Len(frames) = 0 \/ (Len(frames) = 1 /\ kind = "seal")
      BY EmptySeq
    <3>3. Head(frames').kind = kind
      BY <1>7, <3>1, Zenon
    <3>4. PICK n \in Nat, m \in Nat : n = Len(frames) /\ m = Len(frames') /\ m = n + 1
      <4>1. Len(frames) \in Nat
        BY <1>5, LenProperties, Zenon
      <4>2. Len(frames') = Len(frames) + 1
        BY <1>7, Zenon
      <4>. HIDE DEF line, frame
      <4>. QED
        BY <4>1, <4>2
    <3>5. n = 0 \/ (n = 1 /\ kind = "seal")
      BY <3>2, <3>4, Zenon
    <3>6. m = 1 \/ (m = 2 /\ kind = "seal")
      BY <3>4, <3>5
    <3>7. m <= 2 /\ (m = 2 => kind = "seal")
      BY <3>6
    <3>. QED
      BY <3>3, <3>4, <3>7, Zenon
  <2>. HIDE DEF line, frame
  <2>. QED
    BY <1>1, <1>3, <1>7, <2>1, <2>2, <2>3 DEF MemoryTypes
<1>11. FramesInFile' /\ MemoryAtEnd'
  BY <1>6, <1>7 DEF FramesInFile, MemoryAtEnd, At
<1>12. ChainUnbroken'
  <2>1. SUFFICES ASSUME "written" \notin survived PROVE ChainLinked'
    BY <1>1 DEF ChainUnbroken
  <2>2. ChainLinked /\ Ends(file, last)
    BY <2>1 DEF LogInvariant, ChainUnbroken, MemoryAtEnd
  <2>3. file = <<>> => line.prev = Genesis /\ line.seq = 1
    BY <2>2 DEF Ends, Fresh, Genesis
  <2>4. file # <<>> => /\ line.prev = file[Len(file)].id
                       /\ line.seq = file[Len(file)].seq + 1
    BY <2>2 DEF Ends, Last
  <2>. HIDE DEF line
  <2>5. file'[1].prev = Genesis /\ file'[1].seq = 1
    BY <1>2, <1>6, <2>2, <2>3 DEF ChainLinked
  <2>6. ASSUME NEW i \in 1..Len(file)
        PROVE  file'[i + 1].prev = file'[i].id /\ file'[i + 1].seq = file'[i].seq + 1
    <3>1. CASE i = Len(file)
      BY <1>2, <1>6, <2>4, <3>1
    <3>2. CASE i < Len(file)
      <4>1. i \in 1..Len(file) - 1 /\ i + 1 \in 1..Len(file)
        BY <1>2, <3>2
      <4>. QED
        BY <1>6, <2>2, <4>1 DEF ChainLinked
    <3>. QED
      BY <1>2, <3>1, <3>2
  <2>. QED
    BY <1>2, <1>6, <2>5, <2>6 DEF ChainLinked
<1>13. AckedSynced'
  BY <1>1, <1>3, <1>8 DEF LogInvariant, AckedSynced, FileTypes
<1>14. AckedKnown'
  <2>. HIDE DEF line
  <2>1. Clipped \subseteq Clipped'
    BY <1>2, <1>6 DEF Clipped
  <2>. QED
    BY <1>1, <2>1 DEF LogInvariant, AckedKnown
<1>15. TablesSynced'
  <2>. HIDE DEF line
  <2>1. Upto(file, Len(file)) \subseteq Upto(file', Len(file'))
    BY <1>2, <1>6 DEF Upto
  <2>. QED
    BY <1>1, <1>3, <1>8, <2>1 DEF LogInvariant, TablesSynced, FileTypes
<1>. QED
  BY <1>9, <1>10, <1>11, <1>12, <1>13, <1>14, <1>15 DEF LogInvariant

(* The innermost frame moves on and stays what it was. *)
LEMMA Advanced ==
    ASSUME LogInvariant, frames # <<>>, NEW stage \in Stages, Advance(stage)
    PROVE  /\ frames' \in Seq(Frames(ids)) /\ Len(frames') = Len(frames) /\ frames' # <<>>
           /\ Head(frames').id = Head(frames).id /\ Head(frames').stage = stage
           /\ Head(frames').kind = Head(frames).kind
<1>. DEFINE f == [Head(frames) EXCEPT !.stage = stage]
<1>1. Head(frames) \in Frames(ids)
  BY FileAndFrame
<1>2. /\ f \in Frames(ids) /\ f.id = Head(frames).id /\ f.stage = stage
      /\ f.kind = Head(frames).kind
  BY <1>1 DEF Frames
<1>3. frames \in Seq(Frames(ids)) /\ frames' = <<f>> \o Tail(frames)
  BY DEF LogInvariant, MemoryTypes, Advance
<1>4. /\ frames' \in Seq(Frames(ids)) /\ Len(frames') = Len(frames) /\ frames' # <<>>
      /\ Head(frames') = f
  <2>. HIDE DEF f
  <2>. QED BY <1>2, <1>3, HeadReplaced
<1>. QED
  BY <1>2, <1>4, Zenon

(* What leaves the file and its sync point alone keeps what is said of both. *)
LEMMA SameFile ==
    ASSUME LogInvariant, UNCHANGED <<file, synced, acked>>, survived \subseteq survived'
    PROVE  ChainUnbroken' /\ AckedSynced' /\ Clipped' = Clipped
<1>1. AckedSynced' /\ Clipped' = Clipped
  BY DEF LogInvariant, AckedSynced, Upto, Clipped
<1>2. ChainUnbroken'
  BY DEF LogInvariant, ChainUnbroken, ChainLinked
<1>. QED
  BY <1>1, <1>2

(* The last line becomes durable, acknowledged and remembered. *)
LEMMA FsyncKeeps == LogInvariant /\ Fsync => LogInvariant'
<1>. SUFFICES ASSUME LogInvariant, Fsync PROVE LogInvariant'
  OBVIOUS
<1>. DEFINE f == Head(frames)
<1>1. /\ frames # <<>> /\ f.stage = "written"
      /\ synced' = Len(file) /\ last' = [id |-> f.id, seq |-> f.seq]
      /\ acked' = acked \cup {f.id} /\ Advance("synced")
      /\ UNCHANGED <<file, projected, tables, marker, phase, survived, ghost, ids>>
  BY DEF Fsync, At, Synced, Remembered
<1>2. FileTypes /\ MemoryTypes /\ phase = "up"
  BY <1>1 DEF LogInvariant, MemoryTypes
<1>3. /\ Len(file) \in Nat /\ DOMAIN file = 1..Len(file) /\ ids \in Nat
      /\ file = <<>> <=> Len(file) = 0
      /\ f \in Frames(ids)
  BY <1>1, FileAndFrame
<1>4. /\ frames' \in Seq(Frames(ids)) /\ Len(frames') = Len(frames) /\ frames' # <<>>
      /\ Head(frames').id = f.id /\ Head(frames').stage = "synced"
      /\ Head(frames').kind = f.kind
  BY <1>1, Advanced DEF Stages
<1>5. file # <<>> /\ Last(file).id = f.id /\ Last(file).seq = f.seq
  BY <1>1 DEF LogInvariant, FramesInFile, At
<1>6. f.id \in 1..ids /\ f.seq \in 1..ids
  BY <1>3 DEF Frames
<1>. HIDE DEF f
<1>7. FileTypes'
  <2>1. synced' \in 0..Len(file')
    BY <1>1, <1>3
  <2>2. acked' \subseteq 1..ids
    BY <1>1, <1>2, <1>6 DEF FileTypes
  <2>. QED
    BY <1>1, <1>2, <2>1, <2>2 DEF FileTypes
<1>8. MemoryTypes'
  <2>1. last' \in [id : 0..ids, seq : 0..ids]
    BY <1>1, <1>3, <1>6
  <2>2. Len(frames') <= 2 /\ (Len(frames') = 2 => Head(frames').kind = "seal")
    BY <1>2, <1>4 DEF MemoryTypes, f
  <2>. QED
    BY <1>1, <1>2, <1>4, <2>1, <2>2 DEF MemoryTypes
<1>9. FramesInFile' /\ MemoryAtEnd'
  BY <1>1, <1>4, <1>5 DEF FramesInFile, MemoryAtEnd, Ends, At
<1>10. ChainUnbroken'
  BY <1>1 DEF LogInvariant, ChainUnbroken, ChainLinked
<1>11. Upto(file, synced) \subseteq Upto(file', synced') /\ f.id \in Upto(file', synced')
  <2>1. \A i \in 1..synced : i \in 1..Len(file)
    BY <1>2, <1>3 DEF FileTypes
  <2>2. Len(file) \in 1..Len(file) /\ file[Len(file)].id = f.id
    BY <1>3, <1>5 DEF Last
  <2>3. f.id \in Upto(file', synced')
    BY <1>1, <2>2, Zenon DEF Upto
  <2>. QED
    BY <1>1, <2>1, <2>3 DEF Upto
<1>12. AckedSynced'
  BY <1>1, <1>11 DEF LogInvariant, AckedSynced
<1>13. AckedKnown'
  <2>1. ~At("synced")
    BY <1>1 DEF At, f
  <2>2. Clipped' = Clipped
    BY <1>1 DEF Clipped
  <2>3. At("synced")'
    BY <1>4 DEF At
  <2>. QED
    BY <1>1, <1>4, <2>1, <2>2, <2>3 DEF LogInvariant, AckedKnown
<1>14. TablesSynced'
  BY <1>1, <1>11 DEF LogInvariant, TablesSynced
<1>. QED
  BY <1>7, <1>8, <1>9, <1>10, <1>12, <1>13, <1>14 DEF LogInvariant

LEMMA ApplyReducersKeeps == LogInvariant /\ ApplyReducers => LogInvariant'
<1>. SUFFICES ASSUME LogInvariant, ApplyReducers PROVE LogInvariant'
  OBVIOUS
<1>1. /\ At("synced") /\ frames # <<>> /\ Head(frames).stage = "synced"
      /\ projected' = Append(projected, Head(frames).id) /\ Advance("projected")
      /\ UNCHANGED <<file, synced, tables, marker, last, phase,
                     acked, survived, ghost, ids>>
  BY DEF ApplyReducers, At, disk, history
<1>2. FileTypes /\ MemoryTypes /\ phase = "up"
  BY <1>1 DEF LogInvariant, MemoryTypes
<1>3. Head(frames).id \in 1..ids
  BY <1>1, FileAndFrame DEF Frames
<1>4. /\ frames' \in Seq(Frames(ids)) /\ Len(frames') = Len(frames) /\ frames' # <<>>
      /\ Head(frames').id = Head(frames).id /\ Head(frames').stage = "projected"
      /\ Head(frames').kind = Head(frames).kind
  BY <1>1, Advanced DEF Stages
<1>5. /\ projected' \in Seq(1..ids)
      /\ ToSet(projected') = ToSet(projected) \cup {Head(frames).id}
  <2>1. projected \in Seq(1..ids)
    BY <1>2 DEF MemoryTypes
  <2>2. projected' = Append(projected, Head(frames).id)
    BY <1>1
  <2>. QED
    BY <1>3, <2>1, <2>2, AppendedElements
<1>6. FileTypes'
  BY <1>1, <1>2 DEF FileTypes
<1>7. MemoryTypes'
  BY <1>1, <1>2, <1>4, <1>5 DEF MemoryTypes
<1>8. FramesInFile' /\ MemoryAtEnd'
  BY <1>1, <1>2, <1>4 DEF LogInvariant, FramesInFile, MemoryAtEnd, At
<1>9. ChainUnbroken' /\ AckedSynced' /\ Clipped' = Clipped
  BY <1>1, SameFile
<1>10. AckedKnown'
  BY <1>1, <1>2, <1>5, <1>9 DEF LogInvariant, AckedKnown
<1>11. TablesSynced'
  BY <1>1 DEF LogInvariant, TablesSynced
<1>. QED
  BY <1>6, <1>7, <1>8, <1>9, <1>10, <1>11 DEF LogInvariant

(* Only what is acknowledged, hence synced, is materialized. *)
LEMMA MaterializeKeeps == LogInvariant /\ Materialize => LogInvariant'
<1>. SUFFICES ASSUME LogInvariant, Materialize PROVE LogInvariant'
  OBVIOUS
<1>1. /\ frames # <<>> /\ Head(frames).stage = "projected"
      /\ tables' = Append(tables, Head(frames).id) /\ Advance("materialized")
      /\ UNCHANGED <<file, synced, last, projected, marker, phase,
                     acked, survived, ghost, ids>>
  BY DEF Materialize, CallbackDue, At, history
<1>2. FileTypes /\ MemoryTypes /\ phase = "up"
  BY <1>1 DEF LogInvariant, MemoryTypes
<1>3. Head(frames).id \in 1..ids
  BY <1>1, FileAndFrame DEF Frames
<1>4. /\ frames' \in Seq(Frames(ids)) /\ Len(frames') = Len(frames) /\ frames' # <<>>
      /\ Head(frames').id = Head(frames).id /\ Head(frames').stage = "materialized"
      /\ Head(frames').kind = Head(frames).kind
  BY <1>1, Advanced DEF Stages
<1>5. /\ tables' \in Seq(1..ids)
      /\ ToSet(tables') = ToSet(tables) \cup {Head(frames).id}
  <2>1. tables \in Seq(1..ids) /\ tables' = Append(tables, Head(frames).id)
    BY <1>1, <1>2 DEF FileTypes
  <2>. QED
    BY <1>3, <2>1, AppendedElements
<1>6. FileTypes'
  BY <1>1, <1>2, <1>5 DEF FileTypes
<1>7. MemoryTypes'
  BY <1>1, <1>2, <1>4 DEF MemoryTypes
<1>8. Head(frames).id \in acked
  BY <1>1 DEF LogInvariant, FramesInFile, At
<1>9. FramesInFile' /\ MemoryAtEnd'
  BY <1>1, <1>2, <1>4, <1>8 DEF LogInvariant, FramesInFile, MemoryAtEnd, At
<1>10. ChainUnbroken' /\ AckedSynced' /\ Clipped' = Clipped
  BY <1>1, SameFile
<1>11. AckedKnown'
  BY <1>1, <1>2, <1>10 DEF LogInvariant, AckedKnown, At
<1>12. TablesSynced'
  <2>1. /\ Head(frames).id \in Upto(file, synced)
        /\ Upto(file, synced) \subseteq Upto(file, Len(file))
    <3>1. \A i \in 1..synced : i \in 1..Len(file)
      BY <1>2, FileAndFrame DEF FileTypes
    <3>. QED
      BY <1>8, <3>1 DEF LogInvariant, AckedSynced, Upto
  <2>2. Upto(file', synced') = Upto(file, synced)
        /\ Upto(file', Len(file')) = Upto(file, Len(file))
    BY <1>1
  <2>. QED
    BY <1>1, <1>2, <1>5, <2>1, <2>2 DEF LogInvariant, TablesSynced
<1>. QED
  BY <1>6, <1>7, <1>9, <1>10, <1>11, <1>12 DEF LogInvariant

(* The frames are gone, and with them nothing that was acknowledged: no error *)
(* hits a write between its fsync and its reducers.                           *)
LEMMA UnwoundKeeps ==
    ASSUME LogInvariant, ~At("synced"), frames' = <<>>, phase' = phase,
           UNCHANGED <<disk, last, projected, acked, ghost, ids>>,
           survived \subseteq survived', survived' \subseteq Stages,
           At("written") => "written" \in survived'
    PROVE  LogInvariant'
<1>1. UNCHANGED <<file, synced, tables, marker, last, projected, acked, ghost, ids>>
  BY DEF disk
<1>2. FileTypes'
  BY <1>1 DEF LogInvariant, FileTypes
<1>3. MemoryTypes'
  <2>1. <<>> \in Seq(Frames(ids)) /\ Len(<<>>) = 0
    OBVIOUS
  <2>. QED
    BY <1>1, <2>1 DEF LogInvariant, MemoryTypes
<1>4. FramesInFile' /\ MemoryAtEnd'
  BY <1>1 DEF LogInvariant, FramesInFile, MemoryAtEnd, At
<1>5. ChainUnbroken' /\ AckedSynced' /\ Clipped' = Clipped
  BY <1>1, SameFile
<1>6. AckedKnown'
  BY <1>1, <1>5 DEF LogInvariant, AckedKnown
<1>7. TablesSynced'
  BY <1>1 DEF LogInvariant, TablesSynced
<1>. QED
  BY <1>2, <1>3, <1>4, <1>5, <1>6, <1>7 DEF LogInvariant

(* The memory is gone; what is on the disk may have lost its end. *)
LEMMA DownKeeps ==
    ASSUME LogInvariant, LoseMemory, FileTypes', ChainUnbroken', AckedSynced', TablesSynced',
           UNCHANGED <<survived, ghost, ids>>
    PROVE  LogInvariant'
<1>1. <<>> \in Seq(Frames(ids)) /\ <<>> \in Seq(1..ids) /\ Len(<<>>) = 0
  OBVIOUS
<1>2. Fresh \in [id : 0..ids, seq : 0..ids]
  BY FileAndFrame DEF Fresh, Genesis
<1>3. MemoryTypes'
  BY <1>1, <1>2 DEF LogInvariant, LoseMemory, MemoryTypes
<1>. QED
  BY <1>3 DEF LogInvariant, LoseMemory, FramesInFile, MemoryAtEnd, AckedKnown, At

LEMMA ProcessDies ==
    ASSUME LogInvariant, phase = "up", LoseMemory, UNCHANGED <<disk, history>>
    PROVE  LogInvariant'
<1>1. UNCHANGED <<file, synced, tables, marker, acked, survived, ghost, ids>>
  BY DEF disk, history
<1>2. ChainUnbroken' /\ AckedSynced'
  BY <1>1, SameFile
<1>3. FileTypes'
  BY <1>1 DEF LogInvariant, FileTypes
<1>4. TablesSynced'
  BY <1>1 DEF LogInvariant, TablesSynced
<1>. QED
  BY <1>1, <1>2, <1>3, <1>4, DownKeeps

LEMMA ReturnKeeps == LogInvariant /\ Return => LogInvariant'
<1>. SUFFICES ASSUME LogInvariant, Return PROVE LogInvariant'
  OBVIOUS
<1>1. /\ ~At("synced") /\ ~At("written") /\ frames' = <<>> /\ phase' = phase
      /\ UNCHANGED <<disk, last, projected, acked, survived, ghost, ids>>
  BY DEF Return, At, history
<1>2. survived \subseteq Stages
  BY DEF LogInvariant, MemoryTypes
<1>. QED
  BY <1>1, <1>2, UnwoundKeeps

LEMMA ThrowKeeps == LogInvariant /\ Throw => LogInvariant'
<1>. SUFFICES ASSUME LogInvariant, Throw PROVE LogInvariant'
  OBVIOUS
<1>1. /\ frames # <<>> /\ Head(frames).stage \in {"written", "projected", "materialized"}
      /\ UNCHANGED <<disk, acked, ghost, ids>>
  BY DEF Throw, At
<1>2. survived \subseteq Stages /\ phase = "up"
  BY <1>1 DEF LogInvariant, MemoryTypes
<1>3. CASE /\ frames' = <<>> /\ survived' = survived \cup {Head(frames).stage}
           /\ UNCHANGED <<last, projected, phase>>
  <2>1. ~At("synced") /\ (At("written") => "written" \in survived')
    BY <1>1, <1>3 DEF At
  <2>2. survived \subseteq survived' /\ survived' \subseteq Stages
    BY <1>1, <1>2, <1>3 DEF Stages
  <2>. QED
    BY <1>1, <1>3, <2>1, <2>2, UnwoundKeeps
<1>4. CASE LoseMemory /\ UNCHANGED survived
  BY <1>1, <1>2, <1>4, ProcessDies DEF history
<1>. QED
  BY <1>3, <1>4 DEF Throw

LEMMA ProcessCrashKeeps == LogInvariant /\ ProcessCrash => LogInvariant'
BY ProcessDies DEF ProcessCrash

(* What a power loss leaves of the file: some first lines, of which the last, *)
(* if it was not synced, may have lost its end.                               *)
Leaves(f, n) ==
    \/ f = SubSeq(file, 1, n)
    \/ \E cut \in Cuts \ {"none"} :
         n > synced /\ f = [SubSeq(file, 1, n) EXCEPT ![n].cut = cut]

LEMMA LinesLeft ==
    ASSUME LogInvariant, NEW n \in synced..Len(file), NEW f, Leaves(f, n)
    PROVE  /\ f \in Seq(Lines(ids)) /\ Len(f) = n
           /\ \A i \in 1..n : /\ f[i].id = file[i].id /\ f[i].seq = file[i].seq
                              /\ f[i].prev = file[i].prev /\ f[i].kind = file[i].kind
                              /\ f[i].cut = file[i].cut \/ (i = n /\ n > synced /\ f[i].cut # "none")
<1>. DEFINE g == SubSeq(file, 1, n)
<1>1. /\ ids \in Nat /\ Len(file) \in Nat /\ synced \in Nat /\ n \in Nat
      /\ synced <= n /\ n <= Len(file) /\ file \in Seq(Lines(ids))
      /\ \A i \in 1..Len(file) : file[i] \in Lines(ids)
  BY FileAndFrame DEF LogInvariant, FileTypes
<1>2. /\ g \in Seq(Lines(ids)) /\ Len(g) = n /\ DOMAIN g = 1..n
      /\ \A i \in 1..n : g[i] = file[i]
  <2>1. n \in 0..Len(file)
    BY <1>1
  <2>. QED
    BY <1>1, <2>1, FirstElements
<1>. HIDE DEF g
<1>3. CASE f = g
  BY <1>2, <1>3
<1>4. ASSUME NEW cut \in Cuts \ {"none"}, n > synced, f = [g EXCEPT ![n].cut = cut]
      PROVE  /\ f \in Seq(Lines(ids)) /\ Len(f) = n
             /\ \A i \in 1..n : /\ f[i].id = file[i].id /\ f[i].seq = file[i].seq
                                /\ f[i].prev = file[i].prev /\ f[i].kind = file[i].kind
                                /\ f[i].cut = file[i].cut \/ (i = n /\ f[i].cut # "none")
  <2>1. n \in 1..n /\ g[n] \in Lines(ids)
    BY <1>1, <1>2, <1>4
  <2>. DEFINE e == [g[n] EXCEPT !.cut = cut]
  <2>2. /\ e \in Lines(ids) /\ e.id = g[n].id /\ e.seq = g[n].seq /\ e.prev = g[n].prev
        /\ e.kind = g[n].kind /\ e.cut = cut
    BY <2>1 DEF Lines
  <2>3. f = [g EXCEPT ![n] = e]
    BY <1>4
  <2>. HIDE DEF e
  <2>4. /\ f \in Seq(Lines(ids)) /\ Len(f) = n
        /\ \A i \in 1..n : f[i] = IF i = n THEN e ELSE g[i]
    BY <1>2, <2>1, <2>2, <2>3, ExceptSeq
  <2>. QED
    BY <1>2, <2>1, <2>2, <2>4
<1>. QED
  BY <1>3, <1>4 DEF g, Leaves

LEMMA RowsLeft ==
    ASSUME LogInvariant, NEW k \in 0..Len(tables)
    PROVE  /\ SubSeq(tables, 1, k) \in Seq(1..ids) /\ Len(SubSeq(tables, 1, k)) = k
           /\ \A i \in 1..k : SubSeq(tables, 1, k)[i] = tables[i]
           /\ ToSet(SubSeq(tables, 1, k)) \subseteq ToSet(tables)
<1>1. /\ SubSeq(tables, 1, k) \in Seq(1..ids) /\ Len(SubSeq(tables, 1, k)) = k
      /\ DOMAIN SubSeq(tables, 1, k) = 1..k
      /\ \A i \in 1..k : SubSeq(tables, 1, k)[i] = tables[i] /\ i \in DOMAIN tables
  <2>1. tables \in Seq(1..ids)
    BY DEF LogInvariant, FileTypes
  <2>. QED
    BY <2>1, FirstElements
<1>. QED
  BY <1>1 DEF ToSet

(* The synced part of the file survives, cut lines behind it keep their ids. *)
LEMMA PowerLossKeeps == LogInvariant /\ PowerLoss => LogInvariant'
<1>. SUFFICES ASSUME LogInvariant, PowerLoss PROVE LogInvariant'
  OBVIOUS
<1>1. PICK n \in synced..Len(file) : synced' = n /\ Leaves(file', n)
  BY DEF PowerLoss, Leaves
<1>2. PICK k \in 0..Len(tables) : tables' = SubSeq(tables, 1, k)
  BY DEF PowerLoss
<1>3. /\ LoseMemory /\ marker' \in {marker, NoMarker} /\ phase # "refused" /\ phase' = "down"
      /\ UNCHANGED <<acked, survived, ghost, ids>>
  BY DEF PowerLoss, history, LoseMemory
<1>4. FileTypes
  BY DEF LogInvariant
<1>5. /\ ids \in Nat /\ Len(file) \in Nat /\ DOMAIN file = 1..Len(file)
      /\ \A i \in 1..Len(file) : file[i] \in Lines(ids)
      /\ file = <<>> <=> Len(file) = 0
  BY FileAndFrame
<1>6. synced \in Nat /\ n \in Nat /\ synced <= n /\ n <= Len(file)
  BY <1>1, <1>4, <1>5 DEF FileTypes
<1>7. /\ file' \in Seq(Lines(ids)) /\ Len(file') = n
      /\ \A i \in 1..n : /\ file'[i].id = file[i].id /\ file'[i].seq = file[i].seq
                         /\ file'[i].prev = file[i].prev
  BY <1>1, LinesLeft
<1>8. \A m \in 0..n : Upto(file', m) = Upto(file, m)
  BY <1>6, <1>7 DEF Upto
<1>9. tables' \in Seq(1..ids) /\ ToSet(tables') \subseteq ToSet(tables)
  BY <1>2, RowsLeft
<1>10. FileTypes'
  <2>1. marker' \in [lines : 0..ids, hash : 0..ids]
    BY <1>3, <1>4, <1>5 DEF FileTypes, NoMarker, Genesis
  <2>2. synced' \in 0..Len(file') /\ Len(file') <= ids
    BY <1>1, <1>4, <1>5, <1>6, <1>7 DEF FileTypes
  <2>. QED
    BY <1>3, <1>4, <1>7, <1>9, <2>1, <2>2 DEF FileTypes
<1>11. ChainUnbroken'
  <2>1. SUFFICES ASSUME "written" \notin survived PROVE ChainLinked'
    BY <1>3 DEF ChainUnbroken
  <2>2. ChainLinked
    BY <2>1 DEF LogInvariant, ChainUnbroken
  <2>3. ASSUME NEW i \in 1..n - 1
        PROVE  file'[i + 1].prev = file'[i].id /\ file'[i + 1].seq = file'[i].seq + 1
    <3>1. i \in 1..n /\ i + 1 \in 1..n /\ i \in 1..Len(file) - 1
      BY <1>5, <1>6
    <3>. QED
      BY <1>7, <2>2, <3>1 DEF ChainLinked
  <2>4. ASSUME file' # <<>> PROVE file'[1].prev = Genesis /\ file'[1].seq = 1
    <3>1. n # 0
      BY <1>7, <2>4, EmptySeq
    <3>2. 1 \in 1..n /\ file # <<>>
      BY <1>5, <1>6, <3>1
    <3>. QED
      BY <1>7, <2>2, <3>2 DEF ChainLinked
  <2>. QED
    BY <1>7, <2>3, <2>4 DEF ChainLinked
<1>12. Upto(file, synced) \subseteq Upto(file', synced')
  <2>1. Upto(file', n) = Upto(file, n)
    BY <1>6, <1>8
  <2>2. \A i \in 1..synced : i \in 1..n
    BY <1>6
  <2>3. Upto(file, synced) \subseteq Upto(file, n)
    BY <2>2 DEF Upto
  <2>. QED
    BY <1>1, <2>1, <2>3
<1>13. AckedSynced'
  BY <1>3, <1>12 DEF LogInvariant, AckedSynced
<1>14. TablesSynced'
  BY <1>1, <1>3, <1>7, <1>9, <1>12 DEF LogInvariant, TablesSynced
<1>. QED
  BY <1>3, <1>10, <1>11, <1>13, <1>14, DownKeeps

(* What a replay leaves: tables and marker of their types, and no row that *)
(* was neither there nor in the file.                                      *)
LEMMA Replayed ==
    ASSUME LogInvariant, Replay
    PROVE  /\ tables' \in Seq(1..ids)
           /\ marker' \in [lines : 0..ids, hash : 0..ids]
           /\ ToSet(tables') \subseteq ToSet(tables) \cup Upto(file, Len(file))
<1>1. FileTypes
  BY DEF LogInvariant
<1>2. /\ ids \in Nat /\ Len(file) \in Nat
      /\ \A i \in 1..Len(file) : file[i] \in Lines(ids)
  BY FileAndFrame
<1>3. Readable \in 0..Len(file) /\ Readable \in Nat
  BY <1>1, <1>2, ReadableLines DEF FileTypes
<1>4. StartLine \in 0..ids /\ StartLine \in Nat
  BY <1>1, <1>2 DEF FileTypes, StartLine
<1>5. /\ RowsOf(file, StartLine, Readable) \in Seq(1..ids)
      /\ ToSet(RowsOf(file, StartLine, Readable)) = IdsBetween(file, StartLine, Readable)
  <2>1. file \in Seq(Lines(ids))
    BY <1>1 DEF FileTypes
  <2>. QED
    BY <1>2, <1>3, <1>4, <2>1, IdsOfRange
<1>6. IdsBetween(file, StartLine, Readable) \subseteq Upto(file, Len(file))
  <2>1. \A i \in StartLine + 1..Readable : i \in 1..Len(file)
    BY <1>2, <1>3, <1>4
  <2>. QED
    BY <2>1, Zenon DEF Upto, IdsBetween
<1>7. tables \in Seq(1..ids)
  BY <1>1 DEF FileTypes
<1>8. tables' = tables \o RowsOf(file, StartLine, Readable)
  BY DEF Replay, RowsOf
<1>10. /\ tables' \in Seq(1..ids)
       /\ ToSet(tables') \subseteq ToSet(tables) \cup Upto(file, Len(file))
  <2>1. ToSet(tables') = ToSet(tables) \cup IdsBetween(file, StartLine, Readable)
        /\ tables' \in Seq(1..ids)
    BY <1>5, <1>7, <1>8, JoinedElements
  <2>. QED
    BY <1>6, <2>1
<1>11. marker' \in [lines : 0..ids, hash : 0..ids]
  <2>1. CASE marker' = marker
    BY <1>1, <2>1 DEF FileTypes
  <2>2. CASE /\ ~(StartLine >= Readable)
             /\ marker' = [lines |-> Readable, hash |-> file[Readable].id]
    <3>1. Readable \in 1..Len(file) /\ Readable \in 0..ids
      BY <1>1, <1>2, <1>3, <1>4, <2>2 DEF FileTypes
    <3>2. file[Readable].id \in 0..ids
      BY <1>2, <3>1 DEF Lines
    <3>. QED
      BY <2>2, <3>1, <3>2
  <2>. QED
    BY <2>1, <2>2 DEF Replay
<1>. QED
  BY <1>10, <1>11

(* A boot that comes up has read every line but a last one without newline. *)
LEMMA BootReads ==
    ASSUME LogInvariant, ~Unreadable
    PROVE  \A i \in 1..Len(file) : i <= Readable \/ file[i].cut = "newline"
<1>1. file \in Seq(Lines(ids)) /\ Len(file) \in Nat
  BY FileAndFrame DEF LogInvariant, FileTypes
<1>2. \A i \in 1..Len(file) : file[i].cut \in Cuts
  BY FileAndFrame DEF Lines
<1>3. /\ Readable \in 0..Len(file)
      /\ Readable < Len(file) => file[Readable + 1].cut # "none"
  BY <1>1, ReadableLines
<1>4. PICK r \in 0..Len(file) : r = Readable
  BY <1>3
<1>5. ~(r < Len(file) - 1) /\ ~(r = Len(file) - 1 /\ Last(file).cut = "body")
  BY <1>4 DEF Unreadable
<1>6. r < Len(file) => r + 1 = Len(file) /\ file[Len(file)].cut = "newline"
  <2>. SUFFICES ASSUME r < Len(file) PROVE r + 1 = Len(file) /\ file[Len(file)].cut = "newline"
    OBVIOUS
  <2>1. r = Len(file) - 1 /\ r + 1 = Len(file) /\ Len(file) \in 1..Len(file)
    BY <1>1, <1>5
  <2>2. file[Len(file)].cut # "body" /\ file[Len(file)].cut # "none"
    BY <1>3, <1>4, <1>5, <2>1 DEF Last
  <2>. QED
    BY <1>2, <2>1, <2>2 DEF Cuts
<1>7. \A i \in 1..Len(file) : i <= r \/ file[i].cut = "newline"
  BY <1>1, <1>6
<1>. QED
  BY <1>4, <1>7

LEMMA BootKeeps == LogInvariant /\ Boot => LogInvariant'
<1>. SUFFICES ASSUME LogInvariant, Boot PROVE LogInvariant'
  OBVIOUS
<1>1. /\ phase = "down" /\ ~Unreadable /\ Replay /\ phase' = "up"
      /\ projected' = IdsOf(SubSeq(file, 1, Readable))
      /\ last' = IF file = <<>> THEN Fresh ELSE [id |-> Last(file).id, seq |-> Last(file).seq]
      /\ ghost' = (ghost \/ synced < Len(file))
      /\ UNCHANGED <<file, synced, frames, acked, survived, ids>>
  BY DEF Boot
<1>2. FileTypes /\ MemoryTypes /\ frames = <<>>
  BY <1>1 DEF LogInvariant, MemoryTypes
<1>3. /\ ids \in Nat /\ Len(file) \in Nat /\ DOMAIN file = 1..Len(file)
      /\ \A i \in 1..Len(file) : file[i] \in Lines(ids)
      /\ file = <<>> <=> Len(file) = 0
  BY FileAndFrame
<1>4. /\ tables' \in Seq(1..ids) /\ marker' \in [lines : 0..ids, hash : 0..ids]
      /\ ToSet(tables') \subseteq ToSet(tables) \cup Upto(file, Len(file))
  BY <1>1, Replayed
<1>5. Readable \in 0..Len(file)
  BY <1>2, <1>3, ReadableLines DEF FileTypes
<1>6. projected' \in Seq(1..ids) /\ ToSet(projected') = {file[i].id : i \in 1..Readable}
  <2>1. /\ RowsOf(file, 0, Readable) \in Seq(1..ids)
        /\ ToSet(RowsOf(file, 0, Readable)) = IdsBetween(file, 0, Readable)
    <3>1. file \in Seq(Lines(ids)) /\ 0 \in Nat
      BY <1>2 DEF FileTypes
    <3>. QED
      BY <1>3, <1>5, <3>1, IdsOfRange
  <2>2. 0 + 1 = 1
    OBVIOUS
  <2>. QED
    BY <1>1, <2>1, <2>2 DEF RowsOf, IdsBetween
<1>7. FileTypes'
  BY <1>1, <1>2, <1>4 DEF FileTypes
<1>8. MemoryTypes'
  <2>3. last' \in [id : 0..ids, seq : 0..ids]
    <3>1. CASE file = <<>>
      BY <1>1, <1>3, <3>1 DEF Fresh, Genesis
    <3>2. CASE file # <<>>
      <4>1. Last(file) \in Lines(ids)
        BY <1>3, <3>2 DEF Last
      <4>2. Last(file).id \in 0..ids /\ Last(file).seq \in 0..ids
        BY <4>1 DEF Lines
      <4>. QED
        BY <1>1, <3>2, <4>2
    <3>. QED
      BY <3>1, <3>2
  <2>4. ghost' \in BOOLEAN
    BY <1>1, <1>2 DEF MemoryTypes
  <2>. QED
    BY <1>1, <1>2, <1>6, <2>3, <2>4 DEF MemoryTypes
<1>9. FramesInFile' /\ MemoryAtEnd'
  BY <1>1, <1>2 DEF FramesInFile, MemoryAtEnd, Ends, At, Fresh
<1>10. ChainUnbroken' /\ AckedSynced' /\ Clipped' = Clipped
  BY <1>1, SameFile
<1>11. AckedKnown'
  <2>1. ASSUME NEW r \in acked, r \notin Clipped PROVE r \in ToSet(projected')
    <3>1. PICK i \in 1..synced : r = file[i].id
      BY <2>1 DEF LogInvariant, AckedSynced, Upto
    <3>2. i \in 1..Len(file)
      BY <1>2, <1>3 DEF FileTypes
    <3>3. file[i].cut # "newline"
      BY <1>3, <2>1, <3>1, <3>2 DEF Clipped
    <3>4. i \in 1..Readable
      BY <1>1, <1>5, <3>2, <3>3, BootReads
    <3>. QED
      BY <1>6, <3>1, <3>4
  <2>. QED
    BY <1>1, <1>10, <2>1 DEF AckedKnown
<1>12. TablesSynced'
  <2>1. SUFFICES ASSUME ~ghost' PROVE ToSet(tables') \subseteq Upto(file, Len(file))
                                      /\ synced' = Len(file)
    BY <1>1 DEF TablesSynced
  <2>2. ~ghost /\ synced = Len(file)
    <3>1. ~(synced < Len(file)) /\ ~ghost
      BY <1>1, <1>2, <2>1 DEF MemoryTypes
    <3>. QED
      <4>1. synced \in 0..Len(file) /\ Len(file) \in Nat
        BY <1>2, <1>3 DEF FileTypes
      <4>2. synced = Len(file)
        BY <3>1, <4>1
      <4>. QED
        BY <3>1, <4>2
  <2>. QED
    BY <1>1, <1>4, <2>2 DEF LogInvariant, TablesSynced
<1>. QED
  BY <1>7, <1>8, <1>9, <1>10, <1>11, <1>12 DEF LogInvariant

(* A refused boot may have materialized what the disk does not have yet. *)
LEMMA BootRefusesKeeps == LogInvariant /\ BootRefuses => LogInvariant'
<1>. SUFFICES ASSUME LogInvariant, BootRefuses PROVE LogInvariant'
  OBVIOUS
<1>1. /\ phase = "down" /\ phase' = "refused"
      /\ UNCHANGED <<file, synced, last, frames, projected, acked, survived, ghost, ids>>
  BY DEF BootRefuses, history
<1>2. FileTypes /\ MemoryTypes
  BY DEF LogInvariant
<1>3. /\ tables' \in Seq(1..ids) /\ marker' \in [lines : 0..ids, hash : 0..ids]
      /\ ToSet(tables') \subseteq ToSet(tables) \cup Upto(file, Len(file))
  <2>1. CASE UNCHANGED <<tables, marker>>
    BY <1>2, <2>1 DEF FileTypes
  <2>2. CASE Replay
    BY <2>2, Replayed
  <2>. QED
    BY <2>1, <2>2 DEF BootRefuses
<1>4. FileTypes' /\ MemoryTypes'
  BY <1>1, <1>2, <1>3 DEF FileTypes, MemoryTypes
<1>5. FramesInFile' /\ MemoryAtEnd' /\ AckedKnown'
  BY <1>1 DEF LogInvariant, FramesInFile, MemoryAtEnd, AckedKnown, At
<1>6. ChainUnbroken' /\ AckedSynced'
  BY <1>1, SameFile
<1>7. TablesSynced'
  BY <1>1, <1>3 DEF LogInvariant, TablesSynced
<1>. QED
  BY <1>4, <1>5, <1>6, <1>7 DEF LogInvariant

LEMMA StutterKeeps == LogInvariant /\ UNCHANGED vars => LogInvariant'
BY DEF vars, LogInvariant, FileTypes, MemoryTypes, FramesInFile, MemoryAtEnd, ChainUnbroken,
       ChainLinked, AckedSynced, AckedKnown, TablesSynced, Clipped, Upto, Ends, At

LEMMA StepKeeps == LogInvariant /\ [Next]_vars => LogInvariant'
<1>. SUFFICES ASSUME LogInvariant, [Next]_vars PROVE LogInvariant'
  OBVIOUS
<1>1. MemoryTypes
  BY DEF LogInvariant
<1>2. CASE WriteAct
  BY <1>2, PushKeeps DEF WriteAct, At, Kinds, Cuts
<1>3. CASE ShortWrite
  BY <1>3, PushKeeps DEF ShortWrite, At, Kinds, Cuts
<1>4. CASE Seal
  <2>1. /\ frames # <<>> /\ Head(frames).stage = "materialized" /\ Head(frames).kind = "act"
        /\ Push("seal", "none")
    BY <1>4 DEF Seal, At, SealsOrigin
  <2>2. Len(frames) = 1 /\ phase = "up"
    <3>1. frames \in Seq(Frames(ids)) /\ Len(frames) <= 2 /\ Len(frames) # 2 /\ phase = "up"
      BY <1>1, <2>1 DEF MemoryTypes
    <3>. QED
      <4>1. PICK n \in Nat : n = Len(frames)
        BY <3>1, LenProperties
      <4>2. n # 0
        BY <2>1, <3>1, <4>1, EmptySeq
      <4>3. n <= 2 /\ n # 2
        BY <3>1, <4>1
      <4>. QED
        BY <3>1, <4>1, <4>2, <4>3
  <2>. QED
    BY <2>1, <2>2, PushKeeps DEF At, Kinds, Cuts
<1>. QED
  BY <1>2, <1>3, <1>4, FsyncKeeps, ApplyReducersKeeps, MaterializeKeeps, ReturnKeeps,
     ThrowKeeps, ProcessCrashKeeps, PowerLossKeeps, BootKeeps, BootRefusesKeeps, StutterKeeps
     DEF Next

-----------------------------------------------------------------------------
(* The theorems *)

(* What the logger, the file and the tables agree on holds in every state. *)
THEOREM LogInvariantHolds == Spec => []LogInvariant
BY InitInvariant, StepKeeps, PTL DEF Spec

LEMMA InvariantTypes == LogInvariant => TypeOK
<1>. SUFFICES ASSUME LogInvariant PROVE TypeOK
  OBVIOUS
<1>1. FileTypes /\ MemoryTypes
  BY DEF LogInvariant
<1>2. /\ ids \in Nat /\ ids <= MaxIds
      /\ DOMAIN file = 1..Len(file) /\ \A i \in 1..Len(file) : file[i] \in Lines(ids)
  BY <1>1, FileAndFrame DEF FileTypes
<1>3. 1..ids \subseteq 1..MaxIds /\ 0..ids \subseteq 0..MaxIds
  BY <1>2
<1>4. Lines(ids) \subseteq [id : 1..MaxIds, seq : 1..MaxIds, prev : 0..MaxIds,
                            kind : {"act", "seal"}, cut : Cuts]
  BY <1>3 DEF Lines, Kinds
<1>5. Frames(ids) \subseteq [id : 1..MaxIds, seq : 1..MaxIds,
                             kind : {"act", "seal"}, stage : Stages]
  BY <1>3 DEF Frames, Kinds
<1>6. ToSet(file) \subseteq Lines(ids)
  BY <1>2 DEF ToSet
<1>7. \A S : \A s \in Seq(S) : ToSet(s) \subseteq S
  BY ElementOfSeq, LenProperties DEF ToSet
<1>8. /\ ToSet(frames) \subseteq Frames(ids)
      /\ ToSet(projected) \subseteq 1..ids /\ ToSet(tables) \subseteq 1..ids
  BY <1>1, <1>7 DEF FileTypes, MemoryTypes
<1>9. /\ last \in [id : 0..MaxIds, seq : 0..MaxIds]
      /\ marker \in [lines : 0..MaxIds, hash : 0..MaxIds]
  BY <1>1, <1>3 DEF FileTypes, MemoryTypes
<1>. QED
  BY <1>1, <1>3, <1>4, <1>5, <1>6, <1>8, <1>9 DEF TypeOK, FileTypes, MemoryTypes

(* The variables have their types, and no write nests deeper than a seal in *)
(* the callback of an act.                                                  *)
THEOREM LogTypes == Spec => []TypeOK
BY LogInvariantHolds, InvariantTypes, PTL

(* Every receipt names its predecessor in the file, whatever crashes, power  *)
(* losses and reboots come between, unless a caller survived a failed fsync. *)
THEOREM ChainHolds == Spec => []ChainUnbroken
<1>1. LogInvariant => ChainUnbroken
  BY DEF LogInvariant
<1>. QED
  BY <1>1, LogInvariantHolds, PTL

(* Whatever got past its fsync is in the projections of every later life that *)
(* comes up, but for a last line without its newline.                         *)
THEOREM NothingLost == Spec => []NoSilentLoss
<1>1. LogInvariant => NoSilentLoss
  BY DEF LogInvariant, AckedKnown, NoSilentLoss, Clipped, At
<1>. QED
  BY <1>1, LogInvariantHolds, PTL

(* The tables never hold a receipt that the log has lost, until a boot has *)
(* read lines an earlier failure had left unsynced.                        *)
THEOREM LogFirst == Spec => []TablesBehindLog
<1>1. LogInvariant => TablesBehindLog
  <2>. SUFFICES ASSUME LogInvariant PROVE TablesBehindLog
    OBVIOUS
  <2>1. DOMAIN file = 1..Len(file)
    BY FileAndFrame
  <2>2. ToSet(IdsOf(file)) = Upto(file, Len(file))
    BY <2>1 DEF ToSet, IdsOf, Upto
  <2>. QED
    BY <2>2 DEF LogInvariant, TablesSynced, TablesBehindLog
<1>. QED
  BY <1>1, LogInvariantHolds, PTL

-----------------------------------------------------------------------------
(* What the tables hold *)

(* TablesBehindLog says that the tables have no more than the log.  That they *)
(* have no less, and that a marker may be trusted, needs an invariant of its  *)
(* own, on top of LogInvariant: while no caller has survived a failed write,  *)
(* the tables are in the order of the log and without a gap up to any line    *)
(* that the replay can read.                                                  *)

Sane == survived = {} /\ phase # "refused"

Rows == ToSet(tables)

(* The first m lines end in their newlines. *)
Intact(f, m) == \A i \in 1..m : f[i].cut = "none"

Ordered == \A i, j \in 1..Len(file) : i < j => file[i].id < file[j].id

FrameIsLast == frames # <<>> => file # <<>> /\ Last(file).id = Head(frames).id

(* In a running process every line is materialized, but for the one whose    *)
(* write is under way and one that the replay could not read.                *)
Materialized ==
    Sane /\ phase = "up" =>
        \A i \in 1..Len(file) :
            \/ file[i].id \in Rows \/ file[i].cut = "newline"
            \/ frames # <<>> /\ ~At("materialized") /\ i = Len(file)

(* A row has the rows of all earlier lines before it, so that whatever end a *)
(* power loss takes from the tables, the newest row left tells how far they  *)
(* got.                                                                      *)
WithoutGaps(f, t) ==
    \A k \in 1..Len(t), m \in 1..Len(f) :
        Intact(f, m) /\ f[m].id = t[k] => \A i \in 1..m : \E j \in 1..k : t[j] = f[i].id

InOrder == Sane => WithoutGaps(file, tables)

(* The marker names the line it counts to, if the file still has that line. *)
MarkerNames ==
    phase # "refused" =>
        /\ marker.lines \in 1..Len(file) => file[marker.lines].id = marker.hash
        /\ phase = "up" => marker.lines <= Len(file)
        /\ marker.lines = 0 => marker = NoMarker
        /\ marker.lines # 0 => marker.hash # 0

(* A seal is cut only by the power loss that makes what is left durable: no *)
(* later one cuts it again.                                                 *)
CutSealsSynced ==
    \A i \in 1..Len(file) : file[i].kind = "seal" /\ file[i].cut # "none" => i <= synced

TablesInvariant ==
    /\ Ordered /\ FrameIsLast /\ Materialized /\ InOrder /\ MarkerNames
    /\ CutSealsSynced /\ SealedOnce

(* The elements of a sequence are what stands somewhere in it. *)
LEMMA Elements ==
    ASSUME NEW S, NEW s \in Seq(S)
    PROVE  /\ Len(s) \in Nat /\ \A j \in 1..Len(s) : s[j] \in S
           /\ \A r : r \in ToSet(s) <=> \E j \in 1..Len(s) : s[j] = r
<1>1. /\ Len(s) \in Nat /\ DOMAIN s = 1..Len(s)
      /\ \A j \in 1..Len(s) : s[j] \in S
  BY ElementOfSeq, LenProperties
<1>2. \A r : r \in ToSet(s) <=> \E j \in 1..Len(s) : s[j] = r
  BY <1>1 DEF ToSet
<1>. QED
  BY <1>1, <1>2

(* Lines in order have different ids. *)
LEMMA LinesDiffer ==
    ASSUME LogInvariant, Ordered, NEW i \in 1..Len(file), NEW j \in 1..Len(file),
           file[i].id = file[j].id
    PROVE  i = j
<1>1. /\ Len(file) \in Nat /\ file[i].id \in Nat
  BY FileAndFrame DEF Lines
<1>2. ~(file[i].id < file[j].id) /\ ~(file[j].id < file[i].id)
  BY <1>1
<1>. QED
  BY <1>1, <1>2 DEF Ordered

LEMMA TablesInit == Init => TablesInvariant
<1>. SUFFICES ASSUME Init PROVE TablesInvariant
  OBVIOUS
<1>1. /\ file = <<>> /\ Len(file) = 0 /\ DOMAIN file = {} /\ tables = <<>> /\ Len(tables) = 0
      /\ frames = <<>> /\ marker = NoMarker /\ marker.lines = 0
  BY DEF Init, NoMarker
<1>2. 1..Len(file) = {} /\ 1..Len(tables) = {}
  BY <1>1
<1>3. Ordered /\ Materialized /\ InOrder /\ CutSealsSynced
  BY <1>2, Zenon DEF Ordered, Materialized, InOrder, WithoutGaps, CutSealsSynced
<1>4. MarkerNames
  BY <1>1 DEF MarkerNames
<1>5. FrameIsLast /\ SealedOnce
  BY <1>1, Zenon DEF FrameIsLast, SealedOnce
<1>. QED
  BY <1>3, <1>4, <1>5 DEF TablesInvariant

(* Steps that leave file, tables and marker alone keep what is said of them. *)
LEMMA SameTables ==
    ASSUME LogInvariant, TablesInvariant, LogInvariant',
           UNCHANGED <<file, tables, marker>>, synced' \in {synced, Len(file)},
           survived \subseteq survived',
           phase = "up" /\ phase' \in {"up", "down"}
    PROVE  Ordered' /\ InOrder' /\ MarkerNames' /\ CutSealsSynced' /\ SealedOnce'
<1>1. Len(file) \in Nat /\ synced \in 0..Len(file)
  BY FileAndFrame DEF LogInvariant, FileTypes
<1>2. Sane' => Sane
  BY DEF Sane
<1>3. Ordered'
  BY DEF TablesInvariant, Ordered
<1>4. InOrder'
  BY <1>2 DEF TablesInvariant, InOrder
<1>5. MarkerNames'
  BY DEF TablesInvariant, MarkerNames, NoMarker
<1>6. CutSealsSynced'
  BY <1>1 DEF TablesInvariant, CutSealsSynced
<1>7. SealedOnce'
  BY DEF TablesInvariant, SealedOnce
<1>. QED
  BY <1>3, <1>4, <1>5, <1>6, <1>7
(* What a running write adds: a line that nothing names yet. *)
LEMMA PushKeepsTables ==
    ASSUME LogInvariant, TablesInvariant, LogInvariant', phase = "up",
           frames = <<>> \/ At("materialized"),
           NEW kind \in Kinds, NEW cut \in Cuts, Push(kind, cut),
           kind = "seal" => cut = "none" /\ SealMissing
    PROVE  TablesInvariant'
<1>. DEFINE line == [id |-> ids + 1, seq |-> last.seq + 1, kind |-> kind,
                     prev |-> last.id, cut |-> cut]
            frame == [id |-> line.id, seq |-> line.seq, kind |-> kind, stage |-> "written"]
            n == Len(file)
<1>1. /\ ids' = ids + 1
      /\ file' = Append(file, line) /\ frames' = <<frame>> \o frames
      /\ UNCHANGED <<synced, last, projected, tables, marker, phase, survived>>
  BY DEF Push
<1>2. /\ ids \in Nat /\ n \in Nat /\ DOMAIN file = 1..n
      /\ \A i \in 1..n : file[i] \in Lines(ids)
  BY FileAndFrame
<1>3. /\ file' \in Seq(Lines(ids + 1)) /\ Len(file') = n + 1 /\ DOMAIN file' = 1..n + 1
      /\ \A i \in 1..n : file'[i] = file[i]
      /\ file'[n + 1] = line /\ Last(file') = line /\ file' # <<>>
  <2>1. line \in Lines(ids + 1)
    BY <1>1, <1>2 DEF LogInvariant, MemoryTypes, Lines, Cuts, Kinds
  <2>2. file \in Seq(Lines(ids + 1))
    BY <1>2, RoomGrows, SeqMonotonic DEF LogInvariant, FileTypes
  <2>. HIDE DEF line
  <2>. QED
    BY <1>1, <1>2, <2>1, <2>2, AppendProperties, EmptySeq, LenProperties DEF Last
<1>4. frames' # <<>> /\ Head(frames') = frame
  <2>1. frame \in Frames(ids + 1)
    BY <1>1, <1>2 DEF LogInvariant, MemoryTypes, Frames, Stages, Kinds
  <2>2. frames \in Seq(Frames(ids + 1))
    BY <1>2, RoomGrows, SeqMonotonic DEF LogInvariant, MemoryTypes
  <2>. HIDE DEF frame
  <2>. QED
    BY <1>1, <2>1, <2>2, InFront
<1>5. line.id = ids + 1 /\ line.kind = kind /\ line.cut = cut /\ frame.id = ids + 1
      /\ frame.stage = "written"
  OBVIOUS
<1>. HIDE DEF line, frame, n
<1>6. \A i \in 1..n : file[i].id \in 1..ids
  BY <1>2 DEF Lines
<1>7. \A i \in 1..n + 1 : i \in 1..n \/ i = n + 1
  BY <1>2
<1>8. Ordered'
  BY <1>2, <1>3, <1>5, <1>6, <1>7 DEF TablesInvariant, Ordered, n
<1>9. FrameIsLast'
  BY <1>3, <1>4, <1>5 DEF FrameIsLast
<1>10. \A i \in 1..n : Sane => file[i].id \in Rows \/ file[i].cut = "newline"
  BY DEF TablesInvariant, Materialized, At, n
<1>11. Sane' <=> Sane
  BY <1>1 DEF Sane
<1>12. Materialized'
  <2>1. ~At("materialized")' /\ Rows' = Rows
    BY <1>1, <1>4, <1>5 DEF At, Rows
  <2>. QED
    BY <1>3, <1>4, <1>7, <1>10, <1>11, <2>1 DEF Materialized
<1>13. InOrder'
  <2>0. SUFFICES ASSUME Sane PROVE WithoutGaps(file', tables)
    BY <1>1, <1>11 DEF InOrder
  <2>. SUFFICES ASSUME NEW k \in 1..Len(tables), NEW m \in 1..n + 1,
                       Intact(file', m), file'[m].id = tables[k], NEW i \in 1..m
                PROVE  \E j \in 1..k : tables[j] = file'[i].id
    BY <1>3 DEF WithoutGaps
  <2>1. tables[k] \in 1..ids
    BY Elements DEF LogInvariant, FileTypes
  <2>2. m \in 1..n
    BY <1>2, <1>3, <1>5, <1>7, <2>1
  <2>3. i \in 1..n /\ \A j \in 1..m : j \in 1..n
    BY <1>2, <2>2
  <2>4. Intact(file, m) /\ file[m].id = tables[k]
    BY <1>3, <2>2, <2>3 DEF Intact
  <2>5. \E j \in 1..k : tables[j] = file[i].id
    <3>1. WithoutGaps(file, tables)
      BY <2>0 DEF TablesInvariant, InOrder
    <3>. QED
      BY <2>2, <2>4, <3>1 DEF WithoutGaps, n
  <2>. QED
    BY <1>3, <2>3, <2>5
<1>14. MarkerNames'
  <2>1. marker.lines \in Nat /\ phase # "refused" /\ marker.lines <= n
    BY <1>1, <1>2 DEF LogInvariant, FileTypes, TablesInvariant, MarkerNames, n
  <2>2. marker.lines # 0 => marker.lines \in 1..n
    BY <1>2, <2>1
  <2>. QED
    BY <1>1, <1>2, <1>3, <2>1, <2>2 DEF TablesInvariant, MarkerNames, NoMarker, n
<1>15. CutSealsSynced'
  BY <1>1, <1>3, <1>5, <1>7 DEF TablesInvariant, CutSealsSynced, n
<1>16. SealedOnce'
  <2>. SUFFICES ASSUME survived' = {},
                       NEW i \in DOMAIN file', file'[i].kind = "seal", file'[i].cut # "newline",
                       NEW j \in DOMAIN file', file'[j].kind = "seal", file'[j].cut # "newline"
                PROVE  i = j
    BY Zenon DEF SealedOnce
  <2>. survived = {} /\ i \in 1..n + 1 /\ j \in 1..n + 1
    BY <1>1, <1>3
  <2>1. Sane
    BY DEF Sane
  <2>2. CASE kind = "seal"
    <3>1. ASSUME NEW h \in 1..n, file[h].kind = "seal" PROVE file[h].cut = "newline"
      BY <1>2, <1>10, <2>1, <2>2, <3>1 DEF SealMissing, Rows
    <3>. QED
      BY <1>3, <1>7, <3>1
  <2>3. CASE kind # "seal"
    <3>1. i \in 1..n /\ j \in 1..n
      BY <1>3, <1>5, <1>7, <2>3
    <3>. QED
      BY <1>2, <1>3, <3>1 DEF TablesInvariant, SealedOnce
  <2>. QED
    BY <2>2, <2>3
<1>. QED
  BY <1>8, <1>9, <1>12, <1>13, <1>14, <1>15, <1>16 DEF TablesInvariant

(* Up to its transaction the running write is the one line still missing. *)
LEMMA StageKeepsTables ==
    ASSUME LogInvariant, TablesInvariant, LogInvariant',
           frames # <<>>, ~At("materialized"),
           NEW stage \in Stages \ {"materialized"}, Advance(stage),
           UNCHANGED <<file, tables, marker, phase, survived>>, synced' \in {synced, Len(file)}
    PROVE  TablesInvariant'
<1>1. phase = "up"
  BY DEF LogInvariant, MemoryTypes
<1>2. Ordered' /\ InOrder' /\ MarkerNames' /\ CutSealsSynced' /\ SealedOnce'
  BY <1>1, SameTables
<1>3. frames' # <<>> /\ Head(frames').id = Head(frames).id /\ Head(frames').stage = stage
  BY Advanced
<1>4. FrameIsLast'
  BY <1>3 DEF TablesInvariant, FrameIsLast
<1>5. Materialized'
  BY <1>3 DEF TablesInvariant, Materialized, At, Sane, Rows
<1>. QED
  BY <1>2, <1>4, <1>5 DEF TablesInvariant

(* The transaction adds the row of the last line, when all others are there. *)
LEMMA MaterializeKeepsTables ==
    ASSUME LogInvariant, TablesInvariant, LogInvariant', Materialize
    PROVE  TablesInvariant'
<1>. DEFINE n == Len(file)
            t == Len(tables)
            id == Head(frames).id
<1>1. /\ frames # <<>> /\ Head(frames).stage = "projected"
      /\ tables' = Append(tables, id) /\ Advance("materialized")
      /\ UNCHANGED <<file, synced, marker, phase, survived, ids>>
  BY DEF Materialize, CallbackDue, At, history
<1>2. phase = "up" /\ ~At("materialized")
  BY <1>1 DEF LogInvariant, MemoryTypes, At
<1>3. /\ n \in Nat /\ file # <<>> /\ (file = <<>> <=> n = 0) /\ file[n].id = id
      /\ n \in 1..n
  <2>1. /\ n \in Nat /\ file # <<>> /\ (file = <<>> <=> n = 0) /\ file[n].id = id
    BY <1>1, FileAndFrame DEF TablesInvariant, FrameIsLast, Last
  <2>. QED
    BY <2>1
<1>4. /\ frames' # <<>> /\ Head(frames').id = id /\ Head(frames').stage = "materialized"
  BY <1>1, Advanced DEF Stages
<1>5. /\ t \in Nat /\ Len(tables') = t + 1
      /\ \A j \in 1..t : tables'[j] = tables[j]
      /\ tables'[t + 1] = id
  <2>1. id \in 1..ids /\ tables \in Seq(1..ids)
    BY <1>1, FileAndFrame DEF Frames, LogInvariant, FileTypes
  <2>. HIDE DEF id
  <2>. QED
    BY <1>1, <2>1, AppendProperties, LenProperties
<1>. HIDE DEF n, t, id
<1>6. \A r : r \in Rows' <=> r \in Rows \/ r = id
  <2>0. tables \in Seq(1..ids) /\ tables' \in Seq(1..ids')
    BY DEF LogInvariant, FileTypes
  <2>1. \A r : r \in Rows' <=> \E j \in 1..t + 1 : tables'[j] = r
    BY <1>5, <2>0, Elements DEF Rows
  <2>2. \A r : r \in Rows <=> \E j \in 1..t : tables[j] = r
    BY <2>0, Elements DEF Rows, t
  <2>3. \A j \in 1..t + 1 : j \in 1..t \/ j = t + 1
    BY <1>5
  <2>4. 1..t \subseteq 1..t + 1 /\ t + 1 \in 1..t + 1
    BY <1>5
  <2>. QED
    BY <1>5, <2>1, <2>2, <2>3, <2>4
<1>7. Ordered' /\ MarkerNames' /\ CutSealsSynced' /\ SealedOnce'
  BY <1>1 DEF TablesInvariant, Ordered, MarkerNames, CutSealsSynced, SealedOnce, NoMarker
<1>8. FrameIsLast'
  BY <1>1, <1>4 DEF TablesInvariant, FrameIsLast, id
<1>9. Sane' <=> Sane
  BY <1>1 DEF Sane
<1>10. \A i \in 1..n : Sane => file[i].id \in Rows' \/ file[i].cut = "newline"
  BY <1>2, <1>3, <1>6 DEF TablesInvariant, Materialized, n
<1>11. Materialized'
  BY <1>1, <1>9, <1>10 DEF Materialized, n
<1>12. InOrder'
  <2>. SUFFICES ASSUME Sane, NEW k \in 1..t + 1, NEW m \in 1..n,
                       Intact(file, m), file[m].id = tables'[k], NEW i \in 1..m
                PROVE  \E j \in 1..k : tables'[j] = file[i].id
    <3>1. SUFFICES ASSUME Sane PROVE WithoutGaps(file, tables')
      BY <1>1, <1>9 DEF InOrder
    <3>. QED
      BY <1>5, <3>1 DEF WithoutGaps, n
  <2>1. CASE k \in 1..t
    <3>0. WithoutGaps(file, tables) /\ file[m].id = tables[k]
      BY <1>5, <2>1 DEF TablesInvariant, InOrder
    <3>1. PICK j \in 1..k : tables[j] = file[i].id
      BY <2>1, <3>0 DEF WithoutGaps, n, t
    <3>2. j \in 1..t
      BY <1>5, <2>1
    <3>. QED
      BY <1>5, <3>1, <3>2
  <2>2. CASE k = t + 1
    <3>1. i \in 1..n /\ file[i].cut # "newline"
      BY <1>3 DEF Intact
    <3>2. file[i].id \in Rows'
      BY <1>10, <3>1
    <3>. QED
      <4>1. tables' \in Seq(1..ids')
        BY DEF LogInvariant, FileTypes
      <4>2. \A r : r \in Rows' <=> \E j \in 1..t + 1 : tables'[j] = r
        BY <1>5, <4>1, Elements DEF Rows
      <4>. QED
        BY <2>2, <3>2, <4>2
  <2>. QED
    BY <1>5, <2>1, <2>2
<1>. QED
  BY <1>7, <1>8, <1>11, <1>12 DEF TablesInvariant
(* The tables lose their end, and the marker still names what they had. *)
LEMMA PowerLossKeepsTables ==
    ASSUME LogInvariant, TablesInvariant, LogInvariant', PowerLoss
    PROVE  TablesInvariant'
<1>1. PICK n \in synced..Len(file) : synced' = n /\ Leaves(file', n)
  BY DEF PowerLoss, Leaves
<1>2. PICK t \in 0..Len(tables) : tables' = SubSeq(tables, 1, t)
  BY DEF PowerLoss
<1>3. /\ frames' = <<>> /\ phase' = "down" /\ phase # "refused"
      /\ marker' \in {marker, NoMarker} /\ survived' = survived
  BY DEF PowerLoss, LoseMemory, history
<1>4. /\ Len(file) \in Nat /\ synced \in Nat /\ n \in Nat /\ synced <= n /\ n <= Len(file)
      /\ Len(tables) \in Nat /\ t \in Nat /\ t <= Len(tables) /\ DOMAIN file = 1..Len(file)
  BY FileAndFrame, Elements DEF LogInvariant, FileTypes
<1>5. /\ Len(file') = n /\ DOMAIN file' = 1..n
      /\ \A i \in 1..n : /\ file'[i].id = file[i].id /\ file'[i].kind = file[i].kind
                         /\ \/ file'[i].cut = file[i].cut
                            \/ i = n /\ n > synced /\ file'[i].cut # "none"
  BY <1>1, LinesLeft, LenProperties
<1>6. Len(tables') = t /\ \A j \in 1..t : tables'[j] = tables[j]
  BY <1>2, RowsLeft
<1>7. \A i \in 1..n : i \in 1..Len(file)
  BY <1>4
<1>8. Ordered'
  BY <1>5, <1>7 DEF TablesInvariant, Ordered
<1>9. FrameIsLast' /\ Materialized'
  BY <1>3 DEF FrameIsLast, Materialized
<1>10. InOrder'
  <2>1. SUFFICES ASSUME Sane PROVE WithoutGaps(file', tables')
    BY <1>3 DEF InOrder, Sane
  <2>. SUFFICES ASSUME NEW k \in 1..t, NEW m \in 1..n,
                       Intact(file', m), file'[m].id = tables'[k], NEW i \in 1..m
                PROVE  \E j \in 1..k : tables'[j] = file'[i].id
    BY <1>5, <1>6 DEF WithoutGaps
  <2>3. k \in 1..Len(tables) /\ m \in 1..Len(file) /\ i \in 1..n /\ \A j \in 1..k : j \in 1..t
    BY <1>4
  <2>4. \A h \in 1..m : file[h].cut = "none"
    <3>1. \A h \in 1..m : h \in 1..n /\ file'[h].cut = "none"
      BY <1>4 DEF Intact
    <3>. QED
      BY <1>5, <3>1
  <2>5. \E j \in 1..k : tables[j] = file[i].id
    <3>1. WithoutGaps(file, tables)
      BY <2>1 DEF TablesInvariant, InOrder
    <3>2. Intact(file, m)
      BY <2>4 DEF Intact
    <3>3. file[m].id = tables[k]
      BY <1>5, <1>6
    <3>. QED
      BY <2>3, <3>1, <3>2, <3>3 DEF WithoutGaps
  <2>. QED
    BY <1>5, <1>6, <2>3, <2>5
<1>11. MarkerNames'
  <2>1. CASE marker' = marker
    BY <1>3, <1>5, <1>7, <2>1 DEF TablesInvariant, MarkerNames, NoMarker
  <2>2. CASE marker' = NoMarker
    BY <1>3, <2>2 DEF MarkerNames, NoMarker
  <2>. QED
    BY <1>3, <2>1, <2>2
<1>12. CutSealsSynced'
  BY <1>1, <1>4, <1>5 DEF CutSealsSynced
<1>13. SealedOnce'
  <2>1. ASSUME NEW i \in 1..n, file'[i].kind = "seal", file'[i].cut # "newline"
        PROVE  i \in DOMAIN file /\ file[i].kind = "seal" /\ file[i].cut # "newline"
    <3>1. file[i].kind = "seal" /\ i \in 1..Len(file)
      BY <1>5, <1>7, <2>1
    <3>2. ASSUME file[i].cut = "newline" PROVE FALSE
      <4>1. i = n /\ n > synced
        BY <1>5, <2>1, <3>2
      <4>2. i <= synced
        BY <3>1, <3>2 DEF TablesInvariant, CutSealsSynced
      <4>. QED
        BY <1>4, <4>1, <4>2
    <3>. QED
      BY <1>4, <3>1, <3>2
  <2>. SUFFICES ASSUME survived' = {},
                       NEW i \in DOMAIN file', file'[i].kind = "seal", file'[i].cut # "newline",
                       NEW j \in DOMAIN file', file'[j].kind = "seal", file'[j].cut # "newline"
                PROVE  i = j
    BY Zenon DEF SealedOnce
  <2>2. i \in 1..n /\ j \in 1..n /\ survived = {}
    BY <1>3, <1>5
  <2>3. /\ i \in DOMAIN file /\ file[i].kind = "seal" /\ file[i].cut # "newline"
        /\ j \in DOMAIN file /\ file[j].kind = "seal" /\ file[j].cut # "newline"
    BY <2>1, <2>2
  <2>. QED
    BY <2>2, <2>3, Zenon DEF TablesInvariant, SealedOnce
<1>. QED
  BY <1>8, <1>9, <1>10, <1>11, <1>12, <1>13 DEF TablesInvariant
(* The replay reads up to the first torn line; a boot that comes up has at most *)
(* a last line left over, and starts behind nothing that it cannot read.        *)
LEMMA BootBounds ==
    ASSUME LogInvariant, ~HistoryLost, ~Unreadable
    PROVE  /\ Readable \in 0..Len(file) /\ Len(file) \in Nat
           /\ ~(Readable < Len(file) - 1) /\ marker.lines <= Readable
           /\ marker.lines \in Nat /\ StartLine \in Nat /\ StartLine <= Readable
<1>1. /\ file \in Seq(Lines(ids)) /\ Len(file) \in Nat /\ marker.lines \in Nat
  BY FileAndFrame DEF LogInvariant, FileTypes
<1>2. Readable \in 0..Len(file)
  BY <1>1, ReadableLines
<1>3. PICK r \in 0..Len(file) : r = Readable
  BY <1>2
<1>4. ~(r < Len(file) - 1)
  BY <1>3 DEF Unreadable
<1>5. ~(marker.lines > r)
  BY <1>1, <1>3, <1>4 DEF HistoryLost
<1>6. StartLine = marker.lines \/ StartLine = 0
  BY DEF StartLine
<1>. QED
  BY <1>1, <1>3, <1>4, <1>5, <1>6

(* Where a boot may start: everything before is in the tables. *)
LEMMA RowsBeforeStart ==
    ASSUME LogInvariant, TablesInvariant, Sane, ~HistoryLost, ~Unreadable
    PROVE  \A i \in 1..StartLine : file[i].id \in Rows
<1>1. CASE StartLine = 0
  BY <1>1
<1>2. CASE StartLine # 0
  <2>1. marker # NoMarker /\ marker.hash = MetaHash(tables) /\ StartLine = marker.lines
    BY <1>2 DEF StartLine
  <2>2. PICK m \in Nat : m = marker.lines
    BY BootBounds
  <2>3. m \in 1..Len(file) /\ m <= Readable
    BY <1>2, <2>1, <2>2, BootBounds
  <2>4. file[m].id = marker.hash /\ marker.hash # 0
    BY <1>2, <2>1, <2>2, <2>3 DEF TablesInvariant, MarkerNames, Sane
  <2>5. /\ tables \in Seq(1..ids) /\ Len(tables) \in Nat
        /\ \A r : r \in Rows <=> \E j \in 1..Len(tables) : tables[j] = r
    BY Elements DEF LogInvariant, FileTypes, Rows
  <2>6. tables # <<>> /\ tables[Len(tables)] = file[m].id
    BY <2>1, <2>4 DEF MetaHash, Genesis, Last
  <2>7. Len(tables) \in 1..Len(tables)
    BY <2>5, <2>6, EmptySeq
  <2>8. Intact(file, m)
    <3>1. file \in Seq(Lines(ids))
      BY DEF LogInvariant, FileTypes
    <3>2. \A i \in 1..Readable : file[i].cut = "none"
      BY <3>1, ReadableLines
    <3>3. \A i \in 1..m : i \in 1..Readable
      BY <2>3, BootBounds
    <3>. QED
      BY <3>2, <3>3 DEF Intact
  <2>9. \A i \in 1..m : \E j \in 1..Len(tables) : tables[j] = file[i].id
    <3>1. WithoutGaps(file, tables)
      BY DEF TablesInvariant, InOrder
    <3>. QED
      BY <2>3, <2>6, <2>7, <2>8, <3>1 DEF WithoutGaps
  <2>. QED
    BY <2>1, <2>2, <2>5, <2>9
<1>. QED
  BY <1>1, <1>2

(* The rows a replay adds, by their places. *)
LEMMA RowsReplayed ==
    ASSUME LogInvariant, Replay, StartLine \in Nat, StartLine <= Readable
    PROVE  /\ Len(tables') = Len(tables) + (Readable - StartLine)
           /\ \A j \in 1..Len(tables) : tables'[j] = tables[j]
           /\ \A p \in StartLine + 1..Readable :
                tables'[Len(tables) + (p - StartLine)] = file[p].id
<1>. DEFINE s == StartLine
            r == Readable
            t == Len(tables)
            g == SubSeq(file, s + 1, r)
<1>1. /\ file \in Seq(Lines(ids)) /\ Len(file) \in Nat /\ ids \in Nat
      /\ \A i \in 1..Len(file) : file[i] \in Lines(ids)
  BY FileAndFrame DEF LogInvariant, FileTypes
<1>2. r \in 0..Len(file) /\ r \in Nat /\ r <= Len(file)
  BY <1>1, ReadableLines
<1>3. tables \in Seq(1..ids) /\ t \in Nat
  BY Elements DEF LogInvariant, FileTypes
<1>. HIDE DEF s, r, t
<1>4. s \in Nat /\ s <= r
  BY DEF s, r
<1>5. /\ Len(g) = r - s /\ DOMAIN g = 1..r - s
      /\ \A i \in 1..r - s : g[i] = file[s + i]
  <2>1. \A i \in s + 1..r : file[i] \in Lines(ids)
    BY <1>1, <1>2, <1>4
  <2>2. s + 1 <= r \/ r - s = 0
    BY <1>2, <1>4
  <2>3. /\ g \in Seq(Lines(ids))
        /\ Len(g) = IF s + 1 <= r THEN r - (s + 1) + 1 ELSE 0
        /\ \A i \in 1..r - (s + 1) + 1 : g[i] = file[(s + 1) + i - 1]
    BY <1>2, <1>4, <2>1, SubSeqProperties
  <2>4. Len(g) = r - s
    BY <1>2, <1>4, <2>2, <2>3
  <2>5. \A i \in 1..r - s : i \in 1..r - (s + 1) + 1 /\ (s + 1) + i - 1 = s + i
    BY <1>2, <1>4
  <2>6. \A i \in 1..r - s : g[i] = file[s + i]
    BY <2>3, <2>5
  <2>. QED
    BY <2>3, <2>4, <2>6, LenProperties
<1>. HIDE DEF g
<1>6. /\ IdsOf(g) \in Seq(1..ids) /\ Len(IdsOf(g)) = r - s
      /\ \A i \in 1..r - s : IdsOf(g)[i] = file[s + i].id
  <2>1. IdsOf(g) = [i \in 1..r - s |-> g[i].id]
    BY <1>5 DEF IdsOf
  <2>2. \A i \in 1..r - s : g[i].id \in 1..ids
    <3>1. \A i \in 1..r - s : s + i \in 1..Len(file)
      BY <1>1, <1>2, <1>4
    <3>2. \A i \in 1..Len(file) : file[i].id \in 1..ids
      BY <1>1 DEF Lines
    <3>. QED
      BY <1>5, <3>1, <3>2
  <2>3. r - s \in Nat
    BY <1>2, <1>4
  <2>4. IdsOf(g) \in Seq(1..ids)
    <3>1. PICK n \in Nat : n = r - s
      BY <2>3
    <3>2. IdsOf(g) = [i \in 1..n |-> g[i].id] /\ \A i \in 1..n : g[i].id \in 1..ids
      BY <2>1, <2>2, <3>1
    <3>. QED
      BY <3>2, IsASeq
  <2>5. Len([i \in 1..r - s |-> g[i].id]) = r - s
    BY <2>3
  <2>. QED
    BY <1>5, <2>1, <2>4, <2>5
<1>7. tables' = tables \o IdsOf(g)
  BY DEF Replay, g, s, r
<1>8. /\ Len(tables') = t + (r - s)
      /\ \A j \in 1..t + (r - s) :
           tables'[j] = IF j <= t THEN tables[j] ELSE IdsOf(g)[j - t]
  <2>. DEFINE h == IdsOf(g)
  <2>1. tables \in Seq(1..ids) /\ h \in Seq(1..ids) /\ Len(h) = r - s
    BY <1>3, <1>6
  <2>. HIDE DEF h
  <2>2. /\ Len(tables \o h) = Len(tables) + Len(h)
        /\ \A j \in 1..Len(tables) + Len(h) :
             (tables \o h)[j] = IF j <= Len(tables) THEN tables[j] ELSE h[j - Len(tables)]
    BY <2>1, ConcatProperties
  <2>3. tables' = tables \o h
    BY <1>7 DEF h
  <2>4. /\ Len(tables') = t + (r - s)
        /\ \A j \in 1..t + (r - s) :
             tables'[j] = IF j <= t THEN tables[j] ELSE h[j - t]
    BY <2>1, <2>2, <2>3 DEF t
  <2>. QED
    BY <2>4 DEF h
<1>9. \A j \in 1..t : j \in 1..t + (r - s) /\ j <= t
  BY <1>2, <1>3, <1>4
<1>10. \A p \in s + 1..r : /\ t + (p - s) \in 1..t + (r - s) /\ ~(t + (p - s) <= t)
                           /\ (t + (p - s)) - t = p - s /\ p - s \in 1..r - s /\ s + (p - s) = p
  BY <1>2, <1>3, <1>4
<1>11. \A p \in s + 1..r : tables'[t + (p - s)] = file[p].id
  BY <1>6, <1>8, <1>10
<1>. QED
  BY <1>8, <1>9, <1>11 DEF s, r, t
(* What a boot that comes up has materialized: every line it could read. *)
LEMMA AllReadableInRows ==
    ASSUME LogInvariant, TablesInvariant, LogInvariant', Sane, Boot
    PROVE  \A i \in 1..Readable : file[i].id \in Rows'
<1>1. ~HistoryLost /\ ~Unreadable /\ Replay
  BY DEF Boot
<1>2. StartLine \in Nat /\ StartLine <= Readable /\ Readable \in Nat
  BY <1>1, BootBounds
<1>3. tables \in Seq(1..ids) /\ tables' \in Seq(1..ids')
  BY DEF LogInvariant, FileTypes
<1>4. /\ Len(tables) \in Nat
      /\ \A q : q \in Rows <=> \E j \in 1..Len(tables) : tables[j] = q
  BY <1>3, Elements DEF Rows
<1>5. \A q : q \in Rows' <=> \E j \in 1..Len(tables') : tables'[j] = q
  BY <1>3, Elements DEF Rows
<1>6. /\ Len(tables') = Len(tables) + (Readable - StartLine)
      /\ \A j \in 1..Len(tables) : tables'[j] = tables[j]
      /\ \A p \in StartLine + 1..Readable :
           tables'[Len(tables) + (p - StartLine)] = file[p].id
  BY <1>1, <1>2, RowsReplayed
<1>7. ASSUME NEW i \in 1..Readable PROVE file[i].id \in Rows'
  <2>1. CASE i \in 1..StartLine
    <3>1. PICK j \in 1..Len(tables) : tables[j] = file[i].id
      BY <1>1, <1>4, <2>1, RowsBeforeStart
    <3>2. j \in 1..Len(tables') /\ tables'[j] = file[i].id
      BY <1>2, <1>4, <1>6, <3>1
    <3>. QED
      BY <1>5, <3>2
  <2>2. CASE i \in StartLine + 1..Readable
    <3>1. Len(tables) + (i - StartLine) \in 1..Len(tables')
      BY <1>2, <1>4, <1>6, <2>2
    <3>. QED
      BY <1>5, <1>6, <2>2, <3>1
  <2>. QED
    BY <1>2, <2>1, <2>2
<1>. QED
  BY <1>7

(* A boot fills the gaps behind its start, in the order of the log. *)
LEMMA BootKeepsTables ==
    ASSUME LogInvariant, TablesInvariant, LogInvariant', Boot
    PROVE  TablesInvariant'
<1>1. /\ phase = "down" /\ phase' = "up" /\ ~HistoryLost /\ ~Unreadable /\ Replay
      /\ frames = <<>> /\ UNCHANGED <<file, synced, frames, survived, ids>>
  BY DEF Boot, LogInvariant, MemoryTypes
<1>2. /\ Readable \in 0..Len(file) /\ Len(file) \in Nat
      /\ marker.lines <= Readable /\ marker.lines \in Nat
      /\ StartLine \in Nat /\ StartLine <= Readable /\ Readable \in Nat /\ Readable <= Len(file)
  BY <1>1, BootBounds
<1>3. Sane' <=> survived = {}
  BY <1>1 DEF Sane
<1>4. Sane' => Sane
  BY <1>1 DEF Sane
<1>5. Ordered' /\ FrameIsLast' /\ CutSealsSynced' /\ SealedOnce'
  BY <1>1 DEF TablesInvariant, Ordered, FrameIsLast, CutSealsSynced, SealedOnce
<1>6. Materialized'
  <2>. SUFFICES ASSUME Sane', NEW i \in 1..Len(file)
                PROVE  file[i].id \in Rows' \/ file[i].cut = "newline"
    BY <1>1 DEF Materialized
  <2>1. i <= Readable \/ file[i].cut = "newline"
    BY <1>1, BootReads
  <2>2. \A h \in 1..Readable : file[h].id \in Rows'
    BY <1>4, AllReadableInRows
  <2>. QED
    BY <1>2, <2>1, <2>2
<1>7. InOrder'
  <2>1. SUFFICES ASSUME Sane' PROVE WithoutGaps(file, tables')
    BY <1>1 DEF InOrder
  <2>. DEFINE s == StartLine
              r == Readable
              t == Len(tables)
  <2>2. /\ Len(tables') = t + (r - s) /\ \A j \in 1..t : tables'[j] = tables[j]
        /\ \A p \in s + 1..r : tables'[t + (p - s)] = file[p].id
    BY <1>1, <1>2, RowsReplayed
  <2>3. /\ t \in Nat /\ \A q : q \in Rows <=> \E j \in 1..t : tables[j] = q
    <3>1. tables \in Seq(1..ids)
      BY DEF LogInvariant, FileTypes
    <3>. QED
      BY <3>1, Elements DEF Rows
  <2>4. \A i \in 1..s : file[i].id \in Rows
    BY <1>1, <1>4, <2>1, RowsBeforeStart
  <2>5. WithoutGaps(file, tables)
    BY <1>4, <2>1 DEF TablesInvariant, InOrder
  <2>6. s \in Nat /\ r \in Nat /\ s <= r /\ r <= Len(file)
    BY <1>2
  <2>. HIDE DEF s, r, t
  <2>. SUFFICES ASSUME NEW k \in 1..t + (r - s), NEW m \in 1..Len(file),
                       Intact(file, m), file[m].id = tables'[k], NEW i \in 1..m
                PROVE  \E j \in 1..k : tables'[j] = file[i].id
    BY <2>2 DEF WithoutGaps
  <2>7. CASE k \in 1..t
    <3>1. PICK j \in 1..k : tables[j] = file[i].id
      BY <2>2, <2>5, <2>7 DEF WithoutGaps, t
    <3>2. j \in 1..t
      BY <2>3, <2>7
    <3>. QED
      BY <2>2, <3>1, <3>2
  <2>8. CASE ~(k \in 1..t)
    <3>1. PICK p \in s + 1..r : k = t + (p - s)
      <4>1. s + (k - t) \in s + 1..r /\ k = t + ((s + (k - t)) - s)
        BY <2>3, <2>6, <2>8
      <4>. QED
        BY <4>1
    <3>2. p \in 1..Len(file) /\ file[p].id = file[m].id
      BY <1>2, <2>2, <2>6, <3>1
    <3>3. p = m
      BY <3>2, LinesDiffer DEF TablesInvariant
    <3>4. CASE i \in 1..s
      <4>1. PICK j \in 1..t : tables[j] = file[i].id
        BY <2>3, <2>4, <3>4
      <4>2. j \in 1..k
        BY <2>3, <2>6, <3>1
      <4>. QED
        BY <2>2, <4>1, <4>2
    <3>5. CASE i \in s + 1..r
      <4>1. t + (i - s) \in 1..k
        BY <2>3, <2>6, <3>1, <3>3, <3>5
      <4>. QED
        BY <2>2, <3>5, <4>1
    <3>. QED
      BY <2>6, <3>1, <3>3, <3>4, <3>5
  <2>. QED
    BY <2>7, <2>8
<1>8. MarkerNames'
  <2>1. CASE marker' = marker
    BY <1>1, <1>2, <2>1 DEF TablesInvariant, MarkerNames, NoMarker
  <2>2. CASE /\ ~(StartLine >= Readable)
             /\ marker' = [lines |-> Readable, hash |-> file[Readable].id]
    <3>1. Readable \in 1..Len(file)
      BY <1>2, <2>2
    <3>2. file[Readable].id # 0
      BY <3>1, FileAndFrame DEF Lines
    <3>3. marker'.lines = Readable /\ marker'.hash = file[Readable].id
      BY <2>2
    <3>. QED
      BY <1>1, <1>2, <3>1, <3>2, <3>3 DEF MarkerNames
  <2>. QED
    BY <1>1, <2>1, <2>2 DEF Replay
<1>. QED
  BY <1>5, <1>6, <1>7, <1>8 DEF TablesInvariant

(* A running write that is cut off leaves the rows it had not made missing, in *)
(* a process that is down or whose caller survived.                            *)
LEMMA CutOffKeepsTables ==
    ASSUME LogInvariant, TablesInvariant, LogInvariant', phase = "up", frames' = <<>>,
           UNCHANGED disk, survived \subseteq survived', phase' \in {"up", "down"},
           phase' = "up" => survived' # {} \/ At("materialized")
    PROVE  TablesInvariant'
<1>1. Ordered' /\ InOrder' /\ MarkerNames' /\ CutSealsSynced' /\ SealedOnce'
  BY SameTables DEF disk
<1>2. FrameIsLast'
  BY DEF FrameIsLast
<1>3. Materialized'
  BY DEF TablesInvariant, Materialized, Sane, Rows, disk, At
<1>. QED
  BY <1>1, <1>2, <1>3 DEF TablesInvariant

LEMMA ThrowKeepsTables ==
    ASSUME LogInvariant, TablesInvariant, LogInvariant', Throw
    PROVE  TablesInvariant'
<1>1. UNCHANGED disk /\ frames # <<>>
  BY DEF Throw, At
<1>2. phase = "up"
  BY <1>1 DEF LogInvariant, MemoryTypes
<1>3. CASE /\ frames' = <<>> /\ survived' = survived \cup {Head(frames).stage}
           /\ UNCHANGED phase
  BY <1>1, <1>2, <1>3, CutOffKeepsTables
<1>4. CASE LoseMemory /\ UNCHANGED survived
  BY <1>1, <1>2, <1>4, CutOffKeepsTables DEF LoseMemory
<1>. QED
  BY <1>3, <1>4 DEF Throw

(* A refused boot is the end, whatever it has materialized. *)
LEMMA RefusedKeepsTables ==
    ASSUME LogInvariant, TablesInvariant, BootRefuses
    PROVE  TablesInvariant'
<1>1. /\ phase' = "refused" /\ UNCHANGED <<file, synced, frames, survived>>
  BY DEF BootRefuses, history
<1>. QED
  BY <1>1 DEF TablesInvariant, Ordered, FrameIsLast, Materialized, InOrder, MarkerNames,
              CutSealsSynced, SealedOnce, Sane

LEMMA TablesStep ==
    LogInvariant /\ LogInvariant' /\ TablesInvariant /\ [Next]_vars => TablesInvariant'
<1>. SUFFICES ASSUME LogInvariant, LogInvariant', TablesInvariant, [Next]_vars
              PROVE  TablesInvariant'
  OBVIOUS
<1>1. CASE WriteAct
  BY <1>1, PushKeepsTables DEF WriteAct, Kinds, Cuts
<1>2. CASE ShortWrite
  BY <1>2, PushKeepsTables DEF ShortWrite, Kinds, Cuts
<1>3. CASE Seal
  <2>1. phase = "up"
    BY <1>3 DEF Seal, At, LogInvariant, MemoryTypes
  <2>. QED
    BY <1>3, <2>1, PushKeepsTables DEF Seal, SealsOrigin, Kinds, Cuts
<1>4. CASE Fsync
  BY <1>4, StageKeepsTables DEF Fsync, At, Stages, Synced
<1>5. CASE ApplyReducers
  BY <1>5, StageKeepsTables DEF ApplyReducers, At, Stages, disk, history
<1>6. CASE Materialize
  BY <1>6, MaterializeKeepsTables
<1>7. CASE Return
  <2>1. phase = "up"
    BY <1>7 DEF Return, At, LogInvariant, MemoryTypes
  <2>. QED
    BY <1>7, <2>1, CutOffKeepsTables DEF Return, history
<1>8. CASE Throw
  BY <1>8, ThrowKeepsTables
<1>9. CASE ProcessCrash
  BY <1>9, CutOffKeepsTables DEF ProcessCrash, LoseMemory, history
<1>10. CASE PowerLoss
  BY <1>10, PowerLossKeepsTables
<1>11. CASE Boot
  BY <1>11, BootKeepsTables
<1>12. CASE BootRefuses
  BY <1>12, RefusedKeepsTables
<1>13. CASE UNCHANGED vars
  <2>1. UNCHANGED <<file, synced, frames, tables, marker, phase, survived>>
    BY <1>13 DEF vars
  <2>. QED
    BY <2>1 DEF TablesInvariant, Ordered, FrameIsLast, Materialized, InOrder, MarkerNames,
                CutSealsSynced, SealedOnce, Sane, Rows, At, NoMarker
<1>. QED
  BY <1>1, <1>2, <1>3, <1>4, <1>5, <1>6, <1>7, <1>8, <1>9, <1>10, <1>11, <1>12, <1>13 DEF Next

(* What tables and marker say of the log holds in every state. *)
THEOREM TablesInvariantHolds == Spec => []TablesInvariant
BY LogInvariantHolds, TablesInit, TablesStep, PTL DEF Spec

(* A player's origin is sealed once, whatever dies in between and however far *)
(* the tables lag: maybeSealOriginFromReceipt looks when every earlier seal   *)
(* is a row, unless a caller survived a failed write.                         *)
THEOREM OriginSealedOnce == Spec => []SealedOnce
<1>1. TablesInvariant => SealedOnce
  BY DEF TablesInvariant
<1>. QED
  BY <1>1, TablesInvariantHolds, PTL

(* A boot that comes up has every receipt it could read in the tables,     *)
(* wherever its marker let it start: what a power loss took from the tables *)
(* is what the marker no longer matches.                                   *)
THEOREM BootRebuilds == Spec => BootRebuildsTables
<1>1. LogInvariant /\ TablesInvariant /\ LogInvariant' /\ [Next]_vars =>
        [Boot /\ survived = {} => ToSet(projected') \subseteq ToSet(tables')]_vars
  <2>. SUFFICES ASSUME LogInvariant, TablesInvariant, LogInvariant', Boot, survived = {}
                PROVE  ToSet(projected') \subseteq ToSet(tables')
    OBVIOUS
  <2>1. Sane
    BY DEF Boot, Sane
  <2>2. \A i \in 1..Readable : file[i].id \in ToSet(tables')
    BY <2>1, AllReadableInRows DEF Rows
  <2>3. /\ file \in Seq(Lines(ids)) /\ ids \in Nat
        /\ 0 \in Nat /\ Readable \in 0..Len(file)
    BY FileAndFrame, ReadableLines DEF LogInvariant, FileTypes
  <2>4. ToSet(RowsOf(file, 0, Readable)) = IdsBetween(file, 0, Readable)
    BY <2>3, IdsOfRange
  <2>5. projected' = RowsOf(file, 0, Readable) /\ 0 + 1 = 1
    BY DEF Boot, RowsOf
  <2>. QED
    BY <2>2, <2>4, <2>5 DEF IdsBetween
<1>. QED
  BY <1>1, LogInvariantHolds, TablesInvariantHolds, PTL DEF Spec, BootRebuildsTables

=============================================================================
