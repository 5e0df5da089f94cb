--------------------------- MODULE UslStoreProofs ---------------------------
(***************************************************************************)
(* Proofs about UslStore for every set of records, every frame size and    *)
(* every bound; where it is stated, under the assumption that the failures *)
(* injected are those the store handles.                                   *)
(***************************************************************************)
EXTENDS UslStore, FiniteSetTheorems, SequenceTheorems, TLAPS

-----------------------------------------------------------------------------
(* Cells, frames and the file operations.                                  *)

LEMMA SizeType ==
  ASSUME NEW r \in Records
  PROVE  FrameSize[r] \in Nat /\ FrameSize[r] >= 1
BY RecordsAssumption

LEMMA MetaFields ==
  ASSUME NEW m \in Metas
  PROVE  /\ m.seq \in Nat /\ m.rec \in Records /\ m.offset \in Nat
         /\ EndOf(m) \in Nat /\ EndOf(m) > m.offset
         /\ m = [seq |-> m.seq, rec |-> m.rec, offset |-> m.offset]
BY SizeType DEF Metas, EndOf

\* A frame in place is found by the scan, and by a read through its entry.
LEMMA IntactFrame ==
  ASSUME NEW f \in Seq(Cells), NEW m \in Metas, Intact(f, m)
  PROVE  /\ FrameAt(f, m.offset)
         /\ MetaAt(f, m.offset) = m
         /\ ReadAt(f, m) = m.rec
<1>1. /\ m.seq \in Nat /\ m.rec \in Records /\ m.offset \in Nat
      /\ FrameSize[m.rec] \in Nat /\ FrameSize[m.rec] >= 1
  BY MetaFields, SizeType
<1>2. f[m.offset + 1] = [seq |-> m.seq, rec |-> m.rec, part |-> 1]
  BY <1>1 DEF Intact
<1>3. MetaAt(f, m.offset) = m
  BY <1>2, MetaFields DEF MetaAt
<1>4. FrameAt(f, m.offset)
  BY <1>1, <1>2, <1>3 DEF FrameAt, Intact, EndOf
<1>5. ReadAt(f, m) = m.rec
  BY <1>2, <1>3, <1>4 DEF ReadAt
<1> QED
  BY <1>3, <1>4, <1>5

\* What the scan finds is a frame in place.
LEMMA FoundFrame ==
  ASSUME NEW f \in Seq(Cells), NEW o \in Nat, FrameAt(f, o)
  PROVE  /\ MetaAt(f, o) \in Metas
         /\ MetaAt(f, o).offset = o
         /\ Intact(f, MetaAt(f, o))
         /\ EndOf(MetaAt(f, o)) <= Len(f)
<1>1. f[o + 1] \in Cells
  BY DEF FrameAt
<1>2. f[o + 1].rec \in Records /\ f[o + 1].seq \in Nat
  BY <1>1, RecordsAssumption DEF FrameAt, Cells, Blank, HeaderCell
<1> QED
  BY <1>2 DEF FrameAt, MetaAt, Metas, Intact

LEMMA FrameType ==
  ASSUME NEW n \in Nat, NEW r \in Records, NEW i \in 1..FrameSize[r]
  PROVE  /\ Frame(n, r)[i] = [seq |-> n, rec |-> r, part |-> i]
         /\ Frame(n, r)[i] \in Cells
BY SizeType DEF Frame, Cells

LEMMA WrittenType ==
  ASSUME NEW f \in Seq(Cells), NEW at \in Nat, NEW n \in Nat,
         NEW c, \A i \in 1..n : c[i] \in Cells
  PROVE  /\ Written(f, at, c, n) \in Seq(Cells)
         /\ Len(Written(f, at, c, n)) = Larger(Len(f), at + n)
         /\ \A i \in 1..at : i <= Len(f) => Written(f, at, c, n)[i] = f[i]
         /\ \A i \in 1..n : Written(f, at, c, n)[at + i] = c[i]
<1> DEFINE len == Larger(Len(f), at + n)
           g == [i \in 1..len |->
                   IF i > at /\ i <= at + n THEN c[i - at]
                   ELSE IF i <= Len(f) THEN f[i] ELSE Blank]
<1>1. Written(f, at, c, n) = g
  BY DEF Written
<1>2. len \in Nat /\ len >= Len(f) /\ len >= at + n
  BY DEF Larger
<1>3. \A i \in 1..len : g[i] \in Cells
  BY <1>2 DEF Cells
<1>4. g \in Seq(Cells) /\ Len(g) = len
  BY <1>2, <1>3
<1> HIDE DEF len
<1>5. \A i \in 1..at : i <= Len(f) => g[i] = f[i]
  BY <1>2
<1>6. \A i \in 1..n : g[at + i] = c[i]
  BY <1>2
<1> QED
  BY <1>1, <1>4, <1>5, <1>6 DEF len

\* Writing behind a frame leaves it in place.
LEMMA WrittenKeeps ==
  ASSUME NEW f \in Seq(Cells), NEW at \in Nat, NEW n \in Nat,
         NEW c, \A i \in 1..n : c[i] \in Cells,
         NEW m \in Metas, EndOf(m) <= at, Intact(f, m)
  PROVE  Intact(Written(f, at, c, n), m)
<1>1. /\ m.offset \in Nat /\ FrameSize[m.rec] \in Nat
      /\ EndOf(m) = m.offset + FrameSize[m.rec]
  BY MetaFields, SizeType DEF EndOf
<1>2. /\ EndOf(m) <= Len(f)
      /\ \A i \in 1..FrameSize[m.rec] :
           f[m.offset + i] = [seq |-> m.seq, rec |-> m.rec, part |-> i]
  BY DEF Intact
<1> DEFINE g == Written(f, at, c, n)
<1>3. /\ Len(g) = Larger(Len(f), at + n)
      /\ \A i \in 1..at : i <= Len(f) => g[i] = f[i]
  BY WrittenType
<1> HIDE DEF g
<1>4. ASSUME NEW i \in 1..FrameSize[m.rec]
      PROVE  g[m.offset + i] = f[m.offset + i]
  <2>1. m.offset + i \in 1..at /\ m.offset + i <= Len(f)
    BY <1>1, <1>2
  <2> QED
    BY <2>1, <1>3
<1>5. EndOf(m) <= Len(g)
  BY <1>1, <1>2, <1>3 DEF Larger
<1> QED
  BY <1>2, <1>4, <1>5 DEF Intact, g

\* A complete write puts the frame in place.
LEMMA WrittenFrame ==
  ASSUME NEW f \in Seq(Cells), NEW at \in Nat, NEW n \in Nat, NEW r \in Records
  PROVE  Intact(Written(f, at, Frame(n, r), FrameSize[r]),
                [seq |-> n, rec |-> r, offset |-> at])
<1> DEFINE g == Written(f, at, Frame(n, r), FrameSize[r])
<1>1. /\ Len(g) = Larger(Len(f), at + FrameSize[r])
      /\ \A i \in 1..FrameSize[r] : g[at + i] = Frame(n, r)[i]
  <2>1. \A i \in 1..FrameSize[r] : Frame(n, r)[i] \in Cells
    BY FrameType
  <2>2. FrameSize[r] \in Nat
    BY SizeType
  <2> QED
    BY <2>1, <2>2, WrittenType
<1>2. \A i \in 1..FrameSize[r] : g[at + i] = [seq |-> n, rec |-> r, part |-> i]
  BY <1>1, FrameType
<1>3. at + FrameSize[r] <= Len(g)
  BY <1>1, SizeType DEF Larger
<1> HIDE DEF g
<1> QED
  BY <1>2, <1>3 DEF Intact, EndOf, g

LEMMA ResizedType ==
  ASSUME NEW f \in Seq(Cells), NEW n \in Nat
  PROVE  /\ Resized(f, n) \in Seq(Cells)
         /\ Len(Resized(f, n)) = n
         /\ \A i \in 1..n : i <= Len(f) => Resized(f, n)[i] = f[i]
<1>1. \A i \in 1..n : (IF i <= Len(f) THEN f[i] ELSE Blank) \in Cells
  BY DEF Cells
<1> QED
  BY <1>1 DEF Resized

LEMMA ResizedKeeps ==
  ASSUME NEW f \in Seq(Cells), NEW n \in Nat, NEW m \in Metas,
         EndOf(m) <= n, Intact(f, m)
  PROVE  Intact(Resized(f, n), m)
<1>1. /\ m.offset \in Nat /\ FrameSize[m.rec] \in Nat
      /\ EndOf(m) = m.offset + FrameSize[m.rec]
  BY MetaFields, SizeType DEF EndOf
<1>2. EndOf(m) <= Len(f)
  BY DEF Intact
<1>3. \A i \in 1..FrameSize[m.rec] : Resized(f, n)[m.offset + i] = f[m.offset + i]
  <2> TAKE i \in 1..FrameSize[m.rec]
  <2>1. m.offset + i \in 1..n /\ m.offset + i <= Len(f)
    BY <1>1, <1>2
  <2> QED
    BY <2>1, ResizedType
<1> QED
  BY <1>1, <1>3, ResizedType DEF Intact

\* A power loss that spares the first cells keeps every frame among them, and
\* nothing it leaves looks like a frame that was not there.
LEMMA SurvivingFrames ==
  ASSUME NEW f \in Seq(Cells), NEW n \in 0..Len(f), NEW lost \in SUBSET (1..n)
  PROVE  /\ Surviving(f, n, lost) \in Seq(Cells)
         /\ Len(Surviving(f, n, lost)) = n
         /\ \A o \in Nat : FrameAt(Surviving(f, n, lost), o) =>
              /\ FrameAt(f, o)
              /\ MetaAt(Surviving(f, n, lost), o) = MetaAt(f, o)
<1> DEFINE g == Surviving(f, n, lost)
<1>1. /\ g \in Seq(Cells) /\ Len(g) = n
      /\ \A i \in 1..n : g[i] = Blank \/ g[i] = f[i]
  <2>1. \A i \in 1..n : (IF i \in lost THEN Blank ELSE f[i]) \in Cells
    BY DEF Cells
  <2> QED
    BY <2>1 DEF Surviving
<1>2. \A r \in Records : r # NoRec
  BY RecordsAssumption
<1> HIDE DEF g
<1>3. ASSUME NEW o \in Nat, FrameAt(g, o)
      PROVE  FrameAt(f, o) /\ MetaAt(g, o) = MetaAt(f, o)
  <2> DEFINE m == MetaAt(g, o)
  <2>1. /\ m \in Metas /\ m.offset = o /\ Intact(g, m) /\ EndOf(m) <= n
    BY <1>1, <1>3, FoundFrame
  <2>2. /\ m.rec \in Records /\ m.offset \in Nat /\ FrameSize[m.rec] \in Nat
        /\ EndOf(m) = m.offset + FrameSize[m.rec]
    BY <2>1, MetaFields, SizeType DEF EndOf
  <2> HIDE DEF m
  <2>3. ASSUME NEW i \in 1..FrameSize[m.rec]
        PROVE  f[m.offset + i] = [seq |-> m.seq, rec |-> m.rec, part |-> i]
    <3>1. m.offset + i \in 1..n
      BY <2>1, <2>2
    <3>2. g[m.offset + i] = [seq |-> m.seq, rec |-> m.rec, part |-> i]
      BY <2>1 DEF Intact
    <3>3. g[m.offset + i] # Blank
      BY <1>2, <2>2, <3>2 DEF Blank
    <3> QED
      BY <1>1, <3>1, <3>2, <3>3
  <2>4. Intact(f, m)
    BY <2>1, <2>2, <2>3 DEF Intact
  <2> QED
    BY <2>1, <2>4, IntactFrame DEF m
<1> QED
  BY <1>1, <1>3 DEF g

LEMMA SurvivingKeeps ==
  ASSUME NEW f \in Seq(Cells), NEW k \in Nat, NEW n \in k..Len(f),
         NEW lost \in SUBSET ((k + 1)..n),
         NEW m \in Metas, EndOf(m) <= k, Intact(f, m)
  PROVE  Intact(Surviving(f, n, lost), m)
<1>1. /\ m.offset \in Nat /\ FrameSize[m.rec] \in Nat
      /\ EndOf(m) = m.offset + FrameSize[m.rec]
  BY MetaFields, SizeType DEF EndOf
<1>2. n \in 0..Len(f) /\ lost \in SUBSET (1..n)
  OBVIOUS
<1>3. Len(Surviving(f, n, lost)) = n
  BY <1>2, SurvivingFrames
<1>4. ASSUME NEW i \in 1..FrameSize[m.rec]
      PROVE  Surviving(f, n, lost)[m.offset + i] = f[m.offset + i]
  <2>1. m.offset + i \in 1..n /\ m.offset + i \notin lost
    BY <1>1
  <2> QED
    BY <2>1 DEF Surviving
<1> QED
  BY <1>1, <1>3, <1>4 DEF Intact

-----------------------------------------------------------------------------
(* The layout of the log.                                                  *)

LEMMA LaidEmpty == Laid({}, 0, DataStart)
BY DEF Laid

LEMMA LaidEnd ==
  ASSUME NEW S \in SUBSET Metas, NEW n \in Nat, NEW end \in Nat, Laid(S, n, end)
  PROVE  end >= DataStart
<1>1. CASE n = 0
  BY <1>1 DEF Laid, DataStart
<1>2. CASE n # 0
  <2>1. n - 1 \in 0..(n - 1)
    BY <1>2
  <2>2. PICK x \in S : x.seq = n - 1
    BY <2>1 DEF Laid
  <2>3. EndOf(x) \in Nat /\ EndOf(x) > x.offset /\ x.offset \in Nat
    BY MetaFields
  <2>4. DataStart <= x.offset /\ EndOf(x) <= end
    BY <2>2 DEF Laid
  <2> QED
    BY <2>3, <2>4 DEF DataStart
<1> QED
  BY <1>1, <1>2

\* Appending at the end of a log extends the log.
LEMMA LaidPush ==
  ASSUME NEW S \in SUBSET Metas, NEW n \in Nat, NEW end \in Nat, Laid(S, n, end),
         NEW r \in Records
  PROVE  Laid(S \cup {[seq |-> n, rec |-> r, offset |-> end]},
              n + 1, end + FrameSize[r])
<1> DEFINE m == [seq |-> n, rec |-> r, offset |-> end]
           T == S \cup {m}
<1>1. /\ m.seq = n /\ m.offset = end /\ EndOf(m) = end + FrameSize[r]
      /\ FrameSize[r] \in Nat /\ FrameSize[r] >= 1
  BY SizeType DEF EndOf
<1>2. \A x \in S : x.seq \in Nat /\ x.offset \in Nat /\ EndOf(x) \in Nat
  BY MetaFields
<1>3. end >= DataStart
  BY LaidEnd
<1> HIDE DEF m
<1>4. \A x \in T : x.seq < n + 1 /\ DataStart <= x.offset /\ EndOf(x) <= end + FrameSize[r]
  BY <1>1, <1>2, <1>3 DEF Laid, DataStart
<1>5. \A k \in 0..n : \E x \in T : x.seq = k
  <2> TAKE k \in 0..n
  <2>1. CASE k = n
    BY <1>1, <2>1
  <2>2. CASE k # n
    BY <2>2 DEF Laid
  <2> QED
    BY <2>1, <2>2
<1>6. \A x, y \in T : x.seq = y.seq => x = y
  BY <1>1, <1>2 DEF Laid
<1>7. \A x \in T : x.seq = 0 => x.offset = DataStart
  BY <1>1, <1>2 DEF Laid
<1>8. \A x, y \in T : y.seq = x.seq + 1 => y.offset = EndOf(x)
  <2> TAKE x \in T, y \in T
  <2> HAVE y.seq = x.seq + 1
  <2>1. CASE x \in S /\ y \in S
    BY <2>1 DEF Laid
  <2>2. CASE x = m
    BY <1>1, <1>2, <2>2 DEF Laid
  <2>3. CASE x \in S /\ y = m
    BY <1>1, <1>2, <2>3 DEF Laid
  <2> QED
    BY <2>1, <2>2, <2>3
<1>9. \A x \in T : x.seq = n => EndOf(x) = end + FrameSize[r]
  BY <1>1, <1>2 DEF Laid
<1> QED
  BY <1>4, <1>5, <1>6, <1>7, <1>8, <1>9 DEF Laid, m

\* A whole log is an unbroken run.
LEMMA LaidGapless ==
  ASSUME NEW S \in SUBSET Metas, NEW n \in Nat, NEW end \in Nat, Laid(S, n, end)
  PROVE  Gapless(S)
<1>1. \A x \in S : x.seq \in Nat /\ x.seq < n
  BY MetaFields DEF Laid
<1>2. ASSUME S # {}
      PROVE  \E m \in S : m.seq = 0 /\ m.offset = DataStart
  <2>1. 0 \in 0..(n - 1)
    BY <1>1, <1>2
  <2>2. PICK m \in S : m.seq = 0
    BY <2>1 DEF Laid
  <2> QED
    BY <2>2 DEF Laid
<1>3. ASSUME NEW m \in S, NEW y \in S, m.seq < y.seq
      PROVE  \E x \in S : x.seq = m.seq + 1 /\ x.offset = EndOf(m)
  <2>1. m.seq + 1 \in 0..(n - 1)
    BY <1>1, <1>3
  <2>2. PICK x \in S : x.seq = m.seq + 1
    BY <2>1 DEF Laid
  <2> QED
    BY <2>2 DEF Laid
<1> QED
  BY <1>2, <1>3 DEF Gapless

\* A scan of a file that holds a log finds nothing but that log.
LEMMA LaidClosed ==
  ASSUME NEW f \in Seq(Cells),
         NEW S \in SUBSET Metas, NEW n \in Nat, NEW end \in Nat, Laid(S, n, end),
         \A m \in S : Intact(f, m), ~FrameAt(f, end)
  PROVE  Closed(f, S)
<1>1. \A x \in S : x.seq \in Nat /\ x.seq < n
  BY MetaFields DEF Laid
<1>2. \A x \in S : MetaAt(f, x.offset) = x
  BY IntactFrame
<1>3. ASSUME FrameAt(f, DataStart)
      PROVE  MetaAt(f, DataStart) \in S /\ MetaAt(f, DataStart).seq = 0
  <2>1. n # 0
    BY <1>3 DEF Laid
  <2>2. PICK m \in S : m.seq = 0
    BY <2>1 DEF Laid
  <2>3. m.offset = DataStart
    BY <2>2 DEF Laid
  <2> QED
    BY <1>2, <2>2, <2>3
<1>4. ASSUME NEW m \in S, FrameAt(f, EndOf(m))
      PROVE  MetaAt(f, EndOf(m)) \in S /\ MetaAt(f, EndOf(m)).seq = m.seq + 1
  <2>1. m.seq # n - 1
    BY <1>4 DEF Laid
  <2>2. m.seq + 1 \in 0..(n - 1)
    BY <1>1, <2>1
  <2>3. PICK x \in S : x.seq = m.seq + 1
    BY <2>2 DEF Laid
  <2>4. x.offset = EndOf(m)
    BY <2>3 DEF Laid
  <2> QED
    BY <1>2, <2>3, <2>4
<1> QED
  BY <1>3, <1>4 DEF Closed

\* The sessions of a finite index can be counted.
LEMMA FiniteSessions ==
  ASSUME NEW S \in SUBSET Metas, IsFiniteSet(S)
  PROVE  IsFiniteSet(SessionsIn(S)) /\ Cardinality(SessionsIn(S)) \in Nat
<1> DEFINE f == [m \in S |-> SessionOf[m.rec]]
<1>1. f \in Surjection(S, SessionsIn(S))
  BY DEF Surjection, SessionsIn
<1>2. IsFiniteSet(SessionsIn(S))
  BY <1>1, FS_Surjection
<1> QED
  BY <1>2, FS_CardinalityType

\* append's incremental count is the recomputed one.
LEMMA SessionsPush ==
  ASSUME NEW S \in SUBSET Metas, IsFiniteSet(S), NEW m \in Metas
  PROVE  Cardinality(SessionsIn(S \cup {m})) =
           IF SessionOf[m.rec] \in SessionsIn(S)
           THEN Cardinality(SessionsIn(S)) ELSE Cardinality(SessionsIn(S)) + 1
<1>1. SessionsIn(S \cup {m}) = SessionsIn(S) \cup {SessionOf[m.rec]}
  BY DEF SessionsIn
<1> QED
  BY <1>1, FiniteSessions, FS_AddElement

-----------------------------------------------------------------------------
(* The invariant holds initially and every action preserves it.            *)

LEMMA InitInv == Init => IInv
<1> SUFFICES ASSUME Init PROVE IInv
  OBVIOUS
<1>1. Len(file) \in {0, 1} /\ file \in Seq(Cells)
  <2>1. HeaderCell \in Cells
    BY DEF Cells
  <2>2. CASE file = <<>>
    BY <2>2
  <2>3. CASE file = <<HeaderCell>>
    BY <2>1, <2>3
  <2> QED
    BY <2>2, <2>3 DEF Init
<1>2. TypeOK
  <2>1. saved \in [end : Nat, seq : Nat]
    BY DEF Init, DataStart
  <2>2. todo \in Seq(Records)
    BY DEF Init
  <2>3. synced \in 0..Len(file) /\ faults \in 0..MaxFaults
    BY <1>1, BoundsAssumption DEF Init
  <2>4. /\ pos \in Nat /\ dataEnd \in Nat /\ nextSeq \in Nat /\ sessionCount \in Nat
        /\ truncation \in BOOLEAN
        /\ pc \in {"down", "scan", "ready", "batch", "undo", "header"}
    BY DEF Init, DataStart
  <2>5. index = {} /\ acked = {} /\ stable = {} /\ seen = {} /\ IsFiniteSet(index)
        /\ undone = {} /\ cutLogs = {}
    BY FS_EmptySet DEF Init
  <2> QED
    BY <1>1, <2>1, <2>2, <2>3, <2>4, <2>5 DEF TypeOK
<1>3. StableInv
  BY DEF Init, StableInv, Gapless
<1>4. ClosedInv
  BY <1>1 DEF Init, ClosedInv, Gapless, Closed, FrameAt, DataStart
<1>5. OpenInv /\ ScanInv
  BY DEF Init, OpenInv, ScanInv
<1>6. UndoneInv
  BY DEF Init, UndoneInv
<1> QED
  BY <1>2, <1>3, <1>4, <1>5, <1>6 DEF IInv

\* Steps that neither cut nor sync keep what a power loss may bring back.
LEMMA UndoneKept ==
  ASSUME UndoneInv, UNCHANGED <<stable, undone, cutLogs>>
  PROVE  UndoneInv'
BY DEF UndoneInv, Closed

\* What a cut leaves behind is a file with a sound log that holds what is
\* stable.
LEMMA CutUndone ==
  ASSUME UndoneInv, Cut, stable' = stable, stable \subseteq index,
         \A m \in index : Intact(file, m),
         \A m1, m2 \in index : m1.seq = m2.seq => m1 = m2,
         Closed(file, index)
  PROVE  UndoneInv'
<1> DEFINE w == [file |-> file, frames |-> index, todo |-> <<>>]
<1>1. undone' = undone \cup {w} /\ cutLogs' = cutLogs \cup {index}
  BY DEF Cut
<1>2. w.file = file /\ w.frames = index
  OBVIOUS
<1> HIDE DEF w
<1>3. \A s \in cutLogs' : stable' \subseteq s
  BY <1>1 DEF UndoneInv
<1>4. ASSUME NEW v \in undone'
      PROVE  /\ v.frames \in cutLogs'
             /\ stable' \subseteq v.frames
             /\ \A m \in stable' : Intact(v.file, m)
             /\ \A m1, m2 \in v.frames : m1.seq = m2.seq => m1 = m2
             /\ Closed(v.file, v.frames)
  <2>1. CASE v \in undone
    BY <1>1, <2>1 DEF UndoneInv
  <2>2. CASE v = w
    BY <1>1, <1>2, <2>2
  <2> QED
    BY <1>1, <1>4, <2>1, <2>2
<1> QED
  BY <1>3, <1>4 DEF UndoneInv

LEMMA CutType ==
  ASSUME TypeOK, Cut \/ UNCHANGED <<undone, cutLogs>>
  PROVE  /\ undone' \subseteq [file : Seq(Cells), frames : SUBSET Metas, todo : {<<>>}]
         /\ cutLogs' \subseteq SUBSET Metas
BY DEF TypeOK, Cut

LEMMA OpenStep == IInv /\ Open => IInv'
<1> SUFFICES ASSUME IInv, Open PROVE IInv'
  OBVIOUS
<1> USE DEF IInv
<1>1. TypeOK'
  BY FS_EmptySet DEF TypeOK, Open, call, history, DataStart
<1>2. StableInv'
  BY DEF StableInv, Open, history, Gapless
<1>3. ClosedInv'
  BY DEF ClosedInv, Open, history
<1>4. ScanInv'
  <2>1. pc' = "scan" /\ index' = {} /\ nextSeq' = 0 /\ dataEnd' = DataStart
        /\ acked' = acked /\ seen' = seen /\ file' = file
    BY DEF Open, history
  <2>2. Laid(index', nextSeq', dataEnd')
    BY <2>1, LaidEmpty
  <2>3. CASE acked = {}
    BY <2>1, <2>2, <2>3 DEF ScanInv
  <2>4. CASE acked # {}
    <3>1. PICK x \in acked : x.seq = 0 /\ x.offset = DataStart
      BY <2>4 DEF ClosedInv, Gapless, Open
    <3>2. \A y \in acked : y.seq \in Nat
      BY MetaFields DEF TypeOK
    <3>3. \A y \in acked : ~(y.seq < x.seq)
      BY <3>1, <3>2
    <3> QED
      BY <2>1, <2>2, <3>1, <3>3 DEF ScanInv
  <2> QED
    BY <2>3, <2>4
<1>5. OpenInv'
  BY DEF OpenInv, Open
<1>6. UndoneInv'
  BY UndoneKept DEF Open, history
<1> QED
  BY <1>1, <1>2, <1>3, <1>4, <1>5, <1>6

\* What the scan reads next is the next frame of the log it follows.
LEMMA ScanFollows ==
  ASSUME IInv, pc = "scan", FrameAt(file, dataEnd)
  PROVE  LET m == MetaAt(file, dataEnd) IN
         /\ m \in Metas /\ m \in seen /\ Intact(file, m)
         /\ m = [seq |-> nextSeq, rec |-> m.rec, offset |-> dataEnd]
         /\ m.rec \in Records
<1> DEFINE m == MetaAt(file, dataEnd)
<1> USE DEF IInv
<1>1. /\ m \in Metas /\ m.offset = dataEnd /\ Intact(file, m)
  BY FoundFrame DEF TypeOK
<1>2. Laid(index, nextSeq, dataEnd) /\ index \subseteq seen /\ Closed(file, seen)
  BY DEF ScanInv, ClosedInv
<1>3. m \in seen /\ m.seq = nextSeq
  <2>1. CASE nextSeq = 0
    BY <1>2, <2>1 DEF Laid, Closed
  <2>2. CASE nextSeq # 0
    <3>1. nextSeq - 1 \in 0..(nextSeq - 1)
      BY <2>2 DEF TypeOK
    <3>2. PICK p \in index : p.seq = nextSeq - 1
      BY <1>2, <3>1 DEF Laid
    <3>3. EndOf(p) = dataEnd
      BY <1>2, <3>2 DEF Laid
    <3>4. p \in seen /\ p.seq + 1 = nextSeq
      BY <1>2, <3>2 DEF TypeOK
    <3> QED
      BY <1>2, <3>3, <3>4 DEF Closed
  <2> QED
    BY <2>1, <2>2
<1> QED
  BY <1>1, <1>3, MetaFields

LEMMA ScanFrameStep == IInv /\ ScanFrame => IInv'
<1> SUFFICES ASSUME IInv, ScanFrame PROVE IInv'
  OBVIOUS
<1> USE DEF IInv
<1> DEFINE m == MetaAt(file, dataEnd)
<1>1. /\ pc = "scan" /\ pc' = "scan" /\ file' = file /\ FrameAt(file, dataEnd)
      /\ acked' = acked /\ seen' = seen /\ stable' = stable /\ synced' = synced
      /\ index' = index \cup {m} /\ dataEnd' = EndOf(m)
      /\ nextSeq' = IF m.seq >= nextSeq THEN m.seq + 1 ELSE nextSeq
  BY DEF ScanFrame, history
<1>2. /\ m \in Metas /\ m \in seen /\ Intact(file, m)
      /\ m = [seq |-> nextSeq, rec |-> m.rec, offset |-> dataEnd]
      /\ m.rec \in Records
  BY <1>1, ScanFollows
<1> HIDE DEF m
<1>3. /\ m.seq = nextSeq /\ m.offset = dataEnd
      /\ EndOf(m) = dataEnd + FrameSize[m.rec]
      /\ nextSeq' = nextSeq + 1
  BY <1>1, <1>2 DEF EndOf, TypeOK
<1>4. TypeOK'
  <2>1. EndOf(m) \in Nat
    BY <1>2, MetaFields
  <2>2. IsFiniteSet(index')
    BY <1>1, FS_AddElement DEF TypeOK
  <2> QED
    BY <1>1, <1>2, <1>3, <2>1, <2>2 DEF TypeOK, ScanFrame, call, history, m
<1>5. StableInv'
  BY <1>1 DEF StableInv, Gapless
<1>6. ClosedInv'
  BY <1>1 DEF ClosedInv
<1>7. OpenInv'
  BY <1>1 DEF OpenInv
<1>8. ScanInv'
  <2>1. Laid(index', nextSeq', dataEnd')
    <3>1. /\ Laid(index, nextSeq, dataEnd) /\ index \in SUBSET Metas
          /\ nextSeq \in Nat /\ dataEnd \in Nat
      BY <1>1 DEF ScanInv, TypeOK
    <3>2. Laid(index \cup {[seq |-> nextSeq, rec |-> m.rec, offset |-> dataEnd]},
               nextSeq + 1, dataEnd + FrameSize[m.rec])
      BY <1>2, <3>1, LaidPush
    <3> QED
      BY <1>1, <1>2, <1>3, <3>2
  <2>2. index' \subseteq seen /\ \A x \in index' : Intact(file, x)
    BY <1>1, <1>2 DEF ScanInv
  <2>3. \/ acked \subseteq index'
        \/ \E x \in acked : /\ x.offset = EndOf(m)
                            /\ \A y \in acked : y.seq < x.seq => y \in index'
    <3>1. CASE acked \subseteq index
      BY <1>1, <3>1
    <3>2. CASE ~(acked \subseteq index)
      <4>1. PICK x \in acked : /\ x.offset = dataEnd
                              /\ \A y \in acked : y.seq < x.seq => y \in index
        BY <1>1, <3>2 DEF ScanInv
      <4>2. x = m
        BY <1>1, <4>1, IntactFrame DEF ClosedInv, TypeOK, m
      <4>3. \A y \in acked : y.seq \in Nat
        BY MetaFields DEF TypeOK
      <4>4. \A y \in acked : y.seq <= m.seq => y \in index'
        BY <1>1, <4>1, <4>2, <4>3 DEF ClosedInv
      <4>5. CASE \E y \in acked : m.seq < y.seq
        <5>1. PICK z \in acked : z.seq = m.seq + 1 /\ z.offset = EndOf(m)
          BY <1>1, <4>1, <4>2, <4>5 DEF ClosedInv, Gapless
        <5>2. \A y \in acked : y.seq < z.seq => y \in index'
          BY <4>2, <4>3, <4>4, <5>1
        <5> QED
          BY <5>1, <5>2
      <4>6. CASE ~\E y \in acked : m.seq < y.seq
        BY <4>2, <4>3, <4>4, <4>6
      <4> QED
        BY <4>5, <4>6
    <3> QED
      BY <3>1, <3>2
  <2> QED
    BY <1>1, <2>1, <2>2, <2>3 DEF ScanInv
<1>9. UndoneInv'
  BY UndoneKept DEF ScanFrame, history
<1> QED
  BY <1>4, <1>5, <1>6, <1>7, <1>8, <1>9

\* A scan that ends has found every frame a crash was not allowed to take.
LEMMA ScanDone ==
  ASSUME IInv, pc = "scan", ~FrameAt(file, dataEnd)
  PROVE  acked \subseteq index
<1>1. \A x \in acked : FrameAt(file, x.offset)
  BY IntactFrame DEF IInv, TypeOK, ClosedInv
<1> QED
  BY <1>1 DEF IInv, ScanInv

LEMMA ScanEndStep == IInv /\ ScanEnd => IInv'
<1> SUFFICES ASSUME IInv, ScanEnd PROVE IInv'
  OBVIOUS
<1> USE DEF IInv
<1>1. /\ pc = "scan" /\ pc' = "ready" /\ ~FrameAt(file, dataEnd)
      /\ index' = index /\ nextSeq' = nextSeq /\ dataEnd' = dataEnd
      /\ acked' = index /\ seen' = {} /\ stable' = stable
      /\ pos' = dataEnd /\ synced' = Smaller(synced, Len(file'))
      /\ file' = IF dataEnd < Len(file) THEN Resized(file, dataEnd) ELSE file
      /\ Cut \/ UNCHANGED <<undone, cutLogs>>
  BY DEF ScanEnd
<1>2. /\ file \in Seq(Cells) /\ Len(file) \in Nat /\ dataEnd \in Nat
      /\ synced \in 0..Len(file) /\ index \in SUBSET Metas
  BY DEF TypeOK
<1>3. /\ file' \in Seq(Cells) /\ Len(file') \in Nat /\ Len(file') <= dataEnd
      /\ Len(file') = dataEnd \/ Len(file') = Len(file)
  <2>1. CASE dataEnd < Len(file)
    <3>1. file' = Resized(file, dataEnd)
      BY <1>1, <2>1
    <3>2. file' \in Seq(Cells) /\ Len(file') = dataEnd
      BY <1>2, <3>1, ResizedType
    <3> QED
      BY <1>2, <3>2
  <2>2. CASE ~(dataEnd < Len(file))
    BY <1>1, <1>2, <2>2
  <2> QED
    BY <2>1, <2>2
<1>4. TypeOK'
  <2>1. synced' \in 0..Len(file')
    BY <1>1, <1>2, <1>3 DEF Smaller
  <2>2. sessionCount' \in Nat
    BY FiniteSessions, <1>1 DEF ScanEnd, TypeOK
  <2>3. truncation' \in BOOLEAN /\ todo' \in Seq(Records)
    BY DEF ScanEnd
  <2>4. /\ undone' \subseteq [file : Seq(Cells), frames : SUBSET Metas, todo : {<<>>}]
        /\ cutLogs' \subseteq SUBSET Metas
    BY <1>1, CutType DEF TypeOK
  <2> QED
    BY <1>1, <1>3, <2>1, <2>2, <2>3, <2>4 DEF TypeOK, ScanEnd
<1>5. acked \subseteq index
  BY <1>1, ScanDone
<1>6. Laid(index, nextSeq, dataEnd) /\ \A m \in index : Intact(file, m)
  BY <1>1 DEF ScanInv
<1>7. \A m \in index : Intact(file', m)
  <2>1. \A m \in index : EndOf(m) <= dataEnd
    BY <1>6 DEF Laid
  <2> QED
    BY <1>1, <1>2, <1>6, <2>1, ResizedKeeps
<1>8. StableInv'
  <2>1. \A m \in stable : EndOf(m) \in Nat /\ EndOf(m) <= synced /\ EndOf(m) <= dataEnd
    BY <1>1, <1>5, <1>6, MetaFields DEF StableInv, Laid, TypeOK
  <2>2. \A m \in stable : EndOf(m) <= synced'
    BY <1>1, <1>2, <1>3, <2>1 DEF Smaller
  <2> QED
    BY <1>1, <1>5, <2>2 DEF StableInv, Gapless
<1>9. OpenInv'
  <2>1. ~FrameAt(file', dataEnd)
    BY <1>2, <1>3 DEF FrameAt
  <2>2. sessionCount' = Cardinality(SessionsIn(index'))
    BY <1>1 DEF ScanEnd
  <2> QED
    BY <1>1, <1>3, <1>6, <1>7, <2>1, <2>2 DEF OpenInv
<1>10. ClosedInv' /\ ScanInv'
  BY <1>1 DEF ClosedInv, ScanInv
<1>11. UndoneInv'
  <2>1. stable \subseteq index
    BY <1>5 DEF StableInv
  <2>2. Closed(file, index)
    BY <1>1, <1>2, <1>6, LaidClosed DEF TypeOK
  <2>3. \A m1, m2 \in index : m1.seq = m2.seq => m1 = m2
    BY <1>6 DEF Laid
  <2> QED
    BY <1>1, <1>6, <2>1, <2>2, <2>3, CutUndone, UndoneKept
<1> QED
  BY <1>4, <1>8, <1>9, <1>10, <1>11

\* What an append to an open store does when its write completes.
LEMMA PushEffect ==
  ASSUME TypeOK, Laid(index, nextSeq, dataEnd), \A m \in index : Intact(file, m),
         sessionCount = Cardinality(SessionsIn(index)),
         pos = dataEnd, Len(file) <= dataEnd, NEW r \in Records, Push(r)
  PROVE  /\ file' \in Seq(Cells) /\ Len(file') = dataEnd' /\ Len(file) <= Len(file')
         /\ dataEnd' \in Nat /\ pos' = dataEnd' /\ nextSeq' = nextSeq + 1
         /\ index' = index \cup {[seq |-> nextSeq, rec |-> r, offset |-> dataEnd]}
         /\ index' \subseteq Metas /\ IsFiniteSet(index')
         /\ Laid(index', nextSeq', dataEnd')
         /\ \A m \in index' : Intact(file', m)
         /\ ~FrameAt(file', dataEnd')
         /\ sessionCount' \in Nat /\ sessionCount' = Cardinality(SessionsIn(index'))
<1> DEFINE m == [seq |-> nextSeq, rec |-> r, offset |-> dataEnd]
           n == FrameSize[r]
<1>1. /\ file \in Seq(Cells) /\ Len(file) \in Nat /\ pos \in Nat /\ dataEnd \in Nat
      /\ nextSeq \in Nat /\ index \in SUBSET Metas /\ IsFiniteSet(index)
      /\ n \in Nat /\ n >= 1 /\ m \in Metas /\ m.rec = r
  BY SizeType DEF TypeOK, Metas
<1>2. /\ file' = Written(file, dataEnd, Frame(nextSeq, r), n)
      /\ pos' = dataEnd + n /\ dataEnd' = dataEnd + n /\ nextSeq' = nextSeq + 1
      /\ index' = index \cup {m}
      /\ sessionCount' = IF SessionOf[m.rec] \in SessionsIn(index)
                         THEN sessionCount ELSE sessionCount + 1
  BY DEF Push
<1>3. \A i \in 1..n : Frame(nextSeq, r)[i] \in Cells
  BY <1>1, FrameType
<1> HIDE DEF n
<1>4. file' \in Seq(Cells) /\ Len(file') = Larger(Len(file), dataEnd + n)
  BY <1>1, <1>2, <1>3, WrittenType
<1>5. Len(file') = dataEnd + n /\ Len(file) <= Len(file') /\ dataEnd + n \in Nat
  BY <1>1, <1>4 DEF Larger
<1>6. Laid(index', nextSeq', dataEnd')
  <2>1. Laid(index \cup {m}, nextSeq + 1, dataEnd + n)
    BY <1>1, LaidPush DEF n
  <2> QED
    BY <1>2, <2>1
<1>7. Intact(file', m)
  BY <1>1, <1>2, WrittenFrame DEF n
<1>8. ASSUME NEW x \in index
      PROVE  Intact(file', x)
  <2>1. EndOf(x) <= dataEnd /\ x \in Metas /\ Intact(file, x)
    BY <1>1 DEF Laid
  <2> QED
    BY <1>1, <1>2, <1>3, <2>1, WrittenKeeps
<1>9. ~FrameAt(file', dataEnd')
  BY <1>2, <1>5 DEF FrameAt
<1>10. sessionCount' = Cardinality(SessionsIn(index')) /\ sessionCount' \in Nat
  <2>1. Cardinality(SessionsIn(index \cup {m})) =
           IF SessionOf[m.rec] \in SessionsIn(index)
           THEN Cardinality(SessionsIn(index)) ELSE Cardinality(SessionsIn(index)) + 1
    BY <1>1, SessionsPush
  <2>2. sessionCount \in Nat
    BY DEF TypeOK
  <2> HIDE DEF m
  <2> QED
    BY <1>2, <2>1, <2>2
<1>11. index' \subseteq Metas /\ IsFiniteSet(index')
  BY <1>1, <1>2, FS_AddElement
<1> QED
  BY <1>2, <1>4, <1>5, <1>6, <1>7, <1>8, <1>9, <1>10, <1>11

LEMMA BeginBatchStep ==
  ASSUME IInv, NEW b \in Batches, BeginBatch(b)
  PROVE  IInv'
<1> USE DEF IInv
<1>1. b \in Seq(Records)
  <2>1. PICK n \in 1..MaxBatch : b \in [1..n -> Records]
    BY DEF Batches
  <2> QED
    BY <2>1, BoundsAssumption
<1>2. /\ pc = "ready" /\ pc' = "batch" /\ todo' = b
      /\ saved' = [end |-> dataEnd, seq |-> nextSeq]
      /\ UNCHANGED <<file, synced, pos, mem, history, faults>>
  BY DEF BeginBatch
<1>3. TypeOK'
  BY <1>1, <1>2 DEF TypeOK, mem, history
<1>4. StableInv'
  BY <1>2 DEF StableInv, history, Gapless
<1>5. OpenInv'
  <2>1. \A m \in index : m.seq < nextSeq
    BY <1>2 DEF OpenInv, Laid
  <2>2. acked = TruncatedFrom(index, nextSeq)
    BY <1>2, <2>1 DEF OpenInv, TruncatedFrom
  <2>3. saved'.seq = nextSeq /\ saved'.end = dataEnd
    BY <1>2
  <2> QED
    BY <1>2, <2>2, <2>3 DEF OpenInv, mem, history
<1>6. ClosedInv' /\ ScanInv'
  BY <1>2 DEF ClosedInv, ScanInv
<1>7. UndoneInv'
  BY UndoneKept, <1>2 DEF history
<1> QED
  BY <1>3, <1>4, <1>5, <1>6, <1>7

LEMMA BatchWriteStep == IInv /\ BatchWrite => IInv'
<1> SUFFICES ASSUME IInv, BatchWrite PROVE IInv'
  OBVIOUS
<1> USE DEF IInv
<1> DEFINE r == Head(todo)
<1>1. /\ pc = "batch" /\ pc' = "batch" /\ todo # <<>> /\ Push(r) /\ todo' = Tail(todo)
      /\ saved' = saved /\ acked' = acked /\ stable' = stable /\ seen' = seen
      /\ faults' = faults /\ UNCHANGED <<undone, cutLogs>>
  BY DEF BatchWrite, history
<1>2. r \in Records /\ Tail(todo) \in Seq(Records)
  BY <1>1 DEF TypeOK
<1>3. synced' = synced /\ truncation' = truncation
  BY <1>1 DEF Push
<1> HIDE DEF r
<1>4. /\ file' \in Seq(Cells) /\ Len(file') = dataEnd' /\ Len(file) <= Len(file')
      /\ dataEnd' \in Nat /\ pos' = dataEnd' /\ nextSeq' = nextSeq + 1
      /\ index' = index \cup {[seq |-> nextSeq, rec |-> r, offset |-> dataEnd]}
      /\ index' \subseteq Metas /\ IsFiniteSet(index')
      /\ Laid(index', nextSeq', dataEnd')
      /\ \A m \in index' : Intact(file', m)
      /\ ~FrameAt(file', dataEnd')
      /\ sessionCount' \in Nat /\ sessionCount' = Cardinality(SessionsIn(index'))
  <2>1. /\ TypeOK /\ Laid(index, nextSeq, dataEnd) /\ \A m \in index : Intact(file, m)
        /\ sessionCount = Cardinality(SessionsIn(index))
        /\ pos = dataEnd /\ Len(file) <= dataEnd
    BY <1>1 DEF OpenInv
  <2> QED
    BY <1>1, <1>2, <2>1, PushEffect
<1>5. TypeOK'
  BY <1>1, <1>2, <1>3, <1>4 DEF TypeOK
<1>6. StableInv'
  BY <1>1, <1>3 DEF StableInv, Gapless
<1>7. OpenInv'
  <2>1. acked = TruncatedFrom(index, saved.seq) /\ Laid(acked, saved.seq, saved.end)
    BY <1>1 DEF OpenInv
  <2>2. saved.seq <= nextSeq
    <3>1. CASE saved.seq = 0
      BY <3>1 DEF TypeOK
    <3>2. CASE saved.seq # 0
      <4>1. saved.seq \in Nat /\ nextSeq \in Nat
        BY DEF TypeOK
      <4>2. saved.seq - 1 \in 0..(saved.seq - 1)
        BY <3>2, <4>1
      <4>3. PICK x \in acked : x.seq = saved.seq - 1
        BY <2>1, <4>2 DEF Laid
      <4>4. x \in index
        BY <2>1, <4>3 DEF TruncatedFrom
      <4>5. x.seq < nextSeq
        BY <1>1, <4>4 DEF OpenInv, Laid
      <4> QED
        BY <4>1, <4>3, <4>5
    <3> QED
      BY <3>1, <3>2
  <2>3. TruncatedFrom(index', saved.seq) = TruncatedFrom(index, saved.seq)
    <3>1. ~(nextSeq < saved.seq)
      BY <2>2 DEF TypeOK
    <3> QED
      BY <1>4, <3>1 DEF TruncatedFrom
  <2> QED
    BY <1>1, <1>4, <2>1, <2>3 DEF OpenInv
<1>8. ClosedInv' /\ ScanInv'
  BY <1>1 DEF ClosedInv, ScanInv
<1>9. UndoneInv'
  BY UndoneKept, <1>1
<1> QED
  BY <1>5, <1>6, <1>7, <1>8, <1>9

LEMMA BatchWriteFailsStep == IInv /\ BatchWriteFails => IInv'
<1> SUFFICES ASSUME IInv, BatchWriteFails PROVE IInv'
  OBVIOUS
<1> USE DEF IInv
<1> DEFINE r == Head(todo)
<1>1. PICK n \in 0..FrameSize[r] : TornWrite(r, n)
  BY DEF BatchWriteFails
<1>2. /\ pc = "batch" /\ pc' = "undo" /\ todo # <<>> /\ UNCHANGED <<call, history>>
      /\ faults < MaxFaults /\ faults' = faults + 1
  BY DEF BatchWriteFails, Failure
<1>3. r \in Records
  BY <1>2 DEF TypeOK
<1> HIDE DEF r
<1>4. /\ file \in Seq(Cells) /\ Len(file) \in Nat /\ dataEnd \in Nat /\ nextSeq \in Nat
      /\ pos = dataEnd /\ Len(file) <= dataEnd /\ Laid(index, nextSeq, dataEnd)
      /\ index \in SUBSET Metas
  BY <1>2 DEF TypeOK, OpenInv
<1>5. /\ FrameSize[r] \in Nat /\ n \in Nat /\ n < FrameSize[r]
      /\ file' = Written(file, dataEnd, Frame(nextSeq, r), n)
      /\ pos' = dataEnd + n /\ UNCHANGED <<synced, mem>>
  BY <1>1, <1>3, <1>4, SizeType DEF TornWrite
<1>6. \A i \in 1..n : Frame(nextSeq, r)[i] \in Cells
  <2> TAKE i \in 1..n
  <2>1. i \in 1..FrameSize[r]
    BY <1>5
  <2> QED
    BY <1>3, <1>4, <2>1, FrameType
<1>7. /\ file' \in Seq(Cells) /\ Len(file') = Larger(Len(file), dataEnd + n)
      /\ \A i \in 1..n : file'[dataEnd + i] = Frame(nextSeq, r)[i]
  BY <1>4, <1>5, <1>6, WrittenType
<1>8. Len(file') = dataEnd + n /\ Len(file) <= Len(file') /\ dataEnd + n \in Nat
  BY <1>4, <1>5, <1>7 DEF Larger
<1>9. \A m \in index : Intact(file', m)
  <2> TAKE x \in index
  <2>1. EndOf(x) <= dataEnd /\ x \in Metas /\ Intact(file, x)
    BY <1>2, <1>4 DEF Laid, OpenInv
  <2> QED
    BY <1>4, <1>5, <1>6, <2>1, WrittenKeeps
<1>10. ~FrameAt(file', dataEnd)
  <2> SUFFICES ASSUME FrameAt(file', dataEnd) PROVE FALSE
    OBVIOUS
  <2>1. n >= 1
    BY <1>4, <1>5, <1>8 DEF FrameAt
  <2>2. 1 \in 1..n /\ 1 \in 1..FrameSize[r]
    BY <1>5, <2>1
  <2>3. file'[dataEnd + 1] = [seq |-> nextSeq, rec |-> r, part |-> 1]
    BY <1>3, <1>4, <1>7, <2>2, FrameType
  <2>4. EndOf(MetaAt(file', dataEnd)) = dataEnd + FrameSize[r]
    BY <2>3 DEF MetaAt, EndOf
  <2>5. EndOf(MetaAt(file', dataEnd)) <= Len(file')
    BY DEF FrameAt, Intact
  <2> QED
    BY <1>4, <1>5, <1>8, <2>4, <2>5
<1>11. TypeOK'
  <2>1. faults' \in 0..MaxFaults
    BY <1>2, BoundsAssumption DEF TypeOK
  <2> QED
    BY <1>2, <1>5, <1>7, <1>8, <2>1 DEF TypeOK, mem, call, history
<1>12. StableInv'
  BY <1>2, <1>5 DEF StableInv, history, Gapless
<1>13. OpenInv'
  BY <1>2, <1>5, <1>9, <1>10 DEF OpenInv, mem, call, history
<1>14. ClosedInv' /\ ScanInv'
  BY <1>2 DEF ClosedInv, ScanInv
<1>15. UndoneInv'
  BY UndoneKept, <1>2 DEF history
<1> QED
  BY <1>11, <1>12, <1>13, <1>14, <1>15

LEMMA UndoStep == IInv /\ Undo => IInv'
<1> SUFFICES ASSUME IInv, Undo PROVE IInv'
  OBVIOUS
<1> USE DEF IInv
<1>1. /\ pc = "undo" /\ pc' = "ready"
      /\ file' = Resized(file, saved.end) /\ synced' = Smaller(synced, saved.end)
      /\ pos' = saved.end /\ dataEnd' = saved.end /\ nextSeq' = saved.seq
      /\ index' = TruncatedFrom(index, saved.seq)
      /\ sessionCount' = Cardinality(SessionsIn(index')) /\ todo' = <<>>
      /\ truncation' = truncation /\ saved' = saved /\ faults' = faults
      /\ acked' = acked /\ stable' = stable /\ seen' = seen /\ Cut
  BY DEF Undo, history
<1>2. /\ file \in Seq(Cells) /\ Len(file) \in Nat /\ synced \in 0..Len(file)
      /\ saved.end \in Nat /\ saved.seq \in Nat /\ index \in SUBSET Metas
      /\ IsFiniteSet(index)
  BY DEF TypeOK
<1>3. /\ acked = TruncatedFrom(index, saved.seq) /\ Laid(acked, saved.seq, saved.end)
      /\ \A m \in index : Intact(file, m)
  BY <1>1 DEF OpenInv
<1>4. index' = acked /\ index' \subseteq index
  BY <1>1, <1>3 DEF TruncatedFrom
<1>5. file' \in Seq(Cells) /\ Len(file') = saved.end
  BY <1>1, <1>2, ResizedType
<1>6. IsFiniteSet(index')
  BY <1>2, <1>4, FS_Subset
<1>7. TypeOK'
  <2>1. sessionCount' \in Nat
    BY <1>1, <1>2, <1>4, <1>6, FiniteSessions
  <2>2. synced' \in 0..Len(file')
    BY <1>1, <1>2, <1>5 DEF Smaller
  <2>3. /\ undone' \subseteq [file : Seq(Cells), frames : SUBSET Metas, todo : {<<>>}]
        /\ cutLogs' \subseteq SUBSET Metas
    BY <1>1, CutType DEF TypeOK
  <2> QED
    BY <1>1, <1>2, <1>4, <1>5, <1>6, <2>1, <2>2, <2>3 DEF TypeOK
<1>8. StableInv'
  <2> SUFFICES \A m \in stable : EndOf(m) <= synced'
    BY <1>1 DEF StableInv, Gapless
  <2> TAKE m \in stable
  <2>1. EndOf(m) <= synced /\ EndOf(m) <= saved.end
    BY <1>3 DEF StableInv, Laid
  <2> QED
    BY <1>1, <1>2, <2>1 DEF Smaller
<1>9. OpenInv'
  <2>1. \A m \in index' : Intact(file', m)
    <3> TAKE m \in index'
    <3>1. m \in Metas /\ Intact(file, m) /\ EndOf(m) <= saved.end
      BY <1>2, <1>3, <1>4 DEF Laid
    <3> QED
      BY <1>1, <1>2, <3>1, ResizedKeeps
  <2>2. ~FrameAt(file', dataEnd')
    BY <1>1, <1>2, <1>5 DEF FrameAt
  <2> QED
    BY <1>1, <1>2, <1>3, <1>4, <1>5, <2>1, <2>2 DEF OpenInv
<1>10. ClosedInv' /\ ScanInv'
  BY <1>1 DEF ClosedInv, ScanInv
<1>11. UndoneInv'
  <2>1. stable \subseteq index
    BY <1>3 DEF StableInv, TruncatedFrom
  <2>2. /\ Laid(index, nextSeq, dataEnd) /\ ~FrameAt(file, dataEnd)
        /\ nextSeq \in Nat /\ dataEnd \in Nat
    BY <1>1 DEF OpenInv, TypeOK
  <2>3. Closed(file, index)
    BY <1>2, <1>3, <2>2, LaidClosed
  <2>4. \A m1, m2 \in index : m1.seq = m2.seq => m1 = m2
    BY <2>2 DEF Laid
  <2> QED
    BY <1>1, <1>3, <2>1, <2>3, <2>4, CutUndone
<1> QED
  BY <1>7, <1>8, <1>9, <1>10, <1>11

LEMMA BatchDoneStep == IInv /\ BatchDone => IInv'
<1> SUFFICES ASSUME IInv, BatchDone PROVE IInv'
  OBVIOUS
<1> USE DEF IInv
<1>1. /\ pc = "batch" /\ pc' = "ready"
      /\ acked' = acked \cup {m \in index : m.seq >= saved.seq}
      /\ UNCHANGED <<file, synced, pos, mem, call, stable, seen, undone, cutLogs, faults>>
  BY DEF BatchDone
<1>2. acked' = index
  <2>1. acked = TruncatedFrom(index, saved.seq)
    BY <1>1 DEF OpenInv
  <2>2. \A m \in index : m.seq \in Nat /\ saved.seq \in Nat
    BY MetaFields DEF TypeOK
  <2> QED
    BY <1>1, <2>1, <2>2 DEF TruncatedFrom
<1>3. TypeOK'
  BY <1>1, <1>2 DEF TypeOK, mem, call
<1>4. StableInv'
  BY <1>1 DEF StableInv, Gapless
<1>5. OpenInv'
  BY <1>1, <1>2 DEF OpenInv, mem, call
<1>6. ClosedInv' /\ ScanInv'
  BY <1>1 DEF ClosedInv, ScanInv
<1>7. UndoneInv'
  BY UndoneKept, <1>1
<1> QED
  BY <1>3, <1>4, <1>5, <1>6, <1>7

LEMMA Append1Step ==
  ASSUME IInv, NEW r \in Records, Append1(r)
  PROVE  IInv'
<1> USE DEF IInv
<1>1. /\ pc = "ready" /\ pc' = "ready" /\ Push(r)
      /\ acked' = acked \cup (index' \ index)
      /\ UNCHANGED <<call, stable, seen, undone, cutLogs, faults>>
  BY DEF Append1
<1>2. synced' = synced /\ truncation' = truncation
  BY <1>1 DEF Push
<1>3. /\ file' \in Seq(Cells) /\ Len(file') = dataEnd' /\ Len(file) <= Len(file')
      /\ dataEnd' \in Nat /\ pos' = dataEnd' /\ nextSeq' = nextSeq + 1
      /\ index' = index \cup {[seq |-> nextSeq, rec |-> r, offset |-> dataEnd]}
      /\ index' \subseteq Metas /\ IsFiniteSet(index')
      /\ Laid(index', nextSeq', dataEnd')
      /\ \A m \in index' : Intact(file', m)
      /\ ~FrameAt(file', dataEnd')
      /\ sessionCount' \in Nat /\ sessionCount' = Cardinality(SessionsIn(index'))
  <2>1. /\ TypeOK /\ Laid(index, nextSeq, dataEnd) /\ \A m \in index : Intact(file, m)
        /\ sessionCount = Cardinality(SessionsIn(index))
        /\ pos = dataEnd /\ Len(file) <= dataEnd
    BY <1>1 DEF OpenInv
  <2> QED
    BY <1>1, <2>1, PushEffect
<1>4. acked' = index'
  BY <1>1, <1>3 DEF OpenInv
<1>5. TypeOK'
  BY <1>1, <1>2, <1>3, <1>4 DEF TypeOK, call
<1>6. StableInv'
  BY <1>1, <1>2 DEF StableInv, Gapless
<1>7. OpenInv'
  BY <1>1, <1>3, <1>4 DEF OpenInv
<1>8. ClosedInv' /\ ScanInv'
  BY <1>1 DEF ClosedInv, ScanInv
<1>9. UndoneInv'
  BY UndoneKept, <1>1
<1> QED
  BY <1>5, <1>6, <1>7, <1>8, <1>9

LEMMA SyncDataStep == IInv /\ SyncData => IInv'
<1> SUFFICES ASSUME IInv, SyncData PROVE IInv'
  OBVIOUS
<1> USE DEF IInv
<1>1. /\ pc = "ready" /\ pc' = "header" /\ synced' = Len(file) /\ stable' = acked
      /\ undone' = {} /\ cutLogs' = {}
      /\ UNCHANGED <<file, pos, mem, call, acked, seen, faults>>
  BY DEF SyncData
<1>2. /\ acked = index /\ Laid(index, nextSeq, dataEnd)
      /\ \A m \in index : Intact(file, m)
  BY <1>1 DEF OpenInv
<1>3. TypeOK'
  BY <1>1 DEF TypeOK, mem, call
<1>4. StableInv'
  <2>1. Gapless(acked)
    BY <1>2, LaidGapless DEF TypeOK
  <2>2. \A m \in acked : EndOf(m) <= Len(file)
    BY <1>2 DEF Intact
  <2> QED
    BY <1>1, <2>1, <2>2 DEF StableInv
<1>5. OpenInv'
  BY <1>1, <1>2 DEF OpenInv, mem, call
<1>6. ClosedInv' /\ ScanInv'
  BY <1>1 DEF ClosedInv, ScanInv
<1>7. UndoneInv'
  BY <1>1 DEF UndoneInv
<1> QED
  BY <1>3, <1>4, <1>5, <1>6, <1>7

\* Rewriting the header touches no frame.
LEMMA HeaderKeeps ==
  ASSUME NEW f \in Seq(Cells)
  PROVE  /\ Written(f, 0, <<HeaderCell>>, 1) \in Seq(Cells)
         /\ Len(Written(f, 0, <<HeaderCell>>, 1)) = Larger(Len(f), 1)
         /\ \A m \in Metas : DataStart <= m.offset /\ Intact(f, m)
              => Intact(Written(f, 0, <<HeaderCell>>, 1), m)
<1> DEFINE g == Written(f, 0, <<HeaderCell>>, 1)
<1>1. g \in Seq(Cells) /\ Len(g) = Larger(Len(f), 1)
  <2>1. \A i \in 1..1 : <<HeaderCell>>[i] \in Cells
    BY DEF Cells
  <2> QED
    BY <2>1, WrittenType
<1>2. \A i \in 2..Len(f) : g[i] = f[i]
  <2> TAKE i \in 2..Len(f)
  <2>1. i \in 1..Larger(Len(f), 0 + 1) /\ ~(i <= 0 + 1) /\ i <= Len(f)
    BY DEF Larger
  <2> QED
    BY <2>1 DEF Written
<1> HIDE DEF g
<1>3. ASSUME NEW m \in Metas, DataStart <= m.offset, Intact(f, m)
      PROVE  Intact(g, m)
  <2>1. /\ m.offset \in Nat /\ FrameSize[m.rec] \in Nat
        /\ EndOf(m) = m.offset + FrameSize[m.rec] /\ m.offset >= 1
        /\ EndOf(m) <= Len(f)
    BY <1>3, MetaFields, SizeType DEF EndOf, DataStart, Intact
  <2>2. ASSUME NEW i \in 1..FrameSize[m.rec]
        PROVE  g[m.offset + i] = f[m.offset + i]
    <3>1. m.offset + i \in 2..Len(f)
      BY <2>1
    <3> QED
      BY <1>2, <3>1
  <2>3. EndOf(m) <= Len(g)
    BY <1>1, <2>1 DEF Larger
  <2> QED
    BY <1>3, <2>2, <2>3 DEF Intact
<1> QED
  BY <1>1, <1>3 DEF g

LEMMA WriteHeaderStep == IInv /\ WriteHeader => IInv'
<1> SUFFICES ASSUME IInv, WriteHeader PROVE IInv'
  OBVIOUS
<1> USE DEF IInv
<1>1. /\ pc = "header" /\ pc' = "ready" /\ pos' = dataEnd
      /\ file' = Written(file, 0, <<HeaderCell>>, 1)
      /\ UNCHANGED <<synced, mem, call, history, faults>>
  BY DEF WriteHeader
<1>2. /\ file \in Seq(Cells) /\ Len(file) \in Nat /\ dataEnd \in Nat /\ nextSeq \in Nat
      /\ synced \in 0..Len(file) /\ index \in SUBSET Metas
      /\ Laid(index, nextSeq, dataEnd) /\ Len(file) <= dataEnd
      /\ \A m \in index : Intact(file, m)
  BY <1>1 DEF TypeOK, OpenInv
<1>3. dataEnd >= DataStart
  BY <1>2, LaidEnd
<1>4. /\ file' \in Seq(Cells) /\ Len(file') = Larger(Len(file), 1)
      /\ \A m \in index : Intact(file', m)
  <2>1. \A m \in index : DataStart <= m.offset
    BY <1>2 DEF Laid
  <2> QED
    BY <1>1, <1>2, <2>1, HeaderKeeps
<1>5. Len(file') \in Nat /\ Len(file') >= Len(file) /\ Len(file') <= dataEnd
  BY <1>2, <1>3, <1>4 DEF Larger, DataStart
<1>6. TypeOK'
  BY <1>1, <1>2, <1>4, <1>5 DEF TypeOK, mem, call, history
<1>7. StableInv'
  BY <1>1 DEF StableInv, history, Gapless
<1>8. OpenInv'
  <2>1. ~FrameAt(file', dataEnd)
    BY <1>2, <1>5 DEF FrameAt
  <2> QED
    BY <1>1, <1>2, <1>4, <1>5, <2>1 DEF OpenInv, mem, call, history
<1>9. ClosedInv' /\ ScanInv'
  BY <1>1 DEF ClosedInv, ScanInv
<1>10. UndoneInv'
  BY UndoneKept, <1>1 DEF history
<1> QED
  BY <1>6, <1>7, <1>8, <1>9, <1>10

\* Whatever the process was doing, what it had acknowledged lies in the file
\* as an unbroken run, and a scan of the file stays in what it had written.
LEMMA AliveClosed ==
  ASSUME IInv, Alive,
         NEW S, S = Whole
  PROVE  /\ S \in SUBSET Metas
         /\ acked \subseteq S /\ Gapless(acked)
         /\ \A m \in acked : Intact(file, m)
         /\ \A m1, m2 \in S : m1.seq = m2.seq => m1 = m2
         /\ Closed(file, S)
<1> USE DEF IInv
<1>1. CASE pc = "scan"
  BY <1>1 DEF ClosedInv, TypeOK, Whole
<1>2. CASE pc # "scan"
  <2>1. /\ pc \in {"ready", "batch", "undo", "header"} /\ S = index
        /\ Laid(index, nextSeq, dataEnd) /\ \A m \in index : Intact(file, m)
        /\ ~FrameAt(file, dataEnd)
    BY <1>2 DEF Alive, OpenInv, Whole
  <2>2. /\ file \in Seq(Cells) /\ index \in SUBSET Metas /\ acked \in SUBSET Metas
        /\ nextSeq \in Nat /\ dataEnd \in Nat /\ saved.seq \in Nat /\ saved.end \in Nat
    BY DEF TypeOK
  <2>3. acked \subseteq index /\ Gapless(acked)
    <3>1. CASE pc \in {"ready", "header"}
      BY <2>1, <2>2, <3>1, LaidGapless DEF OpenInv
    <3>2. CASE pc \in {"batch", "undo"}
      <4>1. acked = TruncatedFrom(index, saved.seq) /\ Laid(acked, saved.seq, saved.end)
        BY <3>2 DEF OpenInv
      <4>2. Gapless(acked)
        BY <2>2, <4>1, LaidGapless
      <4> QED
        BY <4>1, <4>2 DEF TruncatedFrom
    <3> QED
      BY <2>1, <3>1, <3>2
  <2>4. Closed(file, index)
    BY <2>1, <2>2, LaidClosed
  <2>5. \A m1, m2 \in index : m1.seq = m2.seq => m1 = m2
    BY <2>1 DEF Laid
  <2> QED
    BY <2>1, <2>2, <2>3, <2>4, <2>5
<1> QED
  BY <1>1, <1>2

LEMMA VersionType ==
  ASSUME TypeOK, NEW v \in Versions
  PROVE  /\ v.file \in Seq(Cells) /\ v.frames \in SUBSET Metas
         /\ v.todo \in Seq(Records)
<1>1. CASE v \in undone
  <2>1. v \in [file : Seq(Cells), frames : SUBSET Metas, todo : {<<>>}]
    BY <1>1 DEF TypeOK
  <2>2. v.todo = <<>> /\ <<>> \in Seq(Records)
    BY <2>1
  <2> QED
    BY <2>1, <2>2
<1>2. CASE v = [file |-> file, frames |-> Whole, todo |-> todo]
  BY <1>2 DEF TypeOK, Whole
<1> QED
  BY <1>1, <1>2 DEF Versions

\* Every version of the file a power loss may leave holds what is stable, and
\* a scan of it stays in its frames.
LEMMA VersionSound ==
  ASSUME IInv, Alive, NEW v \in Versions
  PROVE  /\ stable \subseteq v.frames
         /\ \A m \in stable : Intact(v.file, m)
         /\ \A m1, m2 \in v.frames : m1.seq = m2.seq => m1 = m2
         /\ Closed(v.file, v.frames)
<1> USE DEF IInv
<1>1. CASE v \in undone
  BY <1>1 DEF UndoneInv
<1>2. CASE v = [file |-> file, frames |-> Whole, todo |-> todo]
  <2>1. /\ acked \subseteq Whole
        /\ \A m \in acked : Intact(file, m)
        /\ \A m1, m2 \in Whole : m1.seq = m2.seq => m1 = m2
        /\ Closed(file, Whole)
    BY AliveClosed
  <2>2. v.file = file /\ v.frames = Whole
    BY <1>2
  <2>3. stable \subseteq acked
    BY DEF StableInv
  <2> QED
    BY <2>1, <2>2, <2>3
<1> QED
  BY <1>1, <1>2 DEF Versions

LEMMA KillStep == IInv /\ Kill => IInv'
<1> SUFFICES ASSUME IInv, Kill PROVE IInv'
  OBVIOUS
<1> USE DEF IInv
<1> DEFINE S == Whole
<1>1. /\ Alive /\ pc' = "down" /\ seen' = S
      /\ faults < MaxFaults /\ faults' = faults + 1
      /\ UNCHANGED <<pos, mem, call, stable, file, synced, acked, undone, cutLogs>>
  BY DEF Kill, Dies, Failure, call
<1>2. /\ S \in SUBSET Metas
      /\ acked \subseteq S /\ Gapless(acked)
      /\ \A m \in acked : Intact(file, m)
      /\ \A m1, m2 \in S : m1.seq = m2.seq => m1 = m2
      /\ Closed(file, S)
  BY <1>1, AliveClosed
<1> HIDE DEF S
<1>3. TypeOK'
  <2>1. faults' \in 0..MaxFaults
    BY <1>1, BoundsAssumption DEF TypeOK
  <2> QED
    BY <1>1, <1>2, <2>1 DEF TypeOK, mem, call
<1>4. StableInv'
  BY <1>1 DEF StableInv, Gapless
<1>5. ClosedInv'
  BY <1>1, <1>2 DEF ClosedInv
<1>6. OpenInv' /\ ScanInv'
  BY <1>1 DEF OpenInv, ScanInv
<1>7. UndoneInv'
  BY UndoneKept, <1>1
<1> QED
  BY <1>3, <1>4, <1>5, <1>6, <1>7

LEMMA PowerLossStep == IInv /\ PowerLoss => IInv'
<1> SUFFICES ASSUME IInv, PowerLoss PROVE IInv'
  OBVIOUS
<1> USE DEF IInv
<1>1. /\ Alive /\ pc' = "down"
      /\ faults < MaxFaults /\ faults' = faults + 1
      /\ UNCHANGED <<pos, mem, saved, stable>>
      /\ synced' = Len(file') /\ acked' = stable
      /\ undone' = {} /\ cutLogs' = {}
  BY DEF PowerLoss, Dies, Failure
<1>2. PICK v \in Versions :
         /\ \E n \in synced..Len(v.file) : \E lost \in SUBSET ((synced + 1)..n) :
              file' = Surviving(v.file, n, lost)
         /\ seen' = v.frames
         /\ todo' = v.todo
  BY DEF PowerLoss
<1> DEFINE f == v.file
           S == v.frames
<1>3. /\ f \in Seq(Cells) /\ S \in SUBSET Metas /\ todo' \in Seq(Records)
      /\ seen' = S /\ stable \subseteq S
      /\ \A m \in stable : Intact(f, m)
      /\ \A m1, m2 \in S : m1.seq = m2.seq => m1 = m2
      /\ Closed(f, S)
  BY <1>1, <1>2, VersionType, VersionSound
<1>4. PICK n \in synced..Len(f) :
         \E lost \in SUBSET ((synced + 1)..n) : file' = Surviving(f, n, lost)
  BY <1>2
<1> HIDE DEF f, S
<1>5. PICK lost \in SUBSET ((synced + 1)..n) : file' = Surviving(f, n, lost)
  BY <1>4
<1>6. Len(f) \in Nat /\ synced \in Nat
  BY <1>3 DEF TypeOK
<1>7. n \in 0..Len(f) /\ lost \in SUBSET (1..n) /\ n >= synced
  BY <1>6
<1>8. /\ file' \in Seq(Cells) /\ Len(file') = n
      /\ \A o \in Nat : FrameAt(file', o) =>
           FrameAt(f, o) /\ MetaAt(file', o) = MetaAt(f, o)
  BY <1>3, <1>5, <1>7, SurvivingFrames
<1>9. \A m \in stable : Intact(file', m)
  <2> TAKE m \in stable
  <2>1. m \in Metas /\ EndOf(m) <= synced /\ Intact(f, m)
    BY <1>3 DEF StableInv, TypeOK
  <2> QED
    BY <1>3, <1>5, <1>6, <2>1, SurvivingKeeps
<1>10. TypeOK'
  <2>1. faults' \in 0..MaxFaults
    BY <1>1, BoundsAssumption DEF TypeOK
  <2>2. synced' \in 0..Len(file')
    BY <1>1, <1>7, <1>8
  <2> QED
    BY <1>1, <1>3, <1>8, <2>1, <2>2 DEF TypeOK, mem
<1>11. StableInv'
  <2>1. \A m \in stable : EndOf(m) <= synced'
    <3> TAKE m \in stable
    <3>1. EndOf(m) <= synced /\ EndOf(m) \in Nat
      BY MetaFields DEF StableInv, TypeOK
    <3> QED
      BY <1>1, <1>6, <1>7, <1>8, <3>1
  <2> QED
    BY <1>1, <2>1 DEF StableInv, Gapless
<1>12. ClosedInv'
  <2>1. stable \subseteq S /\ Gapless(stable)
    BY <1>3 DEF StableInv
  <2>2. Closed(file', S)
    <3>1. DataStart \in Nat /\ \A m \in S : EndOf(m) \in Nat
      BY <1>3, MetaFields DEF DataStart
    <3> QED
      BY <1>3, <1>8, <3>1 DEF Closed
  <2> QED
    BY <1>1, <1>3, <1>9, <2>1, <2>2 DEF ClosedInv
<1>13. OpenInv' /\ ScanInv'
  BY <1>1 DEF OpenInv, ScanInv
<1>14. UndoneInv'
  BY <1>1 DEF UndoneInv
<1> QED
  BY <1>10, <1>11, <1>12, <1>13, <1>14

\* Every step preserves the invariant when the failures are the handled ones.
LEMMA NextInv ==
  ASSUME Faults \subseteq HandledFaults, IInv, [Next]_vars
  PROVE  IInv'
<1>1. CASE Next
  <2>1. CASE Open
    BY <2>1, OpenStep
  <2>2. CASE ScanFrame
    BY <2>2, ScanFrameStep
  <2>3. CASE ScanEnd
    BY <2>3, ScanEndStep
  <2>4. CASE \E b \in Batches : BeginBatch(b)
    BY <2>4, BeginBatchStep
  <2>5. CASE BatchWrite
    BY <2>5, BatchWriteStep
  <2>6. CASE BatchWriteFails
    BY <2>6, BatchWriteFailsStep
  <2>7. CASE Undo
    BY <2>7, UndoStep
  <2>8. CASE BatchDone
    BY <2>8, BatchDoneStep
  <2>9. CASE \E r \in Records : Append1(r)
    BY <2>9, Append1Step
  <2>10. CASE SyncData
    BY <2>10, SyncDataStep
  <2>11. CASE WriteHeader
    BY <2>11, WriteHeaderStep
  <2>12. CASE Kill
    BY <2>12, KillStep
  <2>13. CASE PowerLoss
    BY <2>13, PowerLossStep
  <2>14. /\ ~UndoFails /\ ~WriteHeaderFails /\ ~MixedLoss
         /\ \A r \in Records : ~Append1Fails(r)
    BY DEF UndoFails, WriteHeaderFails, Append1Fails, MixedLoss, HandledFaults
  <2> QED
    BY <1>1, <2>1, <2>2, <2>3, <2>4, <2>5, <2>6, <2>7, <2>8, <2>9, <2>10, <2>11,
       <2>12, <2>13, <2>14 DEF Next
<1>2. CASE UNCHANGED vars
  <2>1. TypeOK'
    BY <1>2 DEF IInv, TypeOK, vars, mem, call, history
  <2>2. StableInv' /\ ClosedInv'
    BY <1>2 DEF IInv, StableInv, ClosedInv, Gapless, vars, mem, call, history
  <2>3. OpenInv' /\ ScanInv'
    BY <1>2 DEF IInv, OpenInv, ScanInv, vars, mem, call, history
  <2>4. UndoneInv'
    BY <1>2, UndoneKept DEF IInv, vars, history
  <2> QED
    BY <2>1, <2>2, <2>3, <2>4 DEF IInv
<1> QED
  BY <1>1, <1>2

-----------------------------------------------------------------------------
(* Reopening heals whatever the failures were: the invariant that needs no *)
(* assumption about Faults.                                                *)

\* What a running scan has read is intact and lies before the scan's place.
HealInv ==
  pc = "scan" => \A m \in index : Intact(file, m) /\ EndOf(m) <= dataEnd

\* Writing at the cursor keeps the file a file, and no shorter.
LEMMA WriteTypes ==
  ASSUME NEW f \in Seq(Cells), NEW at \in Nat, NEW k \in Nat, NEW r \in Records,
         NEW n \in 0..FrameSize[r], NEW z \in 0..Len(f)
  PROVE  /\ Written(f, at, Frame(k, r), n) \in Seq(Cells)
         /\ z \in 0..Len(Written(f, at, Frame(k, r), n))
         /\ at + n \in Nat
<1>1. n \in Nat /\ FrameSize[r] \in Nat
  BY SizeType
<1>2. ASSUME NEW i \in 1..n
      PROVE  Frame(k, r)[i] \in Cells
  <2>1. i \in 1..FrameSize[r]
    BY <1>1
  <2> QED
    BY <2>1, FrameType
<1> DEFINE g == Written(f, at, Frame(k, r), n)
<1>3. g \in Seq(Cells) /\ Len(g) = Larger(Len(f), at + n)
  BY <1>1, <1>2, WrittenType
<1> HIDE DEF g
<1>4. z \in 0..Len(g)
  BY <1>1, <1>3 DEF Larger
<1> QED
  BY <1>1, <1>3, <1>4 DEF g

LEMMA PushTypes ==
  ASSUME TypeOK, NEW r \in Records, Push(r)
  PROVE  /\ file' \in Seq(Cells) /\ synced' \in 0..Len(file') /\ pos' \in Nat
         /\ dataEnd' \in Nat /\ nextSeq' \in Nat /\ sessionCount' \in Nat
         /\ index' \subseteq Metas /\ IsFiniteSet(index') /\ truncation' \in BOOLEAN
<1>1. FrameSize[r] \in 0..FrameSize[r] /\ FrameSize[r] \in Nat
  BY SizeType
<1>2. file' \in Seq(Cells) /\ synced' \in 0..Len(file') /\ pos' \in Nat
  <2>1. /\ file' = Written(file, pos, Frame(nextSeq, r), FrameSize[r])
        /\ pos' = pos + FrameSize[r] /\ synced' = synced
    BY DEF Push
  <2>2. file \in Seq(Cells) /\ pos \in Nat /\ nextSeq \in Nat /\ synced \in 0..Len(file)
    BY DEF TypeOK
  <2> QED
    BY <1>1, <2>1, <2>2, WriteTypes
<1>3. dataEnd' \in Nat /\ nextSeq' \in Nat /\ sessionCount' \in Nat /\ truncation' \in BOOLEAN
  <2>1. /\ dataEnd' = dataEnd + FrameSize[r] /\ nextSeq' = nextSeq + 1
        /\ sessionCount' \in {sessionCount, sessionCount + 1} /\ truncation' = truncation
    BY DEF Push
  <2>2. /\ dataEnd \in Nat /\ nextSeq \in Nat /\ sessionCount \in Nat
        /\ truncation \in BOOLEAN
    BY DEF TypeOK
  <2> QED
    BY <1>1, <2>1, <2>2
<1>4. [seq |-> nextSeq, rec |-> r, offset |-> dataEnd] \in Metas
  BY DEF TypeOK, Metas
<1>5. index' \subseteq Metas /\ IsFiniteSet(index')
  BY <1>4, FS_AddElement DEF Push, TypeOK
<1> QED
  BY <1>2, <1>3, <1>5

LEMMA TornTypes ==
  ASSUME TypeOK, NEW r \in Records, \E n \in 0..FrameSize[r] : TornWrite(r, n)
  PROVE  /\ file' \in Seq(Cells) /\ synced' \in 0..Len(file') /\ pos' \in Nat
         /\ UNCHANGED mem
<1>1. PICK n \in 0..FrameSize[r] : TornWrite(r, n)
  OBVIOUS
<1>2. /\ file' = Written(file, pos, Frame(nextSeq, r), n)
      /\ pos' = pos + n /\ UNCHANGED <<synced, mem>>
  BY <1>1 DEF TornWrite
<1>3. file \in Seq(Cells) /\ pos \in Nat /\ nextSeq \in Nat /\ synced \in 0..Len(file)
  BY DEF TypeOK
<1> QED
  BY <1>2, <1>3, WriteTypes

\* Cutting the file, or leaving it, keeps it a file.
LEMMA CutTypes ==
  ASSUME NEW f \in Seq(Cells), NEW n \in Nat, NEW z \in 0..Len(f)
  PROVE  /\ Resized(f, n) \in Seq(Cells)
         /\ Smaller(z, n) \in 0..Len(Resized(f, n))
         /\ Smaller(z, Len(f)) \in 0..Len(f)
         /\ Smaller(z, Len(Resized(f, n))) \in 0..Len(Resized(f, n))
<1>1. Resized(f, n) \in Seq(Cells) /\ Len(Resized(f, n)) = n
  BY ResizedType
<1> QED
  BY <1>1 DEF Smaller

\* Every step, failing or not, keeps the types.
LEMMA TypeStep ==
  ASSUME TypeOK, [Next]_vars
  PROVE  TypeOK'
<1> USE DEF TypeOK
<1>1. CASE Open
  BY <1>1, FS_EmptySet DEF Open, call, history, DataStart
<1>2. CASE ScanFrame
  <2>1. MetaAt(file, dataEnd) \in Metas /\ EndOf(MetaAt(file, dataEnd)) \in Nat
        /\ MetaAt(file, dataEnd).seq \in Nat
    BY <1>2, FoundFrame, MetaFields DEF ScanFrame
  <2>2. index' \subseteq Metas /\ IsFiniteSet(index')
    BY <1>2, <2>1, FS_AddElement DEF ScanFrame
  <2> QED
    BY <1>2, <2>1, <2>2 DEF ScanFrame, call, history
<1>3. CASE ScanEnd
  <2>1. file' \in Seq(Cells) /\ synced' \in 0..Len(file')
    BY <1>3, CutTypes DEF ScanEnd
  <2>2. sessionCount' \in Nat
    BY <1>3, FiniteSessions DEF ScanEnd
  <2>3. truncation' \in BOOLEAN /\ todo' \in Seq(Records)
    BY <1>3 DEF ScanEnd
  <2>4. /\ undone' \subseteq [file : Seq(Cells), frames : SUBSET Metas, todo : {<<>>}]
        /\ cutLogs' \subseteq SUBSET Metas
    BY <1>3, CutType DEF ScanEnd
  <2> QED
    BY <1>3, <2>1, <2>2, <2>3, <2>4 DEF ScanEnd
<1>4. CASE \E b \in Batches : BeginBatch(b)
  <2>1. PICK b \in Batches : BeginBatch(b)
    BY <1>4
  <2>2. b \in Seq(Records)
    BY DEF Batches
  <2> QED
    BY <2>1, <2>2 DEF BeginBatch, mem, history
<1>5. CASE BatchWrite
  <2>1. Head(todo) \in Records /\ Tail(todo) \in Seq(Records)
    BY <1>5 DEF BatchWrite
  <2> QED
    BY <1>5, <2>1, PushTypes DEF BatchWrite, history
<1>6. CASE BatchWriteFails
  <2>1. Head(todo) \in Records
    BY <1>6 DEF BatchWriteFails
  <2>2. /\ file' \in Seq(Cells) /\ synced' \in 0..Len(file') /\ pos' \in Nat
        /\ UNCHANGED mem
    BY <1>6, <2>1, TornTypes DEF BatchWriteFails
  <2>3. faults' \in 0..MaxFaults
    BY <1>6, BoundsAssumption DEF BatchWriteFails, Failure
  <2> QED
    BY <1>6, <2>2, <2>3 DEF BatchWriteFails, call, history, mem
<1>7. CASE Undo
  <2>1. file' \in Seq(Cells) /\ synced' \in 0..Len(file')
    BY <1>7, CutTypes DEF Undo
  <2>2. index' \subseteq Metas /\ IsFiniteSet(index')
    BY <1>7, FS_Subset DEF Undo, TruncatedFrom
  <2>3. sessionCount' \in Nat
    BY <1>7, <2>2, FiniteSessions DEF Undo
  <2>4. /\ undone' \subseteq [file : Seq(Cells), frames : SUBSET Metas, todo : {<<>>}]
        /\ cutLogs' \subseteq SUBSET Metas
    BY <1>7, CutType DEF Undo
  <2> QED
    BY <1>7, <2>1, <2>2, <2>3, <2>4 DEF Undo
<1>8. CASE UndoFails
  BY <1>8, BoundsAssumption DEF UndoFails, Failure, mem, history
<1>9. CASE BatchDone
  BY <1>9 DEF BatchDone, mem, call
<1>10. CASE \E r \in Records : Append1(r)
  <2>1. PICK r \in Records : Append1(r)
    BY <1>10
  <2> QED
    BY <2>1, PushTypes DEF Append1, call
<1>11. CASE \E r \in Records : Append1Fails(r)
  <2>1. PICK r \in Records : Append1Fails(r)
    BY <1>11
  <2>2. /\ file' \in Seq(Cells) /\ synced' \in 0..Len(file') /\ pos' \in Nat
        /\ UNCHANGED mem
    BY <2>1, TornTypes DEF Append1Fails
  <2>3. faults' \in 0..MaxFaults
    BY <2>1, BoundsAssumption DEF Append1Fails, Failure
  <2> QED
    BY <2>1, <2>2, <2>3 DEF Append1Fails, call, history, mem
<1>12. CASE SyncData
  BY <1>12 DEF SyncData, mem, call
<1>13. CASE WriteHeader
  <2>1. file' \in Seq(Cells) /\ synced' \in 0..Len(file')
    <3>1. /\ file' = Written(file, 0, <<HeaderCell>>, 1) /\ synced' = synced
          /\ file \in Seq(Cells) /\ synced \in 0..Len(file)
      BY <1>13 DEF WriteHeader
    <3>2. file' \in Seq(Cells) /\ Len(file') = Larger(Len(file), 1)
      BY <3>1, HeaderKeeps
    <3> QED
      BY <3>1, <3>2 DEF Larger
  <2> QED
    BY <1>13, <2>1 DEF WriteHeader, mem, call, history
<1>14. CASE WriteHeaderFails
  BY <1>14, BoundsAssumption DEF WriteHeaderFails, Failure, mem, call, history, DataStart
<1>15. CASE Kill
  BY <1>15, BoundsAssumption DEF Kill, Dies, Failure, Whole, mem
<1>16. CASE PowerLoss
  <2>1. /\ synced' = Len(file') /\ acked' = stable /\ undone' = {} /\ cutLogs' = {}
        /\ faults < MaxFaults /\ faults' = faults + 1 /\ pc' = "down"
        /\ UNCHANGED <<pos, mem, saved, stable>>
    BY <1>16 DEF PowerLoss, Dies, Failure
  <2>2. PICK v \in Versions :
          /\ \E n \in synced..Len(v.file) : \E lost \in SUBSET ((synced + 1)..n) :
               file' = Surviving(v.file, n, lost)
          /\ seen' = v.frames
          /\ todo' = v.todo
    BY <1>16 DEF PowerLoss
  <2>3. v.file \in Seq(Cells) /\ v.frames \in SUBSET Metas /\ v.todo \in Seq(Records)
    BY VersionType
  <2>4. PICK n \in synced..Len(v.file) : \E lost \in SUBSET ((synced + 1)..n) :
          file' = Surviving(v.file, n, lost)
    BY <2>2
  <2>5. PICK lost \in SUBSET ((synced + 1)..n) : file' = Surviving(v.file, n, lost)
    BY <2>4
  <2>6. n \in 0..Len(v.file) /\ lost \in SUBSET (1..n)
    BY <2>3
  <2>7. file' \in Seq(Cells) /\ Len(file') = n
    BY <2>3, <2>5, <2>6, SurvivingFrames
  <2>8. synced' \in 0..Len(file') /\ faults' \in 0..MaxFaults
    BY <2>1, <2>6, <2>7, BoundsAssumption
  <2> QED
    BY <2>1, <2>2, <2>3, <2>7, <2>8 DEF mem
<1>18. CASE MixedLoss
  <2>1. /\ synced' = Len(file') /\ acked' = stable /\ undone' = {} /\ cutLogs' = {}
        /\ faults < MaxFaults /\ faults' = faults + 1 /\ pc' = "down" /\ todo' = <<>>
        /\ seen' = UNION {v.frames : v \in Versions}
        /\ UNCHANGED <<pos, mem, saved, stable>>
    BY <1>18 DEF MixedLoss, Dies, Failure
  <2>2. PICK v \in Versions : \E n \in synced..Len(v.file) :
          \E from \in [(synced + 1)..n -> Versions] :
          \E lost \in SUBSET ((synced + 1)..n) :
            file' = Mixed(v, from, n, lost)
    BY <1>18 DEF MixedLoss
  <2> PICK n \in synced..Len(v.file) :
         \E from \in [(synced + 1)..n -> Versions] :
         \E lost \in SUBSET ((synced + 1)..n) :
           file' = Mixed(v, from, n, lost)
    BY <2>2
  <2>3. PICK from \in [(synced + 1)..n -> Versions], lost \in SUBSET ((synced + 1)..n) :
          file' = Mixed(v, from, n, lost)
    OBVIOUS
  <2>4. \A w \in Versions : w.file \in Seq(Cells) /\ w.frames \in SUBSET Metas
    BY VersionType
  <2>5. n \in 0..Len(v.file)
    BY <2>4
  <2>6. \A i \in 1..n : file'[i] \in Cells
    <3> TAKE i \in 1..n
    <3>1. CASE i <= synced
      <4>1. file'[i] = v.file[i] /\ i \in 1..Len(v.file)
        BY <2>3, <2>4, <2>5, <3>1 DEF Mixed
      <4> QED
        BY <2>4, <4>1
    <3>2. CASE ~(i <= synced)
      <4>1. i \in (synced + 1)..n /\ from[i] \in Versions
        BY <2>5, <3>2
      <4>2. Blank \in Cells
        BY DEF Cells
      <4>3. CASE i \in lost \/ i > Len(from[i].file)
        BY <2>3, <3>2, <4>2, <4>3 DEF Mixed
      <4>4. CASE ~(i \in lost \/ i > Len(from[i].file))
        <5>1. file'[i] = from[i].file[i] /\ i \in 1..Len(from[i].file)
          BY <2>3, <2>4, <3>2, <4>1, <4>4 DEF Mixed
        <5> QED
          BY <2>4, <4>1, <5>1
      <4> QED
        BY <4>3, <4>4
    <3> QED
      BY <3>1, <3>2
  <2>7. file' \in [1..n -> Cells]
    BY <2>3, <2>6 DEF Mixed
  <2>8. file' \in Seq(Cells) /\ Len(file') = n
    BY <2>5, <2>7
  <2>9. synced' \in 0..Len(file') /\ faults' \in 0..MaxFaults
    BY <2>1, <2>5, <2>8, BoundsAssumption
  <2>10. seen' \subseteq Metas /\ todo' \in Seq(Records)
    BY <2>1, <2>4
  <2> QED
    BY <2>1, <2>8, <2>9, <2>10 DEF mem
<1>17. CASE UNCHANGED vars
  BY <1>17 DEF vars, mem, call, history
<1> QED
  BY <1>1, <1>2, <1>3, <1>4, <1>5, <1>6, <1>7, <1>8, <1>9, <1>10, <1>11, <1>12,
     <1>13, <1>14, <1>15, <1>16, <1>17, <1>18 DEF Next

LEMMA HealStep ==
  ASSUME TypeOK, HealInv, [Next]_vars
  PROVE  HealInv'
<1>1. CASE Open
  BY <1>1 DEF Open, HealInv
<1>2. CASE ScanFrame
  <2> DEFINE m == MetaAt(file, dataEnd)
  <2>1. /\ pc = "scan" /\ file' = file /\ index' = index \cup {m} /\ dataEnd' = EndOf(m)
    BY <1>2 DEF ScanFrame
  <2>2. /\ m \in Metas /\ m.offset = dataEnd /\ Intact(file, m)
    BY <1>2, FoundFrame DEF ScanFrame, TypeOK
  <2>3. EndOf(m) \in Nat /\ EndOf(m) > dataEnd
    BY <2>2, MetaFields
  <2> HIDE DEF m
  <2>4. \A x \in index : EndOf(x) \in Nat
    BY MetaFields DEF TypeOK
  <2> QED
    BY <2>1, <2>2, <2>3, <2>4 DEF HealInv, TypeOK
<1>3. CASE UNCHANGED vars
  BY <1>3 DEF vars, mem, HealInv
<1>4. ASSUME Next, ~Open, ~ScanFrame PROVE pc' # "scan"
  BY <1>4 DEF Next, ScanEnd, BeginBatch, BatchWrite, BatchWriteFails, Undo, UndoFails,
     BatchDone, Append1, Append1Fails, SyncData, WriteHeader, WriteHeaderFails, Kill,
     PowerLoss, MixedLoss, Dies
<1> QED
  BY <1>1, <1>2, <1>3, <1>4 DEF HealInv

-----------------------------------------------------------------------------
(* Theorems.                                                               *)

\* Recovery, rollback and append together keep the log in the shape from
\* which everything below follows.
THEOREM Invariance ==
  ASSUME Faults \subseteq HandledFaults
  PROVE  Spec => []IInv
<1>1. Init => IInv
  BY InitInv
<1>2. IInv /\ [Next]_vars => IInv'
  BY NextInv
<1> QED
  BY <1>1, <1>2, PTL DEF Spec

\* The store's state always has its type, whatever fails.
THEOREM TypeCorrect == Spec => []TypeOK
<1>1. Init => TypeOK
  BY InitInv DEF IInv
<1>2. TypeOK /\ [Next]_vars => TypeOK'
  BY TypeStep
<1> QED
  BY <1>1, <1>2, PTL DEF Spec

\* Between calls get and scan return every acknowledged record as appended,
\* whatever batches failed and whatever crashes came before.
THEOREM Readable ==
  ASSUME Faults \subseteq HandledFaults
  PROVE  Spec => []CommittedReadable
<1>1. IInv => CommittedReadable
  <2> SUFFICES ASSUME IInv, pc = "ready"
               PROVE  index = acked /\ \A m \in index : ReadAt(file, m) = m.rec
    BY DEF CommittedReadable
  <2>1. /\ acked = index /\ \A m \in index : Intact(file, m)
        /\ file \in Seq(Cells) /\ index \subseteq Metas
    BY DEF IInv, OpenInv, TypeOK
  <2> QED
    BY <2>1, IntactFrame
<1> QED
  BY <1>1, Invariance, PTL

\* Sequence numbers are dense and unique after every call and every recovery.
THEOREM Dense ==
  ASSUME Faults \subseteq HandledFaults
  PROVE  Spec => []SeqDense
<1>1. IInv => SeqDense
  <2> SUFFICES ASSUME IInv, pc = "ready"
               PROVE  /\ {m.seq : m \in index} = 0..(nextSeq - 1)
                      /\ \A m1, m2 \in index : m1.seq = m2.seq => m1 = m2
    BY DEF SeqDense
  <2>1. Laid(index, nextSeq, dataEnd) /\ nextSeq \in Nat /\ index \subseteq Metas
    BY DEF IInv, OpenInv, TypeOK
  <2>2. \A m \in index : m.seq \in 0..(nextSeq - 1)
    BY <2>1, MetaFields DEF Laid
  <2>3. \A k \in 0..(nextSeq - 1) : \E m \in index : m.seq = k
    BY <2>1 DEF Laid
  <2>4. \A m1, m2 \in index : m1.seq = m2.seq => m1 = m2
    BY <2>1 DEF Laid
  <2> QED
    BY <2>2, <2>3, <2>4
<1> QED
  BY <1>1, Invariance, PTL

\* The incrementally kept session count never drifts from the index.
THEOREM Counted ==
  ASSUME Faults \subseteq HandledFaults
  PROVE  Spec => []SessionCountExact
<1>1. IInv => SessionCountExact
  BY DEF IInv, TypeOK, OpenInv, SessionCountExact
<1> QED
  BY <1>1, Invariance, PTL

\* Recovery brings back everything a sync covered, and after a kill
\* everything acknowledged.
THEOREM Durable ==
  ASSUME Faults \subseteq HandledFaults
  PROVE  Spec => NothingDurableLost
<1>1. ASSUME IInv, [Next]_vars, pc = "scan", pc' = "ready"
      PROVE  acked \subseteq index'
  <2>1. ScanEnd
    BY <1>1 DEF Next, vars, Open, ScanFrame, BeginBatch, BatchWrite, BatchWriteFails,
       Undo, UndoFails, BatchDone, Append1, Append1Fails, SyncData, WriteHeader,
       WriteHeaderFails, Kill, PowerLoss, MixedLoss, Dies
  <2>2. index' = index /\ ~FrameAt(file, dataEnd)
    BY <2>1 DEF ScanEnd
  <2> QED
    BY <1>1, <2>2, ScanDone
<1>2. IInv /\ [Next]_vars => [pc = "scan" /\ pc' = "ready" => acked \subseteq index']_vars
  BY <1>1
<1> QED
  BY <1>2, Invariance, PTL DEF Spec, NothingDurableLost

\* A reopened store holds a part of the log of the process that died or, after
\* a power loss, of the log as a cut since the last sync_data found it: what
\* was rolled back may come back until it is synced away, and never after.
THEOREM Invents ==
  ASSUME Faults \subseteq HandledFaults
  PROVE  Spec => NothingInvented
<1>1. ASSUME IInv, [Next]_vars, pc = "scan", pc' = "ready"
      PROVE  index' \subseteq seen
  <2>1. ScanEnd
    BY <1>1 DEF Next, vars, Open, ScanFrame, BeginBatch, BatchWrite, BatchWriteFails,
       Undo, UndoFails, BatchDone, Append1, Append1Fails, SyncData, WriteHeader,
       WriteHeaderFails, Kill, PowerLoss, MixedLoss, Dies
  <2> QED
    BY <1>1, <2>1 DEF ScanEnd, IInv, ScanInv
<1>2. ASSUME IInv, [Next]_vars, Alive, pc' = "down"
      PROVE  seen' = Whole \/ (cutLogs' = {} /\ seen' \in cutLogs)
  <2>1. Kill \/ PowerLoss
    BY <1>2 DEF Alive, Next, vars, Open, ScanFrame, ScanEnd, BeginBatch, BatchWrite,
       BatchWriteFails, Undo, UndoFails, BatchDone, Append1, Append1Fails, SyncData,
       WriteHeader, WriteHeaderFails, MixedLoss, HandledFaults
  <2>2. CASE Kill
    BY <2>2 DEF Kill
  <2>3. CASE PowerLoss
    <3>1. PICK v \in Versions : seen' = v.frames
      BY <2>3 DEF PowerLoss
    <3>2. CASE v \in undone
      BY <1>2, <2>3, <3>1, <3>2 DEF PowerLoss, IInv, UndoneInv
    <3> QED
      BY <3>1, <3>2 DEF Versions
  <2> QED
    BY <2>1, <2>2, <2>3
<1>3. IInv /\ [Next]_vars =>
        [/\ pc = "scan" /\ pc' = "ready" => index' \subseteq seen
         /\ Alive /\ pc' = "down" =>
              seen' = Whole \/ (cutLogs' = {} /\ seen' \in cutLogs)]_vars
  BY <1>1, <1>2
<1> QED
  BY <1>3, Invariance, PTL DEF Spec, NothingInvented

\* No step of a living process damages a frame its callers rely on: not an
\* append, not a rollback, not the header rewrite of a flush, and not the cut
\* that a reopening makes.
THEOREM Immutable ==
  ASSUME Faults \subseteq HandledFaults
  PROVE  Spec => AppendOnly
<1>1. ASSUME IInv', pc' # "down"
      PROVE  \A m \in acked' : Intact(file', m)
  <2>1. CASE pc' = "scan"
    BY <1>1, <2>1 DEF IInv, ClosedInv
  <2>2. CASE pc' # "scan"
    <3>1. pc' \in {"ready", "batch", "undo", "header"}
      BY <1>1, <2>2 DEF IInv, TypeOK
    <3>2. acked' \subseteq index'
      BY <1>1, <3>1 DEF IInv, OpenInv, TruncatedFrom
    <3> QED
      BY <1>1, <3>1, <3>2 DEF IInv, OpenInv
  <2> QED
    BY <2>1, <2>2
<1>2. ASSUME IInv, [Next]_vars, pc' # "down"
      PROVE  acked \subseteq acked'
  <2>1. CASE ScanEnd
    BY <1>2, <2>1, ScanDone DEF ScanEnd
  <2>2. CASE ~ScanEnd
    BY <1>2, <2>2 DEF Next, vars, history, Open, ScanFrame, BeginBatch, BatchWrite,
       BatchWriteFails, Undo, UndoFails, BatchDone, Append1, Append1Fails, SyncData,
       WriteHeader, WriteHeaderFails, Kill, PowerLoss, MixedLoss, Dies
  <2> QED
    BY <2>1, <2>2
<1>3. IInv /\ IInv' /\ [Next]_vars =>
        [pc' # "down" => \A m \in acked : Intact(file, m) => Intact(file', m)]_vars
  BY <1>1, <1>2
<1> QED
  BY <1>3, Invariance, PTL DEF Spec, AppendOnly

\* Whatever failed before, also where the store does not recover by itself,
\* the log that a reopening presents is intact and nothing lies behind it.
THEOREM Heals == Spec => ReopenHeals
<1>1. Init => TypeOK /\ HealInv
  <2>1. Init => TypeOK
    BY InitInv DEF IInv
  <2>2. Init => HealInv
    BY DEF Init, HealInv
  <2> QED
    BY <2>1, <2>2
<1>2. TypeOK /\ HealInv /\ [Next]_vars => TypeOK' /\ HealInv'
  BY TypeStep, HealStep
<1>3. TypeOK /\ HealInv /\ [Next]_vars =>
        [pc = "scan" /\ pc' = "ready" =>
           /\ \A m \in index' : Intact(file', m)
           /\ pos' = dataEnd'
           /\ Len(file') <= dataEnd']_vars
  <2> SUFFICES ASSUME TypeOK, HealInv, [Next]_vars, pc = "scan", pc' = "ready"
               PROVE  /\ \A m \in index' : Intact(file', m)
                      /\ pos' = dataEnd'
                      /\ Len(file') <= dataEnd'
    OBVIOUS
  <2>1. ScanEnd
    BY DEF Next, vars, Open, ScanFrame, BeginBatch, BatchWrite, BatchWriteFails,
       Undo, UndoFails, BatchDone, Append1, Append1Fails, SyncData, WriteHeader,
       WriteHeaderFails, Kill, PowerLoss, MixedLoss, Dies
  <2>2. /\ index' = index /\ dataEnd' = dataEnd /\ pos' = dataEnd
        /\ file' = IF dataEnd < Len(file) THEN Resized(file, dataEnd) ELSE file
    BY <2>1 DEF ScanEnd
  <2>3. dataEnd \in Nat /\ file \in Seq(Cells) /\ index \subseteq Metas
    BY DEF TypeOK
  <2>4. \A m \in index : Intact(file', m)
    BY <2>2, <2>3, ResizedKeeps DEF HealInv
  <2>5. Len(file') <= dataEnd
    BY <2>2, <2>3, ResizedType
  <2> QED
    BY <2>2, <2>4, <2>5
<1> QED
  BY <1>1, <1>2, <1>3, PTL DEF Spec, ReopenHeals

-----------------------------------------------------------------------------
(* From here on: the store, as UslStore models it step by step, implements *)
(* the append-only log with a durable prefix of AppendLog.                 *)

-----------------------------------------------------------------------------
(* Unbroken runs of frames, and the logs they are.                         *)

\* S holds one frame for each of the sequence numbers a..b-1 and no other.
Run(S, a, b) ==
  /\ S \subseteq Metas
  /\ a \in Nat /\ b \in Nat /\ a <= b
  /\ \A m \in S : a <= m.seq /\ m.seq < b
  /\ \A k \in a..(b - 1) : \E m \in S : m.seq = k
  /\ \A m1, m2 \in S : m1.seq = m2.seq => m1 = m2

\* A run has as many frames as numbers.
LEMMA RunCount ==
  ASSUME NEW S, NEW a, NEW b, Run(S, a, b)
  PROVE  IsFiniteSet(S) /\ Cardinality(S) = b - a
<1> DEFINE D == a..(b - 1)
           f == [k \in D |-> CHOOSE m \in S : m.seq = k]
<1>1. a \in Nat /\ b \in Nat /\ a <= b
  BY DEF Run
<1>2. \A k \in D : f[k] \in S /\ f[k].seq = k
  BY DEF Run
<1>3. \A m \in S : m.seq \in D
  BY <1>1, MetaFields DEF Run
<1>4. f \in Bijection(D, S)
  <2>1. f \in [D -> S]
    BY <1>2
  <2>2. \A j, k \in D : f[j] = f[k] => j = k
    BY <1>2
  <2>3. \A m \in S : \E k \in D : f[k] = m
    BY <1>2, <1>3 DEF Run
  <2> HIDE DEF f, D
  <2> QED
    BY <2>1, <2>2, <2>3 DEF Bijection, Injection, Surjection, IsInjective
<1>5. ExistsBijection(D, S)
  BY <1>4 DEF ExistsBijection
<1>6. IsFiniteSet(D) /\ Cardinality(D) = b - a
  <2>1. b - 1 \in Int /\ a \in Int
    BY <1>1
  <2>2. IsFiniteSet(D) /\ Cardinality(D) = IF a > b - 1 THEN 0 ELSE b - 1 - a + 1
    BY <2>1, FS_Interval
  <2> HIDE DEF D
  <2> QED
    BY <1>1, <2>2
<1> HIDE DEF D, f
<1>7. IsFiniteSet(S) /\ Cardinality(S) = Cardinality(D)
  BY <1>5, <1>6, FS_Bijection
<1> QED
  BY <1>6, <1>7

\* The log of a run lists its records in sequence order.
LEMMA RunLog ==
  ASSUME NEW S, NEW a, NEW b, Run(S, a, b)
  PROVE  /\ AsLog(S) \in Seq(Records)
         /\ Len(AsLog(S)) = b - a
         /\ \A m \in S : m.seq - a + 1 \in 1..(b - a) /\ AsLog(S)[m.seq - a + 1] = m.rec
<1> DEFINE first == (CHOOSE m \in S : \A x \in S : m.seq <= x.seq).seq
           g == [i \in 1..(b - a) |-> (CHOOSE m \in S : m.seq = first + i - 1).rec]
<1>1. /\ a \in Nat /\ b \in Nat /\ a <= b
      /\ \A m \in S : m.seq \in Nat /\ m.rec \in Records /\ a <= m.seq /\ m.seq < b
  BY MetaFields DEF Run
<1>2. AsLog(S) = g
  BY RunCount DEF AsLog
<1>3. ASSUME a < b PROVE first = a
  <2>1. a \in a..(b - 1)
    BY <1>1, <1>3
  <2>2. PICK m \in S : m.seq = a
    BY <2>1 DEF Run
  <2>3. \A x \in S : m.seq <= x.seq
    BY <1>1, <2>2
  <2>4. \E y \in S : \A x \in S : y.seq <= x.seq
    BY <2>3
  <2>5. PICK y \in S : y.seq = first /\ \A x \in S : y.seq <= x.seq
    BY <2>4
  <2> QED
    BY <1>1, <2>2, <2>5
<1>4. ASSUME NEW i \in 1..(b - a)
      PROVE  \E m \in S : m.seq = first + i - 1 /\ g[i] = m.rec
  <2>1. a < b /\ first = a
    BY <1>1, <1>3
  <2>2. first + i - 1 \in a..(b - 1)
    BY <1>1, <2>1
  <2>3. \E m \in S : m.seq = first + i - 1
    BY <2>2 DEF Run
  <2> QED
    BY <2>3
<1>5. ASSUME NEW m \in S
      PROVE  m.seq - a + 1 \in 1..(b - a) /\ g[m.seq - a + 1] = m.rec
  <2>1. m.seq - a + 1 \in 1..(b - a) /\ a < b
    BY <1>1
  <2>2. PICK x \in S : x.seq = first + (m.seq - a + 1) - 1 /\ g[m.seq - a + 1] = x.rec
    BY <1>4, <2>1
  <2>3. x.seq = m.seq
    BY <1>1, <1>3, <2>1, <2>2
  <2> QED
    BY <2>1, <2>2, <2>3 DEF Run
<1>6. g \in Seq(Records) /\ Len(g) = b - a
  <2>1. \A i \in 1..(b - a) : g[i] \in Records
    BY <1>1, <1>4
  <2>2. b - a \in Nat
    BY <1>1
  <2> HIDE DEF first
  <2> QED
    BY <2>1, <2>2
<1> HIDE DEF g
<1> QED
  BY <1>2, <1>5, <1>6

\* No frames are the empty log.
LEMMA EmptyRun ==
  ASSUME NEW a \in Nat
  PROVE  Run({}, a, a) /\ AsLog({}) = <<>>
<1>1. Run({}, a, a)
  BY DEF Run
<1>2. AsLog({}) \in Seq(Records) /\ Len(AsLog({})) = 0
  BY <1>1, RunLog
<1> QED
  BY <1>1, <1>2

\* A sequence is a run's log when it lists its records.
LEMMA LogOfRun ==
  ASSUME NEW S, NEW a, NEW b, Run(S, a, b),
         NEW s \in Seq(Records), Len(s) = b - a,
         \A m \in S : s[m.seq - a + 1] = m.rec
  PROVE  AsLog(S) = s
<1>1. a \in Nat /\ b \in Nat /\ a <= b
  BY DEF Run
<1>2. ASSUME NEW i \in 1..(b - a)
      PROVE  AsLog(S)[i] = s[i]
  <2>1. a + i - 1 \in a..(b - 1)
    BY <1>1
  <2>2. PICK m \in S : m.seq = a + i - 1
    BY <2>1 DEF Run
  <2>3. m.seq - a + 1 = i
    BY <1>1, <2>2
  <2> QED
    BY <2>3, RunLog
<1> QED
  BY <1>1, <1>2, RunLog, SeqEqual

\* An element of the second part of a concatenation.
LEMMA ConcatAt ==
  ASSUME NEW s \in Seq(Records), NEW t \in Seq(Records), NEW i \in 1..Len(t),
         NEW j \in Nat, j = Len(s) + i
  PROVE  (s \o t)[j] = t[i]
<1>1. j \in 1..(Len(s) + Len(t)) /\ ~(j <= Len(s)) /\ j - Len(s) = i
  OBVIOUS
<1> QED
  BY <1>1, ConcatProperties

\* A run that starts as another one is that one's log and the rest.
LEMMA RunSplit ==
  ASSUME NEW S, NEW T, NEW a, NEW b, NEW c,
         Run(S, a, c), Run(T, a, b), T \subseteq S
  PROVE  /\ b <= c
         /\ Run(S \ T, b, c)
         /\ AsLog(S) = AsLog(T) \o AsLog(S \ T)
<1>1. /\ a \in Nat /\ b \in Nat /\ c \in Nat /\ a <= b /\ a <= c
      /\ \A m \in S : m.seq \in Nat /\ a <= m.seq /\ m.seq < c
  BY MetaFields DEF Run
<1>2. b <= c
  <2>1. CASE a = b
    BY <1>1, <2>1
  <2>2. CASE a # b
    <3>1. b - 1 \in a..(b - 1)
      BY <1>1, <2>2
    <3>2. PICK m \in T : m.seq = b - 1
      BY <3>1 DEF Run
    <3> QED
      BY <1>1, <3>2
  <2> QED
    BY <2>1, <2>2
<1>3. \A m \in S : m \in T <=> m.seq < b
  <2>1. \A m \in T : m.seq < b
    BY DEF Run
  <2>2. ASSUME NEW m \in S, m.seq < b
        PROVE  m \in T
    <3>1. m.seq \in a..(b - 1)
      BY <1>1, <2>2
    <3>2. PICK x \in T : x.seq = m.seq
      BY <3>1 DEF Run
    <3> QED
      BY <3>2 DEF Run
  <2> QED
    BY <2>1, <2>2
<1>4. Run(S \ T, b, c)
  <2>1. \A m \in S \ T : b <= m.seq /\ m.seq < c
    BY <1>1, <1>3
  <2>2. \A k \in b..(c - 1) : \E m \in S \ T : m.seq = k
    <3> TAKE k \in b..(c - 1)
    <3>1. k \in a..(c - 1) /\ ~(k < b)
      BY <1>1
    <3>2. PICK m \in S : m.seq = k
      BY <3>1 DEF Run
    <3> QED
      BY <1>3, <3>1, <3>2
  <2> QED
    BY <1>1, <1>2, <2>1, <2>2 DEF Run
<1> DEFINE t == AsLog(T)
           u == AsLog(S \ T)
<1>5. /\ t \in Seq(Records) /\ Len(t) = b - a
      /\ \A m \in T : t[m.seq - a + 1] = m.rec
  BY RunLog
<1>6. /\ u \in Seq(Records) /\ Len(u) = c - b
      /\ \A m \in S \ T : u[m.seq - b + 1] = m.rec
  BY <1>4, RunLog
<1> HIDE DEF t, u
<1> DEFINE w == t \o u
<1>7. /\ w \in Seq(Records) /\ Len(w) = Len(t) + Len(u)
      /\ \A i \in 1..(Len(t) + Len(u)) : w[i] = IF i <= Len(t) THEN t[i] ELSE u[i - Len(t)]
  BY <1>5, <1>6, ConcatProperties
<1> HIDE DEF w
<1>8. ASSUME NEW m \in S
      PROVE  w[m.seq - a + 1] = m.rec
  <2>1. PICK n \in Nat : n = m.seq
    BY <1>1
  <2>2. a <= n /\ n < c /\ (m \in T <=> n < b)
    BY <1>1, <1>3, <2>1
  <2>3. CASE m \in T
    <3>1. n - a + 1 \in 1..Len(t) /\ t[n - a + 1] = m.rec
      BY <1>1, <1>5, <2>1, <2>2, <2>3
    <3>2. w[n - a + 1] = t[n - a + 1]
      BY <1>1, <1>5, <1>6, <1>7, <3>1
    <3> QED
      BY <2>1, <3>1, <3>2
  <2>4. CASE m \notin T
    <3>1. n - b + 1 \in 1..Len(u)
      BY <1>1, <1>2, <1>6, <2>2, <2>4
    <3>2. PICK i \in 1..Len(u) : i = n - b + 1
      BY <3>1
    <3>3. PICK j \in Nat : j = n - a + 1
      BY <1>1, <2>2
    <3>4. j = Len(t) + i
      BY <1>1, <1>5, <3>2, <3>3
    <3>5. w[j] = u[i]
      BY <1>5, <1>6, <3>4, ConcatAt DEF w
    <3>6. u[i] = m.rec
      BY <1>6, <2>1, <2>4, <3>2
    <3> QED
      BY <2>1, <3>3, <3>5, <3>6
  <2> QED
    BY <2>3, <2>4
<1>9. Len(w) = c - a
  BY <1>1, <1>2, <1>5, <1>6, <1>7
<1>10. AsLog(S) = w
  BY <1>7, <1>8, <1>9, LogOfRun
<1> QED
  BY <1>2, <1>4, <1>10 DEF t, u, w

\* Appending the next frame appends its record.
LEMMA RunPush ==
  ASSUME NEW S, NEW a, NEW b, Run(S, a, b), NEW m \in Metas, m.seq = b
  PROVE  /\ Run(S \cup {m}, a, b + 1)
         /\ AsLog(S \cup {m}) = Append(AsLog(S), m.rec)
<1> DEFINE T == S \cup {m}
           s == AsLog(S)
           t == Append(s, m.rec)
<1>1. /\ a \in Nat /\ b \in Nat /\ a <= b /\ m.rec \in Records
      /\ \A x \in S : x.seq \in Nat /\ a <= x.seq /\ x.seq < b
  BY MetaFields DEF Run
<1>2. Run(T, a, b + 1)
  <2>1. \A x \in T : a <= x.seq /\ x.seq < b + 1
    BY <1>1
  <2>2. \A k \in a..b : \E x \in T : x.seq = k
    <3> TAKE k \in a..b
    <3>1. CASE k = b
      BY <3>1
    <3>2. CASE k # b
      <4>1. k \in a..(b - 1)
        BY <1>1, <3>2
      <4> QED
        BY <4>1 DEF Run
    <3> QED
      BY <3>1, <3>2
  <2>3. \A x, y \in T : x.seq = y.seq => x = y
    BY <1>1 DEF Run
  <2>4. (b + 1) - 1 = b /\ T \subseteq Metas
    BY <1>1 DEF Run
  <2> HIDE DEF T
  <2> QED
    BY <1>1, <2>1, <2>2, <2>3, <2>4 DEF Run
<1>3. /\ s \in Seq(Records) /\ Len(s) = b - a
      /\ \A x \in S : x.seq - a + 1 \in 1..(b - a) /\ s[x.seq - a + 1] = x.rec
  BY RunLog
<1> HIDE DEF s
<1>4. /\ t \in Seq(Records) /\ Len(t) = Len(s) + 1
      /\ \A i \in 1..Len(s) : t[i] = s[i]
      /\ t[Len(s) + 1] = m.rec
  BY <1>1, <1>3, AppendProperties
<1> HIDE DEF t
<1>5. \A x \in T : t[x.seq - a + 1] = x.rec
  <2>1. \A x \in S : t[x.seq - a + 1] = x.rec
    BY <1>3, <1>4
  <2>2. m.seq - a + 1 = Len(s) + 1
    BY <1>1, <1>3
  <2> QED
    BY <1>4, <2>1, <2>2
<1>6. Len(t) = (b + 1) - a
  BY <1>1, <1>3, <1>4
<1> HIDE DEF T
<1>7. AsLog(T) = t
  BY <1>2, <1>4, <1>5, <1>6, LogOfRun
<1> QED
  BY <1>2, <1>7 DEF T, s, t

\* What an open store has laid out is a run.
LEMMA LaidRun ==
  ASSUME NEW S \in SUBSET Metas, NEW n \in Nat, NEW end, Laid(S, n, end)
  PROVE  Run(S, 0, n)
BY MetaFields DEF Laid, Run

-----------------------------------------------------------------------------
(* What the mapping relies on beyond IInv.                                 *)

Numbered(S) == \E n \in Nat : Run(S, 0, n)

LogInv ==
  /\ Numbered(stable)
  /\ Numbered(acked)
  /\ Numbered(Whole)
  /\ \A s \in cutLogs : Numbered(s)
  /\ pc \in {"ready", "header"} => todo = <<>>

\* The store starts with no frame at all.
LEMMA LogInit == Init => LogInv
<1> SUFFICES ASSUME Init
             PROVE  LogInv
  OBVIOUS
<1>1. Numbered({})
  BY EmptyRun DEF Numbered
<1> QED
  BY <1>1 DEF Init, LogInv, Whole

\* In an open store the acknowledged frames and the whole log are runs.
LEMMA OpenRuns ==
  IInv /\ pc \notin {"down", "scan"} =>
    Numbered(acked) /\ Numbered(index) /\ acked \subseteq index
<1> SUFFICES ASSUME IInv, pc \notin {"down", "scan"}
             PROVE  Numbered(acked) /\ Numbered(index) /\ acked \subseteq index
  OBVIOUS
<1>1. /\ pc \in {"ready", "batch", "undo", "header"}
      /\ index \in SUBSET Metas /\ acked \in SUBSET Metas
      /\ nextSeq \in Nat /\ saved.seq \in Nat
  BY DEF IInv, TypeOK
<1>2. Run(index, 0, nextSeq)
  BY <1>1, LaidRun DEF IInv, OpenInv
<1>3. CASE pc \in {"ready", "header"}
  BY <1>1, <1>2, <1>3 DEF IInv, OpenInv, Numbered
<1>4. CASE pc \in {"batch", "undo"}
  <2>1. Run(acked, 0, saved.seq)
    BY <1>1, <1>4, LaidRun DEF IInv, OpenInv
  <2>2. acked \subseteq index
    BY <1>1, <1>4 DEF IInv, OpenInv, TruncatedFrom
  <2> QED
    BY <1>1, <1>2, <2>1, <2>2 DEF Numbered
<1> QED
  BY <1>1, <1>3, <1>4

\* Nothing is acknowledged that is not there.
LEMMA AckedInWhole ==
  ASSUME IInv
  PROVE  acked \subseteq Whole
<1>1. CASE pc \in {"down", "scan"}
  BY <1>1 DEF IInv, ClosedInv, Whole
<1>2. CASE pc \notin {"down", "scan"}
  BY <1>2, OpenRuns DEF Whole
<1> QED
  BY <1>1, <1>2

\* Every step keeps the sets of frames runs: a crash only ever leaves the
\* stable ones, the acknowledged ones or all that were written.
LEMMA LogStep ==
  ASSUME Faults \subseteq HandledFaults, IInv, IInv', LogInv, [Next]_vars
  PROVE  LogInv'
<1>1. CASE UNCHANGED vars
  BY <1>1 DEF LogInv, Whole, vars, mem, call, history
<1>2. ASSUME Next
      PROVE  Numbered(stable)'
  BY <1>2 DEF Next, LogInv, history, Open, ScanFrame, ScanEnd, BeginBatch, BatchWrite,
     BatchWriteFails, Undo, UndoFails, BatchDone, Append1, Append1Fails, SyncData,
     WriteHeader, WriteHeaderFails, Kill, PowerLoss, MixedLoss, Dies
<1>3. ASSUME Next, pc' \in {"down", "scan"}
      PROVE  Numbered(acked)' /\ Numbered(seen)'
  <2>1. CASE Open \/ ScanFrame
    BY <2>1 DEF LogInv, Whole, history, Open, ScanFrame
  <2>2. CASE Kill
    BY <2>2 DEF LogInv, Whole, Kill, Dies, Alive
  <2>3. CASE PowerLoss
    <3>1. acked' = stable /\ \E v \in Versions : seen' = v.frames
      BY <2>3 DEF PowerLoss
    <3>2. \A v \in undone : v.frames \in cutLogs
      BY DEF IInv, UndoneInv
    <3>3. \A v \in Versions : v.frames = Whole \/ v.frames \in cutLogs
      BY <3>2 DEF Versions
    <3> QED
      BY <3>1, <3>3 DEF LogInv
  <2> QED
    BY <1>3, <2>1, <2>2, <2>3 DEF Next, ScanEnd, BeginBatch, BatchWrite,
     BatchWriteFails, Undo, UndoFails, BatchDone, Append1, Append1Fails, SyncData,
     WriteHeader, WriteHeaderFails, MixedLoss, HandledFaults
<1>4. ASSUME pc' \notin {"down", "scan"}
      PROVE  Numbered(acked)' /\ Numbered(index)'
  <2>1. (IInv /\ pc \notin {"down", "scan"} =>
           Numbered(acked) /\ Numbered(index) /\ acked \subseteq index)'
    BY OpenRuns, PTL
  <2> QED
    BY <1>4, <2>1
<1>5. ASSUME Next, pc' \in {"ready", "header"}
      PROVE  todo' = <<>>
  BY <1>5 DEF Next, LogInv, call, HandledFaults, Open, ScanFrame, ScanEnd, BeginBatch,
     BatchWrite, BatchWriteFails, Undo, UndoFails, BatchDone, Append1, Append1Fails,
     SyncData, WriteHeader, WriteHeaderFails, Kill, PowerLoss, MixedLoss, Dies
<1>6. ASSUME Next
      PROVE  \A s \in cutLogs' : Numbered(s)
  <2>1. CASE Undo
    <3>1. Numbered(index) /\ cutLogs' = cutLogs \cup {index}
      BY <2>1, OpenRuns DEF Undo, Cut
    <3> QED
      BY <3>1 DEF LogInv
  <2>2. CASE ScanEnd
    <3>1. pc' = "ready" /\ index' = index /\ cutLogs' \subseteq cutLogs \cup {index}
      BY <2>2 DEF ScanEnd, Cut
    <3>2. Numbered(index)
      BY <1>4, <3>1 DEF Numbered
    <3> QED
      BY <3>1, <3>2 DEF LogInv
  <2>3. CASE ~(Undo \/ ScanEnd)
    <3>1. cutLogs' \subseteq cutLogs
      BY <1>6, <2>3 DEF Next, history, Open, ScanFrame, BeginBatch, BatchWrite,
         BatchWriteFails, UndoFails, BatchDone, Append1, Append1Fails, SyncData,
         WriteHeader, WriteHeaderFails, Kill, PowerLoss, MixedLoss, Dies
    <3> QED
      BY <3>1 DEF LogInv
  <2> QED
    BY <2>1, <2>2, <2>3
<1>7. Next \/ UNCHANGED vars
  OBVIOUS
<1> QED
  BY <1>1, <1>2, <1>3, <1>4, <1>5, <1>6, <1>7 DEF LogInv, Whole

-----------------------------------------------------------------------------
(* The mapping.  LogIs gives the mapped state in terms of runs.            *)

LogIs ==
  /\ Pending = AsLog(Whole \ acked) \o todo
  /\ Pending \in Seq(Records)
  /\ AsLog(acked) \in Seq(Records)
  /\ AsLog(Whole \ acked) \in Seq(Records)
  /\ AsLog(Whole) = AsLog(acked) \o AsLog(Whole \ acked)
  /\ todo \in Seq(Records)
  /\ Len(AsLog(acked)) = Cardinality(acked)

\* What is pending is what follows the acknowledged frames in the run of all
\* frames, and then the records still to be written.
LEMMA LogOf == IInv /\ LogInv => LogIs
<1> SUFFICES ASSUME IInv, LogInv
             PROVE  LogIs
  OBVIOUS
<1>1. PICK b \in Nat : Run(acked, 0, b)
  BY DEF LogInv, Numbered
<1>2. PICK c \in Nat : Run(Whole, 0, c)
  BY DEF LogInv, Numbered
<1>3. /\ Run(Whole \ acked, b, c)
      /\ AsLog(Whole) = AsLog(acked) \o AsLog(Whole \ acked)
  BY <1>1, <1>2, AckedInWhole, RunSplit
<1>4. AsLog(acked) \in Seq(Records) /\ Len(AsLog(acked)) = Cardinality(acked)
  BY <1>1, RunLog, RunCount
<1>5. AsLog(Whole \ acked) \in Seq(Records) /\ todo \in Seq(Records)
  BY <1>3, RunLog DEF IInv, TypeOK
<1>6. Pending = AsLog(Whole \ acked) \o todo
  <2>1. ASSUME pc \in {"ready", "header"}
        PROVE  AsLog(Whole \ acked) \o todo = <<>>
    <3>1. Whole \ acked = {} /\ todo = <<>>
      BY <2>1 DEF IInv, OpenInv, LogInv, Whole
    <3>2. AsLog(Whole \ acked) = <<>>
      BY <3>1, EmptyRun
    <3> QED
      BY <3>1, <3>2
  <2> QED
    BY <2>1 DEF Pending
<1>7. AsLog(Whole \ acked) \o todo \in Seq(Records)
  BY <1>5, ConcatProperties
<1> QED
  BY <1>3, <1>4, <1>5, <1>6, <1>7 DEF LogIs

\* The two parts of a concatenation.
LEMMA ConcatParts ==
  ASSUME NEW s \in Seq(Records), NEW t \in Seq(Records)
  PROVE  /\ Len(s \o t) = Len(s) + Len(t)
         /\ s = SubSeq(s \o t, 1, Len(s))
         /\ t = SubSeq(s \o t, Len(s) + 1, Len(s \o t))
<1> DEFINE w == s \o t
<1>1. /\ w \in Seq(Records) /\ Len(w) = Len(s) + Len(t)
      /\ \A i \in 1..(Len(s) + Len(t)) : w[i] = IF i <= Len(s) THEN s[i] ELSE t[i - Len(s)]
  BY ConcatProperties
<1> HIDE DEF w
<1>2. s = SubSeq(w, 1, Len(s))
  BY <1>1
<1>3. t = SubSeq(w, Len(s) + 1, Len(w))
  BY <1>1
<1> QED
  BY <1>1, <1>2, <1>3 DEF w

\* The log of a run with a shorter one taken off its front.
LEMMA Remainder ==
  ASSUME NEW S, NEW T, Numbered(S), Numbered(T), S \subseteq T
  PROVE  /\ AsLog(S) = SubSeq(AsLog(T), 1, Cardinality(S))
         /\ AsLog(T \ S) = SubSeq(AsLog(T), Cardinality(S) + 1, Len(AsLog(T)))
         /\ AsLog(T \ S) \in Seq(Records)
<1>1. PICK a \in Nat : Run(S, 0, a)
  BY DEF Numbered
<1>2. PICK b \in Nat : Run(T, 0, b)
  BY DEF Numbered
<1> DEFINE s == AsLog(S)
           t == AsLog(T \ S)
<1>3. Run(T \ S, a, b) /\ AsLog(T) = s \o t
  BY <1>1, <1>2, RunSplit
<1>4. /\ s \in Seq(Records) /\ Len(s) = a - 0 /\ Cardinality(S) = a - 0
      /\ t \in Seq(Records)
  BY <1>1, <1>3, RunLog, RunCount
<1> HIDE DEF s, t
<1>5. Len(s) = Cardinality(S)
  BY <1>4
<1>6. s = SubSeq(s \o t, 1, Len(s)) /\ t = SubSeq(s \o t, Len(s) + 1, Len(s \o t))
  BY <1>4, ConcatParts
<1> QED
  BY <1>3, <1>4, <1>5, <1>6 DEF s, t

\* Taking two runs off the front one after the other.
LEMMA Remainders ==
  ASSUME NEW S, NEW T, NEW U, Numbered(S), Numbered(T), Numbered(U),
         S \subseteq T, T \subseteq U
  PROVE  AsLog(U \ S) = AsLog(T \ S) \o AsLog(U \ T)
<1>1. PICK a \in Nat : Run(S, 0, a)
  BY DEF Numbered
<1>2. PICK b \in Nat : Run(T, 0, b)
  BY DEF Numbered
<1>3. PICK c \in Nat : Run(U, 0, c)
  BY DEF Numbered
<1>4. Run(T \ S, a, b)
  BY <1>1, <1>2, RunSplit
<1>5. S \subseteq U
  OBVIOUS
<1>6. Run(U \ S, a, c)
  BY <1>1, <1>3, <1>5, RunSplit
<1>7. (U \ S) \ (T \ S) = U \ T /\ T \ S \subseteq U \ S
  OBVIOUS
<1>8. AsLog(U \ S) = AsLog(T \ S) \o AsLog((U \ S) \ (T \ S))
  BY <1>4, <1>6, <1>7, RunSplit
<1> QED
  BY <1>7, <1>8

\* The mapped initial state.
LEMMA MapInit == Init => Log!Init
<1> SUFFICES ASSUME Init
             PROVE  Log!Init
  OBVIOUS
<1>1. AsLog({}) = <<>> /\ cutLogs = {}
  BY EmptyRun DEF Init
<1>2. Cardinality({}) = 0
  BY FS_EmptySet
<1>3. seen \ acked = {} /\ <<>> \o <<>> = <<>>
  BY DEF Init
<1>4. Pending = <<>>
  BY <1>1, <1>3 DEF Init, Pending, Whole
<1> QED
  BY <1>1, <1>2, <1>4 DEF Init, Log!Init

\* Opening and scanning are invisible.
LEMMA MapScan ==
  ASSUME Open \/ ScanFrame
  PROVE  UNCHANGED Log!vars
<1>1. /\ pc \in {"down", "scan"} /\ pc' \in {"down", "scan"}
      /\ UNCHANGED <<todo, seen, acked, stable, cutLogs>>
  BY DEF Open, ScanFrame, call, history
<1>2. Pending' = Pending
  BY <1>1 DEF Pending, Whole
<1> QED
  BY <1>1, <1>2 DEF Log!vars

\* The end of the scan is the recovery: what it found is the acknowledged log
\* and some of what was pending.
LEMMA MapScanEnd ==
  ASSUME IInv, LogInv, LogIs, IInv', LogInv', ScanEnd
  PROVE  Log!Recover
<1>1. /\ pc = "scan" /\ pc' = "ready" /\ index' = index /\ acked' = index
      /\ stable' = stable /\ todo' = <<>> /\ Whole = seen
      /\ cutLogs' \in {cutLogs, cutLogs \cup {index}}
  BY DEF ScanEnd, Cut, Whole
<1>2. acked \subseteq index /\ index \subseteq seen
  BY <1>1, ScanDone DEF ScanEnd, IInv, ScanInv
<1>3. PICK a \in Nat : Run(acked, 0, a)
  BY DEF LogInv, Numbered
<1>4. PICK b \in Nat : Run(index, 0, b)
  BY <1>1 DEF LogInv, Numbered
<1>5. PICK c \in Nat : Run(seen, 0, c)
  BY <1>1 DEF LogInv, Numbered
<1>6. /\ a <= b /\ Run(index \ acked, a, b)
      /\ AsLog(index) = AsLog(acked) \o AsLog(index \ acked)
  BY <1>2, <1>3, <1>4, RunSplit
<1>7. Run(seen \ acked, a, c)
  BY <1>1, <1>2, <1>3, <1>5, RunSplit
<1> DEFINE s == AsLog(index \ acked)
           t == AsLog((seen \ acked) \ (index \ acked))
<1>8. AsLog(seen \ acked) = s \o t /\ b <= c
  BY <1>2, <1>6, <1>7, RunSplit
<1>9. s \in Seq(Records) /\ Len(s) = b - a
  BY <1>6, RunLog
<1>10. t \in Seq(Records)
  <2>1. Run((seen \ acked) \ (index \ acked), b, c)
    BY <1>2, <1>6, <1>7, RunSplit
  <2> QED
    BY <2>1, RunLog
<1> HIDE DEF s, t
<1>11. Pending = (s \o t) \o todo /\ todo \in Seq(Records)
  BY <1>1, <1>8 DEF LogIs
<1>12. b - a \in 0..Len(Pending) /\ s = SubSeq(Pending, 1, b - a)
  <2> DEFINE r == t \o todo
  <2>1. r \in Seq(Records)
    BY <1>10, <1>11, ConcatProperties
  <2>2. Pending = s \o r
    BY <1>9, <1>10, <1>11, ConcatAssociative
  <2> HIDE DEF r
  <2>3. Len(s \o r) = Len(s) + Len(r) /\ s = SubSeq(s \o r, 1, Len(s))
    BY <1>9, <2>1, ConcatParts
  <2> QED
    BY <1>9, <2>1, <2>2, <2>3
<1>13. Pending' = <<>>
  BY <1>1 DEF Pending
<1>14. AsLog(acked') = AsLog(acked) \o SubSeq(Pending, 1, b - a)
  BY <1>1, <1>6, <1>12 DEF s
<1> DEFINE W(C) == {AsLog(x \ stable) : x \in C}
<1>15. AsLog(index \ stable) =
         SubSeq(AsLog(index), Cardinality(stable) + 1, Len(AsLog(index)))
  <2>1. Numbered(stable) /\ Numbered(index) /\ stable \subseteq index
    BY <1>2, <1>4 DEF LogInv, Numbered, IInv, StableInv
  <2> QED
    BY <2>1, Remainder
<1>16. W(cutLogs \cup {index}) = W(cutLogs) \cup {AsLog(index \ stable)}
  OBVIOUS
<1>17. W(cutLogs') \in {W(cutLogs), W(cutLogs) \cup {Log!Unstable(AsLog(index))}}
  BY <1>1, <1>15, <1>16 DEF Log!Unstable
<1> QED
  BY <1>1, <1>12, <1>13, <1>14, <1>17 DEF Log!Recover, Log!Unstable

\* A batch begins with nothing pending and makes its records so.
LEMMA MapBegin ==
  ASSUME LogIs, LogIs', NEW b \in Batches, BeginBatch(b)
  PROVE  Log!Begin
<1>1. pc = "ready" /\ pc' = "batch" /\ UNCHANGED <<acked, stable, cutLogs>>
  BY DEF BeginBatch, history
<1>2. Pending = <<>> /\ Pending' \in Seq(Records)
  BY <1>1 DEF Pending, LogIs
<1> QED
  BY <1>1, <1>2 DEF Log!Begin

\* Writing a batch is invisible: what was still to be written and now is
\* pending, is pending before and after.
LEMMA MapBatchWrite ==
  ASSUME IInv, IInv', LogInv, LogIs, BatchWrite
  PROVE  UNCHANGED Log!vars
<1> DEFINE m == [seq |-> nextSeq, rec |-> Head(todo), offset |-> dataEnd]
           r == Head(todo)
           rest == Tail(todo)
<1>1. /\ pc = "batch" /\ pc' = "batch" /\ UNCHANGED <<acked, stable, saved, cutLogs>>
      /\ index' = index \cup {m} /\ todo' = rest
  BY DEF BatchWrite, Push, history
<1>2. r \in Records /\ rest \in Seq(Records) /\ todo = <<r>> \o rest
  BY DEF LogIs, BatchWrite
<1>3. /\ nextSeq \in Nat /\ saved.seq \in Nat /\ dataEnd \in Nat
      /\ index \in SUBSET Metas /\ acked \in SUBSET Metas
  BY DEF IInv, TypeOK
<1>4. /\ Laid(index, nextSeq, dataEnd)
      /\ acked = TruncatedFrom(index, saved.seq) /\ Laid(acked, saved.seq, saved.end)
  BY <1>1 DEF IInv, OpenInv
<1>5. Run(index, 0, nextSeq) /\ Run(acked, 0, saved.seq) /\ acked \subseteq index
  BY <1>3, <1>4, LaidRun DEF TruncatedFrom
<1>6. Run(index \ acked, saved.seq, nextSeq)
  BY <1>5, RunSplit
<1>7. m \in Metas /\ m.seq = nextSeq /\ m.rec = r
  BY <1>2, <1>3 DEF Metas
<1>8. m \notin acked
  BY <1>3, <1>4, <1>7, MetaFields DEF Laid, TruncatedFrom
<1> HIDE DEF m, r, rest
<1>9. (index \cup {m}) \ acked = (index \ acked) \cup {m}
  BY <1>8
<1> DEFINE s == AsLog(index \ acked)
<1>10. AsLog((index \ acked) \cup {m}) = Append(s, r)
  BY <1>6, <1>7, RunPush
<1>11. s \in Seq(Records)
  BY <1>6, RunLog
<1> HIDE DEF s
<1>12. Append(s, r) \o rest = s \o (<<r>> \o rest)
  <2>1. Append(s, r) = s \o <<r>> /\ <<r>> \in Seq(Records)
    BY <1>2, <1>11, AppendIsConcat
  <2> QED
    BY <1>2, <1>11, <2>1, ConcatAssociative
<1>13. Pending = s \o todo
  BY <1>1 DEF Pending, Whole, s
<1>14. Pending' = Append(s, r) \o rest
  BY <1>1, <1>9, <1>10 DEF Pending, Whole
<1>15. Pending' = Pending
  BY <1>2, <1>12, <1>13, <1>14
<1> QED
  BY <1>1, <1>15 DEF Log!vars

\* A write that fails changes only bytes behind the log.
LEMMA MapBatchWriteFails ==
  ASSUME BatchWriteFails
  PROVE  UNCHANGED Log!vars
<1>1. /\ pc = "batch" /\ pc' = "undo"
      /\ UNCHANGED <<acked, stable, cutLogs, index, todo>>
  BY DEF BatchWriteFails, TornWrite, call, history, mem
<1>2. Pending' = Pending
  BY <1>1 DEF Pending, Whole
<1> QED
  BY <1>1, <1>2 DEF Log!vars

\* A rollback leaves the acknowledged log and drops the call, which a power
\* loss may still bring back as far as it was written.
LEMMA MapUndo ==
  ASSUME IInv, LogInv, LogIs, Undo
  PROVE  Log!Abort
<1>1. /\ pc = "undo" /\ pc' = "ready" /\ UNCHANGED <<acked, stable>>
      /\ cutLogs' = cutLogs \cup {index} /\ Whole = index
  BY DEF Undo, Cut, Whole
<1>2. Pending' = <<>>
  BY <1>1 DEF Pending
<1>3. /\ Numbered(stable) /\ Numbered(acked) /\ Numbered(index)
      /\ stable \subseteq acked /\ acked \subseteq index
  BY <1>1, AckedInWhole DEF LogInv, IInv, StableInv
<1> DEFINE t == AsLog(acked \ stable)
           u == AsLog(index \ acked)
           W(C) == {AsLog(x \ stable) : x \in C}
<1>4. AsLog(index \ stable) = t \o u
  BY <1>3, Remainders
<1>5. t = Log!Unstable(AsLog(acked))
  BY <1>3, Remainder DEF Log!Unstable
<1>6. Pending = u \o todo /\ u \in Seq(Records) /\ todo \in Seq(Records)
  BY <1>1 DEF LogIs
<1>7. W(cutLogs \cup {index}) = W(cutLogs) \cup {AsLog(index \ stable)}
  OBVIOUS
<1> HIDE DEF t, u
<1>8. u = SubSeq(Pending, 1, Len(u)) /\ Len(u) \in 0..Len(Pending)
  BY <1>6, ConcatParts
<1>9. {AsLog(x \ stable) : x \in cutLogs}' =
        W(cutLogs) \cup {Log!Unstable(AsLog(acked)) \o SubSeq(Pending, 1, Len(u))}
  BY <1>1, <1>4, <1>5, <1>7, <1>8
<1> QED
  BY <1>1, <1>2, <1>8, <1>9 DEF Log!Abort

\* The answer of append_batch acknowledges all it wrote.
LEMMA MapBatchDone ==
  ASSUME IInv, LogIs, BatchDone
  PROVE  Log!Commit
<1>1. /\ pc = "batch" /\ pc' = "ready" /\ todo = <<>> /\ UNCHANGED <<stable, cutLogs>>
      /\ acked' = acked \cup {m \in index : m.seq >= saved.seq}
  BY DEF BatchDone, history
<1>2. acked = TruncatedFrom(index, saved.seq) /\ saved.seq \in Nat
      /\ \A m \in index : m.seq \in Nat
  BY <1>1, MetaFields DEF IInv, OpenInv, TypeOK
<1>3. acked' = index
  BY <1>1, <1>2 DEF TruncatedFrom
<1> DEFINE s == AsLog(index \ acked)
<1>4. s \in Seq(Records) /\ AsLog(index) = AsLog(acked) \o s /\ Pending = s \o todo
  BY <1>1 DEF LogIs, Whole
<1>5. Pending = s
  BY <1>1, <1>4, ConcatEmptySeq
<1>6. Pending' = <<>>
  BY <1>1 DEF Pending
<1>7. AsLog(acked') = AsLog(acked) \o Pending
  BY <1>3, <1>4, <1>5
<1> QED
  BY <1>1, <1>6, <1>7 DEF Log!Commit

\* A plain append is acknowledged as it is written.
LEMMA MapAppend1 ==
  ASSUME IInv, NEW r \in Records, Append1(r)
  PROVE  Log!AppendOne(r)
<1> DEFINE m == [seq |-> nextSeq, rec |-> r, offset |-> dataEnd]
<1>1. /\ pc = "ready" /\ pc' = "ready" /\ UNCHANGED <<stable, cutLogs>>
      /\ index' = index \cup {m} /\ acked' = acked \cup (index' \ index)
  BY DEF Append1, Push
<1>2. /\ acked = index /\ Run(index, 0, nextSeq)
      /\ nextSeq \in Nat /\ dataEnd \in Nat
  BY <1>1, LaidRun DEF IInv, OpenInv, TypeOK
<1>3. m \in Metas /\ m.seq = nextSeq /\ m.rec = r
  BY <1>2 DEF Metas
<1> HIDE DEF m
<1>4. acked' = acked \cup {m}
  BY <1>1, <1>2
<1>5. AsLog(acked') = Append(AsLog(acked), r)
  BY <1>2, <1>3, <1>4, RunPush
<1>6. Pending = <<>> /\ Pending' = <<>>
  BY <1>1 DEF Pending
<1> QED
  BY <1>1, <1>5, <1>6 DEF Log!AppendOne

\* A completed sync_data covers the whole acknowledged log.
LEMMA MapSyncData ==
  ASSUME LogIs, SyncData
  PROVE  Log!Flush
<1>1. /\ pc = "ready" /\ pc' = "header" /\ acked' = acked /\ stable' = acked
      /\ cutLogs' = {}
  BY DEF SyncData
<1>2. Pending = <<>> /\ Pending' = <<>>
  BY <1>1 DEF Pending
<1> QED
  BY <1>1, <1>2 DEF Log!Flush, LogIs

\* The header rewrite is invisible.
LEMMA MapWriteHeader ==
  ASSUME WriteHeader
  PROVE  UNCHANGED Log!vars
<1>1. pc = "header" /\ pc' = "ready" /\ UNCHANGED <<acked, stable, cutLogs>>
  BY DEF WriteHeader, history
<1>2. Pending = <<>> /\ Pending' = <<>>
  BY <1>1 DEF Pending
<1> QED
  BY <1>1, <1>2 DEF Log!vars

\* A kill leaves what was being written pending; one during the scan is
\* invisible.
LEMMA MapKill ==
  ASSUME LogIs, LogIs', Kill
  PROVE  Log!Kill \/ UNCHANGED Log!vars
<1>1. /\ Alive /\ pc' = "down" /\ UNCHANGED <<acked, stable, todo, cutLogs>>
      /\ seen' = Whole
  BY DEF Kill, Dies
<1>2. Whole' = Whole
  BY <1>1 DEF Whole, Alive
<1>3. Pending' = Pending
  BY <1>1, <1>2 DEF LogIs
<1> QED
  BY <1>1, <1>3 DEF Log!Kill, Log!vars, Alive

\* A power loss takes back to the stable log what was not synced, and leaves
\* pending what follows it in the version of the file that survives.
LEMMA MapPowerLoss ==
  ASSUME IInv, LogInv, LogIs, LogIs', PowerLoss
  PROVE  Log!PowerLoss
<1>1. /\ pc' = "down" /\ acked' = stable /\ stable' = stable /\ cutLogs' = {}
      /\ \E v \in Versions : seen' = v.frames /\ todo' = v.todo
  BY DEF PowerLoss, Dies
<1>2. PICK v \in Versions : seen' = v.frames /\ todo' = v.todo
  BY <1>1
<1>3. /\ Numbered(stable) /\ Numbered(acked) /\ Numbered(Whole)
      /\ stable \subseteq acked /\ acked \subseteq Whole
  BY AckedInWhole DEF LogInv, IInv, StableInv
<1>4. Pending' = AsLog(v.frames \ stable) \o v.todo
  BY <1>1, <1>2 DEF LogIs, Whole
<1>5. AsLog(acked') = SubSeq(AsLog(acked), 1, Cardinality(stable))
  BY <1>1, <1>3, Remainder
<1>6. CASE v = [file |-> file, frames |-> Whole, todo |-> todo]
  <2> DEFINE t == AsLog(acked \ stable)
             u == AsLog(Whole \ acked)
  <2>1. v.frames = Whole /\ v.todo = todo
    BY <1>6
  <2>2. AsLog(Whole \ stable) = t \o u
    BY <1>3, Remainders
  <2>3. t = Log!Unstable(AsLog(acked)) /\ t \in Seq(Records)
    BY <1>3, Remainder DEF Log!Unstable
  <2>4. Pending = u \o todo /\ u \in Seq(Records) /\ todo \in Seq(Records)
    BY DEF LogIs
  <2> HIDE DEF t, u
  <2>5. Pending' = t \o Pending
    <3>1. Pending' = (t \o u) \o todo
      BY <1>4, <2>1, <2>2
    <3>2. t \in Seq(Records)
      BY <2>3
    <3>3. (t \o u) \o todo = t \o (u \o todo)
      BY <2>4, <3>2, ConcatAssociative
    <3> QED
      BY <2>4, <3>1, <3>3
  <2> QED
    BY <1>1, <1>5, <2>3, <2>5 DEF Log!PowerLoss
<1>7. CASE v \in undone
  <2>1. v.todo = <<>> /\ v.frames \in cutLogs
    BY <1>7 DEF IInv, TypeOK, UndoneInv
  <2> DEFINE w == AsLog(v.frames \ stable)
  <2>2. w \in Seq(Records)
    <3>1. Numbered(v.frames) /\ stable \subseteq v.frames
      BY <1>7, <2>1 DEF LogInv, IInv, UndoneInv
    <3> QED
      BY <1>3, <3>1, Remainder
  <2>3. w \in {AsLog(s \ stable) : s \in cutLogs}
    BY <2>1
  <2> HIDE DEF w
  <2>4. Pending' = w
    BY <1>4, <2>1, <2>2, ConcatEmptySeq DEF w
  <2> QED
    BY <1>1, <1>5, <2>3, <2>4 DEF Log!PowerLoss
<1> QED
  BY <1>6, <1>7 DEF Versions

\* Every step of the store is a step of the log or leaves it as it is.
LEMMA MapNext ==
  ASSUME Faults \subseteq HandledFaults, IInv, IInv', LogInv, LogInv', LogIs, LogIs',
         [Next]_vars
  PROVE  [Log!Next]_(Log!vars)
<1>1. CASE Open \/ ScanFrame
  BY <1>1, MapScan
<1>2. CASE ScanEnd
  BY <1>2, MapScanEnd DEF Log!Next
<1>3. CASE \E b \in Batches : BeginBatch(b)
  BY <1>3, MapBegin DEF Log!Next
<1>4. CASE BatchWrite
  BY <1>4, MapBatchWrite
<1>5. CASE BatchWriteFails
  BY <1>5, MapBatchWriteFails
<1>6. CASE Undo
  BY <1>6, MapUndo DEF Log!Next
<1>7. CASE BatchDone
  BY <1>7, MapBatchDone DEF Log!Next
<1>8. CASE \E r \in Records : Append1(r)
  BY <1>8, MapAppend1 DEF Log!Next
<1>9. CASE SyncData
  BY <1>9, MapSyncData DEF Log!Next
<1>10. CASE WriteHeader
  BY <1>10, MapWriteHeader
<1>11. CASE Kill
  BY <1>11, MapKill DEF Log!Next
<1>12. CASE PowerLoss
  BY <1>12, MapPowerLoss DEF Log!Next
<1>13. CASE UNCHANGED vars
  <2>1. UNCHANGED <<pc, index, todo, acked, stable, seen, cutLogs>>
    BY <1>13 DEF vars, mem, call, history
  <2> QED
    BY <2>1 DEF Log!vars, Pending, Whole
<1>14. /\ ~UndoFails /\ ~WriteHeaderFails /\ ~MixedLoss
       /\ \A r \in Records : ~Append1Fails(r)
  BY DEF UndoFails, WriteHeaderFails, Append1Fails, MixedLoss, HandledFaults
<1> QED
  BY <1>1, <1>2, <1>3, <1>4, <1>5, <1>6, <1>7, <1>8, <1>9, <1>10, <1>11, <1>12,
     <1>13, <1>14 DEF Next

\* Whatever batches fail and whatever crashes come, a caller of the store sees
\* an append-only log: a recovered log is what was acknowledged and not lost,
\* followed by a prefix, in order and without a gap, of what was not.
THEOREM Refinement ==
  ASSUME Faults \subseteq HandledFaults
  PROVE  Spec => ImplementsLog
<1>1. Init => IInv /\ LogInv
  BY InitInv, LogInit
<1>2. IInv /\ LogInv /\ [Next]_vars => IInv' /\ LogInv'
  BY NextInv, LogStep
<1>3. IInv /\ LogInv => LogIs
  BY LogOf
<1>4. IInv /\ IInv' /\ LogInv /\ LogInv' /\ LogIs /\ LogIs' /\ [Next]_vars
        => [Log!Next]_(Log!vars)
  BY MapNext
<1> QED
  BY <1>1, <1>2, <1>3, <1>4, MapInit, PTL DEF Spec, ImplementsLog, Log!Spec
=============================================================================
