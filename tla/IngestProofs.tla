---------------------------- MODULE IngestProofs -----------------------------
(***************************************************************************)
(* Proofs about Ingest for every set of sources and lines, every choice of *)
(* operations and failures and every bound:                                *)
(*   - Invariance: what the writer knows is what L1 says, and every event  *)
(*     points at its evidence;                                             *)
(*   - NoDuplicates: an event id is in L1 once;                            *)
(*   - Exactness: the sidecar is the projection of L1, record by record;   *)
(*   - Survival: a search finds what the files hold.                       *)
(* They rest on what a batch is (Acceptable), on what replaying a batch on *)
(* top of a log gives (IdsJoined, CheckpointsJoined) and on what           *)
(* projecting it gives (ProjectionJoined).  Induction over batches and     *)
(* over the projection's steps is by the least counterexample              *)
(* (LeastNumber).                                                          *)
(***************************************************************************)
EXTENDS Ingest, Numbers, FiniteSetTheorems, SequenceTheorems, TLAPS

-----------------------------------------------------------------------------
(* The n-th number of a set.                                               *)

\* Nth is defined.
LEMMA NthElement ==
  ASSUME NEW m \in Nat, NEW I, I \subseteq 1..m, NEW n \in 1..Cardinality(I)
  PROVE  Nth(I, n) \in I /\ Cardinality({j \in I : j <= Nth(I, n)}) = n
<1>1. I \subseteq 0..m
  OBVIOUS
<1>2. Nth(I, n) = CHOOSE x \in I : Rank(I, x) = n
  BY DEF Nth, Rank
<1>3. Nth(I, n) \in I /\ Rank(I, Nth(I, n)) = n
  BY <1>1, <1>2, RankChosen
<1> QED
  BY <1>3 DEF Rank

-----------------------------------------------------------------------------
(* Data.                                                                   *)

\* What a source holds is a snapshot, and no line of it occurs twice.
LEMMA ContentFacts ==
  ASSUME NEW s \in Sources, NEW c \in ContentOf(s)
  PROVE  /\ c \in Snapshots
         /\ c.lines \in Seq(Lines)
         /\ Injective(c.lines)
         /\ Completed(c) \in 0..Len(c.lines)
<1>1. c.lines \in BoundedSeq(LinesAt[s], MaxLines) /\ c.open \in BOOLEAN
      /\ c = [lines |-> c.lines, open |-> c.open] /\ Injective(c.lines)
      /\ (c.open => c.lines # <<>>)
  BY DEF ContentOf, Contents
<1>2. LinesAt[s] \subseteq Lines /\ MaxLines \in Nat
  BY IngestAssumption
<1>3. c.lines \in BoundedSeq(Lines, MaxLines)
  <2>1. ASSUME NEW n \in 0..MaxLines, NEW f \in [1..n -> LinesAt[s]]
        PROVE  f \in [1..n -> Lines]
    BY <1>2
  <2> QED
    BY <1>1, <2>1 DEF BoundedSeq, SeqOf
<1>4. c \in Snapshots
  BY <1>1, <1>3 DEF Snapshots
<1>5. PICK n \in 0..MaxLines : c.lines \in [1..n -> Lines]
  BY <1>3 DEF BoundedSeq, SeqOf
<1>6. n \in Nat /\ c.lines \in Seq(Lines) /\ Len(c.lines) = n
  BY <1>2, <1>5
<1>7. c.open => Len(c.lines) # 0
  BY <1>1, <1>6, EmptySeq
<1> QED
  BY <1>1, <1>4, <1>6, <1>7 DEF Completed

LEMMA SnapshotFacts ==
  ASSUME NEW c \in Snapshots
  PROVE  /\ c.lines \in Seq(Lines)
         /\ Completed(c) \in 0..Len(c.lines)
<1>1. c.lines \in BoundedSeq(Lines, MaxLines) /\ c.open \in BOOLEAN
      /\ (c.open => c.lines # <<>>)
  BY DEF Snapshots
<1>2. PICK n \in 0..MaxLines : c.lines \in [1..n -> Lines]
  BY <1>1 DEF BoundedSeq, SeqOf
<1>3. MaxLines \in Nat
  BY IngestAssumption
<1>4. n \in Nat /\ c.lines \in Seq(Lines) /\ Len(c.lines) = n
  BY <1>2, <1>3
<1>5. c.open => Len(c.lines) # 0
  BY <1>1, <1>4, EmptySeq
<1> QED
  BY <1>1, <1>4, <1>5 DEF Completed

\* The four kinds of records.
LEMMA RecordTypes ==
  ASSUME NEW s \in Sources, NEW g \in Gens
  PROVE  /\ \A l \in Lines : Evidence(s, g, l) \in Records
         /\ \A l \in Lines, n \in Nat : Event(s, g, l, n) \in Records
         /\ \A c \in Snapshots : Checkpoint(s, g, c) \in Records
         /\ Visibility(s, g) \in Records
BY DEF Evidence, Event, Checkpoint, Visibility, Records

LEMMA RecordFields ==
  ASSUME NEW r \in Records
  PROVE  /\ r.src \in Sources /\ r.gen \in Gens
         /\ r.kind = "event" => r.line \in Lines /\ r.evidence \in Nat
         /\ r.kind = "checkpoint" => r.snap \in Snapshots
<1> HIDE DEF Snapshots, Gens
<1>1. CASE r \in [kind : {"evidence"}, src : Sources, gen : Gens, line : Lines]
  BY <1>1
<1>2. CASE r \in [kind : {"event"}, src : Sources, gen : Gens, line : Lines, evidence : Nat]
  BY <1>2
<1>3. CASE r \in [kind : {"checkpoint"}, src : Sources, gen : Gens, snap : Snapshots]
  BY <1>3
<1>4. CASE r \in [kind : {"visibility"}, src : Sources, gen : Gens]
  BY <1>4
<1> QED
  BY <1>1, <1>2, <1>3, <1>4 DEF Records

\* The checkpoints a log replays to.
LEMMA CheckpointTypes ==
  ASSUME NEW recs \in Seq(Records)
  PROVE  /\ DOMAIN CheckpointsIn(recs) \subseteq Sources
         /\ \A s \in DOMAIN CheckpointsIn(recs) :
              CheckpointsIn(recs)[s] \in [gen : Gens, snap : Snapshots]
<1> DEFINE Of(s) == {i \in OfKind(recs, "checkpoint") : recs[i].src = s}
<1>1. \A i \in DOMAIN recs : recs[i] \in Records
  OBVIOUS
<1>2. DOMAIN CheckpointsIn(recs) = {recs[i].src : i \in OfKind(recs, "checkpoint")}
  BY DEF CheckpointsIn
<1>3. ASSUME NEW s \in DOMAIN CheckpointsIn(recs)
      PROVE  \E k \in Of(s) : LastCheckpoint(recs, s) = recs[k]
  <2>1. Of(s) \subseteq 1..Len(recs) /\ Of(s) # {} /\ Len(recs) \in Nat
    BY <1>2, <1>3 DEF OfKind
  <2>2. \E k \in Of(s) : \A j \in Of(s) : j <= k
    <3> HIDE DEF Of
    <3> QED
      BY <2>1, GreatestNumber
  <2> QED
    BY <2>2 DEF LastCheckpoint
<1>4. DOMAIN CheckpointsIn(recs) \subseteq Sources
  BY <1>1, <1>2, RecordFields DEF OfKind
<1>5. ASSUME NEW s \in DOMAIN CheckpointsIn(recs)
      PROVE  CheckpointsIn(recs)[s] \in [gen : Gens, snap : Snapshots]
  <2>1. PICK k \in Of(s) : LastCheckpoint(recs, s) = recs[k]
    BY <1>3
  <2>2. recs[k] \in Records /\ recs[k].kind = "checkpoint"
    BY <1>1, <2>1 DEF OfKind
  <2>3. recs[k].gen \in Gens /\ recs[k].snap \in Snapshots
    BY <2>2, RecordFields
  <2>4. CheckpointsIn(recs)[s] = [gen |-> recs[k].gen, snap |-> recs[k].snap]
    BY <1>2, <2>1 DEF CheckpointsIn
  <2> QED
    BY <2>3, <2>4
<1> QED
  BY <1>4, <1>5

-----------------------------------------------------------------------------
(* What a reconciliation appends.                                          *)

LEMMA GenerationType ==
  ASSUME TypeOK, NEW s \in Sources, NEW force \in BOOLEAN
  PROVE  /\ GenerationFor(s, force) \in Gens
         /\ Known(s) => sources[s].gen \in Gens /\ sources[s].snap \in Snapshots
<1>1. Known(s) => sources[s] \in [gen : Gens, snap : Snapshots]
  BY DEF TypeOK, Known
<1>2. Known(s) => sources[s].gen \in Gens /\ sources[s].snap \in Snapshots
  <2> HIDE DEF Gens, Snapshots
  <2> QED
    BY <1>1
<1> QED
  BY <1>2 DEF GenerationFor, Gens

\* The new lines are lines of the file, no two are equal, and none has an
\* event in L1.
LEMMA NewLinesFacts ==
  ASSUME TypeOK, NEW s \in Sources, files[s] # Gone, NEW force \in BOOLEAN
  PROVE  /\ NewLines(s, force) \in Seq(Lines)
         /\ \A m, n \in 1..Len(NewLines(s, force)) :
              NewLines(s, force)[m] = NewLines(s, force)[n] => m = n
         /\ \A n \in 1..Len(NewLines(s, force)) :
              <<GenerationFor(s, force), NewLines(s, force)[n]>> \notin eventIds
<1> DEFINE new == NewLines(s, force)
           fresh == Fresh(s, force)
           full == Completed(files[s])
<1>1. files[s] \in ContentOf(s)
  BY DEF TypeOK
<1>2. /\ files[s].lines \in Seq(Lines) /\ Injective(files[s].lines)
      /\ full \in 0..Len(files[s].lines)
  BY <1>1, ContentFacts
<1>3. /\ fresh \subseteq 1..full
      /\ \A i \in fresh : <<GenerationFor(s, force), files[s].lines[i]>> \notin eventIds
  <2>1. ASSUME Grew(s, force)
        PROVE  Completed(sources[s].snap) \in Nat
    <3>1. Known(s)
      BY <2>1 DEF Grew
    <3>2. sources[s].snap \in Snapshots
      BY <3>1, GenerationType
    <3>3. sources[s].snap.lines \in Seq(Lines)
          /\ Completed(sources[s].snap) \in 0..Len(sources[s].snap.lines)
      BY <3>2, SnapshotFacts
    <3> QED
      BY <3>3
  <2>2. full \in Nat
    BY <1>2
  <2> QED
    BY <2>1, <2>2 DEF Fresh
<1>4. full \in Nat /\ full <= Len(files[s].lines) /\ Len(files[s].lines) \in Nat
  BY <1>2
<1>5. IsFiniteSet(fresh) /\ Cardinality(fresh) \in Nat
  <2> HIDE DEF fresh, full
  <2>1. IsFiniteSet(1..full)
    BY <1>4, FS_Interval
  <2> QED
    BY <1>3, <2>1, FS_Subset, FS_CardinalityType
<1>6. ASSUME NEW n \in 1..Cardinality(fresh)
      PROVE  /\ Nth(fresh, n) \in fresh
             /\ Cardinality({j \in fresh : j <= Nth(fresh, n)}) = n
  <2> HIDE DEF fresh, full
  <2> QED
    BY <1>3, <1>4, NthElement
<1>7. new = [n \in 1..Cardinality(fresh) |-> files[s].lines[Nth(fresh, n)]]
  BY DEF NewLines
<1>8. ASSUME NEW n \in 1..Cardinality(fresh)
      PROVE  /\ Nth(fresh, n) \in DOMAIN files[s].lines
             /\ files[s].lines[Nth(fresh, n)] \in Lines
  <2> HIDE DEF fresh, full
  <2>1. Nth(fresh, n) \in 1..full
    BY <1>3, <1>6
  <2>2. Nth(fresh, n) \in 1..Len(files[s].lines)
    BY <1>4, <2>1
  <2> QED
    BY <1>2, <2>2
<1> HIDE DEF new, fresh, full
<1>9. new \in Seq(Lines) /\ Len(new) = Cardinality(fresh)
  BY <1>5, <1>7, <1>8
<1>10. ASSUME NEW m \in 1..Cardinality(fresh), NEW n \in 1..Cardinality(fresh),
              new[m] = new[n]
       PROVE  m = n
  <2>1. Nth(fresh, m) = Nth(fresh, n)
    BY <1>2, <1>7, <1>8, <1>10 DEF Injective
  <2> QED
    BY <1>6, <2>1
<1>11. ASSUME NEW n \in 1..Cardinality(fresh)
       PROVE  <<GenerationFor(s, force), new[n]>> \notin eventIds
  BY <1>3, <1>6, <1>7
<1> QED
  BY <1>9, <1>10, <1>11 DEF new

\* A batch that may be appended: its events point at their evidence inside the
\* batch, and their ids are new and distinct.
Acceptable(recs) ==
  /\ recs \in Seq(Records)
  /\ \A i \in OfKind(recs, "event") :
       /\ i - 1 \in DOMAIN recs
       /\ recs[i].evidence = Len(log) + i - 2
       /\ recs[i - 1] = Evidence(recs[i].src, recs[i].gen, recs[i].line)
       /\ IdOf(recs[i]) \notin eventIds
  /\ \A i, j \in OfKind(recs, "event") : IdOf(recs[i]) = IdOf(recs[j]) => i = j

LEMMA ControlAcceptable ==
  ASSUME NEW s \in Sources, NEW g \in Gens
  PROVE  Acceptable(<<Visibility(s, g)>>)
<1>1. <<Visibility(s, g)>> \in Seq(Records)
  BY RecordTypes
<1>2. OfKind(<<Visibility(s, g)>>, "event") = {}
  BY DEF OfKind, Visibility
<1> QED
  BY <1>1, <1>2 DEF Acceptable

LEMMA EmptyAcceptable == Acceptable(<<>>)
<1>1. <<>> \in Seq(Records) /\ OfKind(<<>>, "event") = {}
  BY DEF OfKind
<1> QED
  BY <1>1 DEF Acceptable

\* So may each of its prefixes.
LEMMA PrefixAcceptable ==
  ASSUME NEW recs, Acceptable(recs), NEW n \in 1..Len(recs)
  PROVE  Acceptable(SubSeq(recs, 1, n))
<1> DEFINE pre == SubSeq(recs, 1, n)
<1>1. recs \in Seq(Records) /\ Len(recs) \in Nat
  BY DEF Acceptable
<1>2. pre \in Seq(Records) /\ Len(pre) = n /\ \A i \in 1..n : pre[i] = recs[i]
  BY <1>1
<1> HIDE DEF pre
<1>3. DOMAIN pre = 1..n /\ DOMAIN recs = 1..Len(recs)
  BY <1>1, <1>2
<1>4. \A i \in OfKind(pre, "event") : i \in OfKind(recs, "event") /\ pre[i] = recs[i]
  BY <1>1, <1>2, <1>3 DEF OfKind
<1>5. ASSUME NEW i \in OfKind(pre, "event")
      PROVE  /\ i - 1 \in DOMAIN pre
             /\ pre[i].evidence = Len(log) + i - 2
             /\ pre[i - 1] = Evidence(pre[i].src, pre[i].gen, pre[i].line)
             /\ IdOf(pre[i]) \notin eventIds
  <2>1. i \in 1..n /\ i \in OfKind(recs, "event") /\ pre[i] = recs[i]
    BY <1>3, <1>4 DEF OfKind
  <2>2. i - 1 \in DOMAIN recs
    BY <2>1 DEF Acceptable
  <2>3. i - 1 \in 1..n
    BY <1>1, <1>3, <2>1, <2>2
  <2>4. pre[i - 1] = recs[i - 1]
    BY <1>2, <2>3
  <2> QED
    BY <1>3, <2>1, <2>3, <2>4 DEF Acceptable
<1>6. \A i, j \in OfKind(pre, "event") : IdOf(pre[i]) = IdOf(pre[j]) => i = j
  BY <1>4 DEF Acceptable
<1> QED
  BY <1>2, <1>5, <1>6 DEF Acceptable, pre

\* The records of a reconciliation, one by one: c is 1 if there is a control.
LEMMA BatchRecords ==
  ASSUME TypeOK, NEW s \in Sources, files[s] # Gone, NEW force \in BOOLEAN
  PROVE  \E c \in 0..1, N \in Nat :
           /\ N = Len(NewLines(s, force))
           /\ Batch(s, force) \in Seq(Records)
           /\ Len(Batch(s, force)) = c + 2 * N + 1
           /\ \A i \in 1..(c + 2 * N + 1) :
                Batch(s, force)[i].kind = "event" =>
                  \E k \in 1..N :
                    /\ i = c + 2 * k
                    /\ Batch(s, force)[i] =
                         Event(s, GenerationFor(s, force), NewLines(s, force)[k],
                               Len(log) + i - 2)
                    /\ Batch(s, force)[i - 1] =
                         Evidence(s, GenerationFor(s, force), NewLines(s, force)[k])
           /\ c = IF Known(s) /\ ~Grew(s, force) THEN 1 ELSE 0
           /\ c = 1 => Batch(s, force)[1] = Visibility(s, sources[s].gen)
           /\ \A k \in 1..N :
                /\ Batch(s, force)[c + 2 * k] =
                     Event(s, GenerationFor(s, force), NewLines(s, force)[k],
                           Len(log) + c + 2 * k - 2)
                /\ Batch(s, force)[c + 2 * k - 1] =
                     Evidence(s, GenerationFor(s, force), NewLines(s, force)[k])
           /\ Batch(s, force)[c + 2 * N + 1] =
                Checkpoint(s, GenerationFor(s, force), files[s])
<1> DEFINE g == GenerationFor(s, force)
           new == NewLines(s, force)
           control == Superseded(s, force)
           N == Len(new)
           c == Len(control)
           event(i) == Event(s, g, new[i], Len(log) + Len(control) + 2 * i - 2)
           pairs == [i \in 1..(2 * N) |->
                       IF i % 2 = 1 THEN Evidence(s, g, new[(i + 1) \div 2])
                       ELSE event(i \div 2)]
           last == <<Checkpoint(s, g, files[s])>>
<1>1. g \in Gens /\ new \in Seq(Lines) /\ N \in Nat
  BY GenerationType, NewLinesFacts
<1>2. files[s] \in Snapshots
  BY ContentFacts DEF TypeOK
<1>3. Len(log) \in Nat
  BY DEF TypeOK
<1>4. /\ control \in Seq(Records) /\ c \in 0..1
      /\ \A i \in 1..c : control[i].kind # "event"
  <2>1. CASE Known(s) /\ ~Grew(s, force)
    <3>1. sources[s].gen \in Gens
      BY <2>1, GenerationType
    <3>2. Visibility(s, sources[s].gen) \in Records
      BY <3>1, RecordTypes
    <3>3. control = <<Visibility(s, sources[s].gen)>>
      BY <2>1 DEF Superseded
    <3> QED
      BY <3>2, <3>3 DEF Visibility
  <2>2. CASE ~(Known(s) /\ ~Grew(s, force))
    <3>1. control = <<>>
      BY <2>2 DEF Superseded
    <3> QED
      BY <3>1
  <2> QED
    BY <2>1, <2>2
<1>5. Batch(s, force) = control \o pairs \o last
  BY DEF Batch
<1> HIDE DEF g, new, control
<1>6. ASSUME NEW k \in 1..N
      PROVE  /\ new[k] \in Lines
             /\ Len(log) + Len(control) + 2 * k - 2 \in Nat
             /\ 2 * k \in 1..(2 * N) /\ 2 * k - 1 \in 1..(2 * N)
  BY <1>1, <1>3, <1>4
<1>7. ASSUME NEW i \in 1..(2 * N)
      PROVE  \E k \in 1..N :
               \/ i = 2 * k /\ pairs[i] = event(k)
               \/ i = 2 * k - 1 /\ pairs[i] = Evidence(s, g, new[k])
  <2>1. CASE i % 2 = 1
    <3>1. (i + 1) \div 2 \in 1..N /\ i = 2 * ((i + 1) \div 2) - 1
      BY <1>1, <2>1
    <3>2. pairs[i] = Evidence(s, g, new[(i + 1) \div 2])
      BY <2>1
    <3> QED
      BY <3>1, <3>2
  <2>2. CASE i % 2 # 1
    <3>1. i \div 2 \in 1..N /\ i = 2 * (i \div 2)
      BY <1>1, <2>2
    <3>2. pairs[i] = event(i \div 2)
      BY <2>2
    <3> QED
      BY <3>1, <3>2
  <2> QED
    BY <2>1, <2>2
<1>8. ASSUME NEW k \in 1..N
      PROVE  pairs[2 * k] = event(k) /\ pairs[2 * k - 1] = Evidence(s, g, new[k])
  <2>1. 2 * k \in 1..(2 * N) /\ (2 * k) % 2 = 0 /\ (2 * k) \div 2 = k
    BY <1>1
  <2>2. /\ 2 * k - 1 \in 1..(2 * N) /\ (2 * k - 1) % 2 = 1
        /\ ((2 * k - 1) + 1) \div 2 = k
    BY <1>1
  <2> QED
    BY <2>1, <2>2
<1>9. pairs \in Seq(Records) /\ Len(pairs) = 2 * N
  <2>1. ASSUME NEW i \in 1..(2 * N)
        PROVE  pairs[i] \in Records
    <3>1. PICK k \in 1..N :
            pairs[i] = event(k) \/ pairs[i] = Evidence(s, g, new[k])
      BY <1>7
    <3> HIDE DEF pairs
    <3>2. event(k) \in Records /\ Evidence(s, g, new[k]) \in Records
      BY <1>1, <1>6, RecordTypes
    <3> QED
      BY <3>1, <3>2
  <2>2. 2 * N \in Nat
    BY <1>1
  <2>3. pairs \in [1..(2 * N) -> Records]
    BY <2>1
  <2> HIDE DEF pairs
  <2> QED
    BY <2>2, <2>3
<1>10. /\ last \in Seq(Records) /\ Len(last) = 1 /\ last[1].kind # "event"
       /\ last[1] = Checkpoint(s, g, files[s])
  <2>1. Checkpoint(s, g, files[s]) \in Records
    BY <1>1, <1>2, RecordTypes
  <2> QED
    BY <2>1 DEF Checkpoint
<1> HIDE DEF pairs, last
<1>11. /\ control \o pairs \in Seq(Records)
       /\ Len(control \o pairs) = c + 2 * N
       /\ \A i \in 1..(c + 2 * N) :
            (control \o pairs)[i] = IF i <= c THEN control[i] ELSE pairs[i - c]
  <2>1. /\ control \o pairs \in Seq(Records)
        /\ Len(control \o pairs) = Len(control) + Len(pairs)
        /\ \A i \in 1..(Len(control) + Len(pairs)) :
             (control \o pairs)[i] = IF i <= Len(control) THEN control[i]
                                     ELSE pairs[i - Len(control)]
    BY <1>4, <1>9, ConcatProperties
  <2> QED
    BY <1>9, <2>1
<1>12. /\ Batch(s, force) \in Seq(Records)
       /\ Len(Batch(s, force)) = c + 2 * N + 1
       /\ \A i \in 1..(c + 2 * N + 1) :
            Batch(s, force)[i] = IF i <= c + 2 * N THEN (control \o pairs)[i]
                                 ELSE last[i - (c + 2 * N)]
  <2> DEFINE front == control \o pairs
  <2>1. c + 2 * N \in Nat
    BY <1>1, <1>4
  <2>2. front \in Seq(Records) /\ Len(front) = c + 2 * N
    BY <1>11
  <2>3. Batch(s, force) = front \o last
    BY <1>5
  <2> HIDE DEF front
  <2>4. /\ front \o last \in Seq(Records)
        /\ Len(front \o last) = c + 2 * N + 1
        /\ \A i \in 1..(c + 2 * N + 1) :
             (front \o last)[i] = IF i <= c + 2 * N THEN front[i]
                                  ELSE last[i - (c + 2 * N)]
    <3> HIDE DEF c, N
    <3>1. /\ front \o last \in Seq(Records)
          /\ Len(front \o last) = Len(front) + Len(last)
          /\ \A i \in 1..(Len(front) + Len(last)) :
               (front \o last)[i] = IF i <= Len(front) THEN front[i]
                                    ELSE last[i - Len(front)]
      BY <1>10, <2>2, ConcatProperties
    <3> QED
      BY <1>10, <2>1, <2>2, <3>1
  <2> QED
    BY <2>3, <2>4 DEF front
<1>13. ASSUME NEW i \in 1..(c + 2 * N + 1), Batch(s, force)[i].kind = "event"
       PROVE  \E k \in 1..N :
                /\ i = c + 2 * k
                /\ Batch(s, force)[i] = Event(s, g, new[k], Len(log) + i - 2)
                /\ Batch(s, force)[i - 1] = Evidence(s, g, new[k])
  <2>1. i \in c + 1..c + 2 * N /\ i - c \in 1..(2 * N)
    <3>1. i # c + 2 * N + 1
      BY <1>1, <1>4, <1>10, <1>12, <1>13
    <3>2. ~(i <= c)
      BY <1>1, <1>4, <1>11, <1>12, <1>13
    <3> QED
      BY <1>1, <1>4, <3>1, <3>2
  <2>2. Batch(s, force)[i] = pairs[i - c]
    BY <1>1, <1>4, <1>11, <1>12, <2>1
  <2>3. PICK k \in 1..N :
          \/ i - c = 2 * k /\ pairs[i - c] = event(k)
          \/ i - c = 2 * k - 1 /\ pairs[i - c] = Evidence(s, g, new[k])
    BY <1>7, <2>1
  <2>4. Evidence(s, g, new[k]).kind # "event"
    BY DEF Evidence
  <2>5. i - c = 2 * k /\ pairs[i - c] = event(k)
    BY <1>13, <2>2, <2>3, <2>4
  <2>6. i = c + 2 * k /\ event(k) = Event(s, g, new[k], Len(log) + i - 2)
    <3>1. i = c + 2 * k /\ Len(log) + c + 2 * k - 2 = Len(log) + i - 2
      BY <1>1, <1>3, <1>4, <2>1, <2>5
    <3> QED
      BY <3>1
  <2>7. Batch(s, force)[i - 1] = pairs[2 * k - 1]
    <3>1. i - 1 \in 1..(c + 2 * N) /\ ~(i - 1 <= c) /\ (i - 1) - c = 2 * k - 1
          /\ i - 1 \in 1..(c + 2 * N + 1) /\ i - 1 <= c + 2 * N
      BY <1>1, <1>4, <2>1, <2>6
    <3> QED
      BY <1>11, <1>12, <3>1
  <2> QED
    BY <1>8, <2>2, <2>5, <2>6, <2>7
<1>14. /\ Known(s) /\ ~Grew(s, force) => control = <<Visibility(s, sources[s].gen)>>
       /\ ~(Known(s) /\ ~Grew(s, force)) => control = <<>>
  BY Zenon DEF control, Superseded
<1>17. c = IF Known(s) /\ ~Grew(s, force) THEN 1 ELSE 0
  <2>1. CASE Known(s) /\ ~Grew(s, force)
    <3>1. control = <<Visibility(s, sources[s].gen)>>
      BY <1>14, <2>1
    <3>2. c = 1
      BY <3>1
    <3> QED
      BY <2>1, <3>2
  <2>2. CASE ~(Known(s) /\ ~Grew(s, force))
    <3>1. control = <<>>
      BY <1>14, <2>2
    <3>2. c = 0
      BY <3>1
    <3> QED
      BY <2>2, <3>2
  <2> QED
    BY <2>1, <2>2
<1>18. c = 1 => Batch(s, force)[1] = Visibility(s, sources[s].gen)
  <2> SUFFICES ASSUME c = 1
               PROVE  Batch(s, force)[1] = Visibility(s, sources[s].gen)
    OBVIOUS
  <2>1. /\ 1 \in 1..(c + 2 * N + 1) /\ 1 <= c + 2 * N /\ 1 \in 1..(c + 2 * N)
        /\ 1 <= c
    BY <1>1
  <2>2. control[1] = Visibility(s, sources[s].gen)
    <3>1. Known(s) /\ ~Grew(s, force)
      BY <1>17
    <3>2. control = <<Visibility(s, sources[s].gen)>>
      BY <1>14, <3>1
    <3> QED
      BY <3>2
  <2>3. Batch(s, force)[1] = (control \o pairs)[1]
    BY <1>12, <2>1
  <2>4. (control \o pairs)[1] = control[1]
    BY <1>11, <2>1
  <2> QED
    BY <2>2, <2>3, <2>4
<1>15. ASSUME NEW k \in 1..N
       PROVE  /\ Batch(s, force)[c + 2 * k] = Event(s, g, new[k], Len(log) + c + 2 * k - 2)
              /\ Batch(s, force)[c + 2 * k - 1] = Evidence(s, g, new[k])
  <2>1. ASSUME NEW i \in 1..(2 * N)
        PROVE  Batch(s, force)[c + i] = pairs[i]
    <3>1. /\ c + i \in 1..(c + 2 * N) /\ ~(c + i <= c) /\ (c + i) - c = i
          /\ c + i \in 1..(c + 2 * N + 1) /\ c + i <= c + 2 * N
      BY <1>1, <1>4
    <3> QED
      BY <1>11, <1>12, <3>1
  <2>2. 2 * k \in 1..(2 * N) /\ 2 * k - 1 \in 1..(2 * N) /\ c + (2 * k - 1) = c + 2 * k - 1
    BY <1>1, <1>4, <1>6
  <2>3. /\ Batch(s, force)[c + 2 * k] = pairs[2 * k]
        /\ Batch(s, force)[c + 2 * k - 1] = pairs[2 * k - 1]
    BY <2>1, <2>2
  <2> QED
    BY <1>8, <2>3
<1>16. Batch(s, force)[c + 2 * N + 1] = Checkpoint(s, g, files[s])
  <2>1. /\ c + 2 * N + 1 \in 1..(c + 2 * N + 1) /\ ~(c + 2 * N + 1 <= c + 2 * N)
        /\ (c + 2 * N + 1) - (c + 2 * N) = 1
    BY <1>1, <1>4
  <2> QED
    BY <1>10, <1>12, <2>1
<1> QED
  BY <1>1, <1>4, <1>12, <1>13, <1>15, <1>16, <1>17, <1>18 DEF g, new

LEMMA BatchAcceptable ==
  ASSUME TypeOK, NEW s \in Sources, files[s] # Gone, NEW force \in BOOLEAN
  PROVE  Acceptable(Batch(s, force))
<1> DEFINE g == GenerationFor(s, force)
           new == NewLines(s, force)
           recs == Batch(s, force)
<1>1. PICK c \in 0..1, N \in Nat :
        /\ N = Len(new)
        /\ recs \in Seq(Records)
        /\ Len(recs) = c + 2 * N + 1
        /\ \A i \in 1..(c + 2 * N + 1) :
             recs[i].kind = "event" =>
               \E k \in 1..N : /\ i = c + 2 * k
                               /\ recs[i] = Event(s, g, new[k], Len(log) + i - 2)
                               /\ recs[i - 1] = Evidence(s, g, new[k])
  BY BatchRecords
<1>2. /\ \A m, n \in 1..N : new[m] = new[n] => m = n
      /\ \A n \in 1..N : <<g, new[n]>> \notin eventIds
  BY <1>1, NewLinesFacts
<1> HIDE DEF g, new, recs
<1>3. ASSUME NEW i \in OfKind(recs, "event")
      PROVE  /\ i - 1 \in DOMAIN recs
             /\ \E k \in 1..N : /\ i = c + 2 * k
                                /\ recs[i] = Event(s, g, new[k], Len(log) + i - 2)
                                /\ recs[i - 1] = Evidence(s, g, new[k])
  <2>1. i \in 1..(c + 2 * N + 1) /\ recs[i].kind = "event"
    BY <1>1 DEF OfKind
  <2>2. PICK k \in 1..N : /\ i = c + 2 * k
                          /\ recs[i] = Event(s, g, new[k], Len(log) + i - 2)
                          /\ recs[i - 1] = Evidence(s, g, new[k])
    BY <1>1, <2>1
  <2>3. i - 1 \in 1..(c + 2 * N + 1)
    BY <2>1, <2>2
  <2>4. DOMAIN recs = 1..(c + 2 * N + 1)
    BY <1>1
  <2> QED
    BY <2>2, <2>3, <2>4
<1>4. ASSUME NEW i \in OfKind(recs, "event")
      PROVE  /\ recs[i].evidence = Len(log) + i - 2
             /\ recs[i - 1] = Evidence(recs[i].src, recs[i].gen, recs[i].line)
             /\ IdOf(recs[i]) \notin eventIds
             /\ \E k \in 1..N : i = c + 2 * k /\ recs[i].line = new[k]
  <2>1. PICK k \in 1..N : /\ i = c + 2 * k
                          /\ recs[i] = Event(s, g, new[k], Len(log) + i - 2)
                          /\ recs[i - 1] = Evidence(s, g, new[k])
    BY <1>3
  <2>2. /\ recs[i].src = s /\ recs[i].gen = g /\ recs[i].line = new[k]
        /\ recs[i].evidence = Len(log) + i - 2
    BY <2>1 DEF Event
  <2> QED
    BY <1>2, <2>1, <2>2 DEF IdOf
<1>5. ASSUME NEW i \in OfKind(recs, "event"), NEW j \in OfKind(recs, "event"),
             IdOf(recs[i]) = IdOf(recs[j])
      PROVE  i = j
  <2>1. PICK m \in 1..N : i = c + 2 * m /\ recs[i].line = new[m]
    BY <1>4
  <2>2. PICK n \in 1..N : j = c + 2 * n /\ recs[j].line = new[n]
    BY <1>4
  <2>3. recs[i].line = recs[j].line
    BY <1>5 DEF IdOf
  <2> QED
    BY <1>2, <2>1, <2>2, <2>3
<1> QED
  BY <1>1, <1>3, <1>4, <1>5 DEF Acceptable, recs

-----------------------------------------------------------------------------
(* A batch at the end of a log.                                            *)

\* Where a record at i in a batch is once the batch is behind t.
Behind(t, i) == Len(t) + i

LEMMA Joined ==
  ASSUME NEW t \in Seq(Records), NEW u \in Seq(Records)
  PROVE  /\ t \o u \in Seq(Records)
         /\ Len(t) \in Nat /\ Len(u) \in Nat /\ Len(t \o u) = Len(t) + Len(u)
         /\ \A i \in 1..Len(t) : i \in 1..Len(t \o u) /\ (t \o u)[i] = t[i]
         /\ \A i \in 1..Len(u) : Behind(t, i) \in 1..Len(t \o u)
                                 /\ (t \o u)[Behind(t, i)] = u[i]
         /\ \A i \in 1..Len(t \o u) :
              i \in 1..Len(t) \/ \E k \in 1..Len(u) : i = Behind(t, k)
<1>1. Len(t) \in Nat /\ Len(u) \in Nat
  OBVIOUS
<1>2. /\ t \o u \in Seq(Records)
      /\ Len(t \o u) = Len(t) + Len(u)
      /\ \A i \in 1 .. Len(t) + Len(u) :
           (t \o u)[i] = IF i <= Len(t) THEN t[i] ELSE u[i - Len(t)]
  BY ConcatProperties
<1>3. ASSUME NEW i \in 1..Len(u)
      PROVE  Len(t) + i \in 1..Len(t \o u) /\ (t \o u)[Len(t) + i] = u[i]
  <2>1. Len(t) + i \in 1..(Len(t) + Len(u)) /\ ~(Len(t) + i <= Len(t))
        /\ (Len(t) + i) - Len(t) = i
    BY <1>1
  <2> QED
    BY <1>2, <2>1
<1>4. ASSUME NEW i \in 1..Len(t)
      PROVE  i \in 1..Len(t \o u) /\ (t \o u)[i] = t[i]
  <2>1. i \in 1..(Len(t) + Len(u)) /\ i <= Len(t)
    BY <1>1
  <2> QED
    BY <1>2, <2>1
<1>5. ASSUME NEW i \in 1..Len(t \o u), i \notin 1..Len(t)
      PROVE  \E k \in 1..Len(u) : i = Len(t) + k
  <2>1. i - Len(t) \in 1..Len(u) /\ i = Len(t) + (i - Len(t))
    BY <1>1, <1>2, <1>5
  <2> QED
    BY <2>1
<1> QED
  BY <1>1, <1>2, <1>3, <1>4, <1>5 DEF Behind

\* Where the records of one kind are.
Joins(t, u, k) ==
  /\ \A i \in OfKind(t, k) : i \in OfKind(t \o u, k) /\ (t \o u)[i] = t[i]
  /\ \A i \in OfKind(u, k) : /\ Behind(t, i) \in OfKind(t \o u, k)
                             /\ (t \o u)[Behind(t, i)] = u[i]
  /\ \A i \in OfKind(t \o u, k) :
       \/ i \in OfKind(t, k) /\ (t \o u)[i] = t[i]
       \/ \E m \in OfKind(u, k) : i = Behind(t, m) /\ (t \o u)[i] = u[m]

LEMMA KindsJoined ==
  ASSUME NEW t \in Seq(Records), NEW u \in Seq(Records), NEW k
  PROVE  Joins(t, u, k)
<1> DEFINE all == t \o u
           n == Len(t)
<1>1. DOMAIN t = 1..n /\ DOMAIN u = 1..Len(u) /\ DOMAIN all = 1..Len(all)
  BY Joined
<1>2. /\ \A i \in 1..n : i \in 1..Len(all) /\ all[i] = t[i]
      /\ \A i \in 1..Len(u) : Behind(t, i) \in 1..Len(all) /\ all[Behind(t, i)] = u[i]
      /\ \A i \in 1..Len(all) : i \in 1..n \/ \E m \in 1..Len(u) : i = Behind(t, m)
  BY Joined
<1> HIDE DEF all, n
<1>3. ASSUME NEW i \in OfKind(t, k)
      PROVE  i \in OfKind(all, k) /\ all[i] = t[i]
  BY <1>1, <1>2 DEF OfKind
<1>4. ASSUME NEW i \in OfKind(u, k)
      PROVE  Behind(t, i) \in OfKind(all, k) /\ all[Behind(t, i)] = u[i]
  <2>1. i \in 1..Len(u) /\ u[i].kind = k
    BY <1>1 DEF OfKind
  <2>2. Behind(t, i) \in 1..Len(all) /\ all[Behind(t, i)] = u[i]
    BY <1>2, <2>1
  <2> QED
    BY <1>1, <2>1, <2>2 DEF OfKind
<1>5. ASSUME NEW i \in OfKind(all, k)
      PROVE  \/ i \in OfKind(t, k) /\ all[i] = t[i]
             \/ \E m \in OfKind(u, k) : i = Behind(t, m) /\ all[i] = u[m]
  <2>1. i \in 1..Len(all) /\ all[i].kind = k
    BY <1>1 DEF OfKind
  <2>2. CASE i \in 1..n
    BY <1>1, <1>2, <2>1, <2>2 DEF OfKind
  <2>3. CASE i \notin 1..n
    <3>1. PICK m \in 1..Len(u) : i = Behind(t, m)
      BY <1>2, <2>1, <2>3
    <3>2. all[i] = u[m]
      BY <1>2, <3>1
    <3> QED
      BY <1>1, <2>1, <3>1, <3>2 DEF OfKind
  <2> QED
    BY <2>2, <2>3
<1> QED
  BY <1>3, <1>4, <1>5 DEF Joins, all, n

LEMMA IdsJoined ==
  ASSUME NEW t \in Seq(Records), NEW u \in Seq(Records)
  PROVE  /\ IdsIn(t \o u) = IdsIn(t) \cup IdsIn(u)
         /\ IdsIn(u) \subseteq Gens \X Lines
<1> DEFINE all == t \o u
           Events(recs) == OfKind(recs, "event")
<1>1. \A i \in OfKind(u, "event") : u[i].gen \in Gens /\ u[i].line \in Lines
  <2>1. ASSUME NEW i \in OfKind(u, "event")
        PROVE  u[i] \in Records /\ u[i].kind = "event"
    BY DEF OfKind
  <2> QED
    BY <2>1, RecordFields
<1>2. IdsIn(u) \subseteq Gens \X Lines
  BY <1>1 DEF IdsIn, IdOf
<1>3. /\ \A i \in Events(t) : i \in Events(all) /\ all[i] = t[i]
      /\ \A i \in Events(u) : Behind(t, i) \in Events(all) /\ all[Behind(t, i)] = u[i]
      /\ \A i \in Events(all) : \/ i \in Events(t) /\ all[i] = t[i]
                                \/ \E m \in Events(u) : all[i] = u[m]
  <2>1. Joins(t, u, "event")
    BY KindsJoined
  <2> QED
    BY <2>1 DEF Joins
<1>4. \A recs, x : x \in IdsIn(recs) <=> \E i \in Events(recs) : x = IdOf(recs[i])
  BY DEF IdsIn
<1> HIDE DEF all, Events
<1>5. \A x : x \in IdsIn(all) <=> x \in IdsIn(t) \/ x \in IdsIn(u)
  BY <1>3, <1>4
<1>6. IdsIn(all) = IdsIn(t) \cup IdsIn(u)
  BY <1>5
<1> QED
  BY <1>2, <1>6 DEF all

\* The last checkpoint of a source is the one with the greatest number.
LEMMA LastIs ==
  ASSUME NEW recs \in Seq(Records), NEW i \in OfKind(recs, "checkpoint"),
         \A j \in OfKind(recs, "checkpoint") : recs[j].src = recs[i].src => j <= i
  PROVE  LastCheckpoint(recs, recs[i].src) = recs[i]
<1> DEFINE of == {j \in OfKind(recs, "checkpoint") : recs[j].src = recs[i].src}
<1>1. of \subseteq Nat
  BY DEF OfKind
<1>2. i \in of /\ \A j \in of : j <= i
  OBVIOUS
<1>3. \A k \in of : (\A j \in of : j <= k) => k = i
  <2> HIDE DEF of
  <2>1. ASSUME NEW k \in of, \A j \in of : j <= k
        PROVE  k = i
    <3>1. i <= k /\ k <= i /\ k \in Nat /\ i \in Nat
      BY <1>1, <1>2, <2>1
    <3> QED
      BY <3>1
  <2> QED
    BY <2>1
<1>4. LastCheckpoint(recs, recs[i].src) = recs[CHOOSE k \in of : \A j \in of : j <= k]
  BY DEF LastCheckpoint
<1> HIDE DEF of
<1>5. (CHOOSE k \in of : \A j \in of : j <= k) = i
  BY <1>2, <1>3
<1> QED
  BY <1>4, <1>5

\* It exists.
LEMMA LastExists ==
  ASSUME NEW recs \in Seq(Records), NEW s \in DOMAIN CheckpointsIn(recs)
  PROVE  \E i \in OfKind(recs, "checkpoint") :
           /\ recs[i].src = s
           /\ \A j \in OfKind(recs, "checkpoint") : recs[j].src = s => j <= i
<1> DEFINE of == {j \in OfKind(recs, "checkpoint") : recs[j].src = s}
<1>1. of \subseteq 1..Len(recs) /\ of # {} /\ Len(recs) \in Nat
  BY DEF CheckpointsIn, OfKind
<1>2. \E i \in of : \A j \in of : j <= i
  <2> HIDE DEF of
  <2> QED
    BY <1>1, GreatestNumber
<1> QED
  BY <1>2

\* Replaying a batch on top of a log is replaying the two together.
LEMMA CheckpointsJoined ==
  ASSUME NEW t \in Seq(Records), NEW u \in Seq(Records)
  PROVE  CheckpointsIn(t \o u) =
           [s \in DOMAIN CheckpointsIn(t) \cup DOMAIN CheckpointsIn(u) |->
              IF s \in DOMAIN CheckpointsIn(u) THEN CheckpointsIn(u)[s]
              ELSE CheckpointsIn(t)[s]]
<1> DEFINE All == t \o u
           n == Len(t)
           Marks(recs) == OfKind(recs, "checkpoint")
<1>1. All \in Seq(Records) /\ n \in Nat
  BY Joined
<1>2. \A r, s : s \in DOMAIN CheckpointsIn(r) <=> \E i \in Marks(r) : r[i].src = s
  BY DEF CheckpointsIn
<1>3. \A r : \A s \in DOMAIN CheckpointsIn(r) :
         CheckpointsIn(r)[s] = [gen |-> LastCheckpoint(r, s).gen,
                                snap |-> LastCheckpoint(r, s).snap]
  BY DEF CheckpointsIn
<1>4. /\ \A i \in Marks(t) : i \in Marks(All) /\ All[i] = t[i]
      /\ \A i \in Marks(u) : Behind(t, i) \in Marks(All) /\ All[Behind(t, i)] = u[i]
      /\ \A i \in Marks(All) : \/ i \in Marks(t) /\ All[i] = t[i]
                               \/ \E m \in Marks(u) : i = Behind(t, m) /\ All[i] = u[m]
  <2>1. Joins(t, u, "checkpoint")
    BY KindsJoined
  <2> QED
    BY <2>1 DEF Joins
<1>5. Marks(t) \subseteq 1..n /\ Marks(u) \subseteq Nat
  <2>1. Marks(t) \subseteq DOMAIN t /\ Marks(u) \subseteq DOMAIN u
    BY DEF OfKind
  <2> QED
    BY <2>1
<1>6. \A recs \in Seq(Records) : \A i \in Marks(recs) :
         (\A j \in Marks(recs) : recs[j].src = recs[i].src => j <= i)
           => LastCheckpoint(recs, recs[i].src) = recs[i]
  BY LastIs
<1>7. \A recs \in Seq(Records) : \A s \in DOMAIN CheckpointsIn(recs) :
         \E i \in Marks(recs) :
           /\ recs[i].src = s
           /\ \A j \in Marks(recs) : recs[j].src = s => j <= i
  BY LastExists
<1> HIDE DEF All, Marks
<1>8. DOMAIN CheckpointsIn(All) = DOMAIN CheckpointsIn(t) \cup DOMAIN CheckpointsIn(u)
  <2>1. \A s : s \in DOMAIN CheckpointsIn(All) <=>
                 s \in DOMAIN CheckpointsIn(t) \/ s \in DOMAIN CheckpointsIn(u)
    BY <1>2, <1>4
  <2> QED
    BY <2>1
<1>9. ASSUME NEW s \in DOMAIN CheckpointsIn(u)
      PROVE  LastCheckpoint(All, s) = LastCheckpoint(u, s)
  <2>1. PICK i \in Marks(u) : /\ u[i].src = s
                              /\ \A j \in Marks(u) : u[j].src = s => j <= i
    BY <1>7
  <2>2. LastCheckpoint(u, s) = u[i]
    BY <1>6, <2>1
  <2>3. Behind(t, i) \in Marks(All) /\ All[Behind(t, i)] = u[i]
    BY <1>4
  <2>4. ASSUME NEW j \in Marks(All), All[j].src = s
        PROVE  j <= Behind(t, i)
    <3>1. i \in Nat
      BY <1>5
    <3>2. CASE j \in Marks(t)
      <4>1. j \in 1..n
        BY <1>5, <3>2
      <4> QED
        BY <1>1, <3>1, <4>1 DEF Behind, n
    <3>3. CASE j \notin Marks(t)
      <4>1. PICK m \in Marks(u) : j = Behind(t, m) /\ All[j] = u[m]
        BY <1>4, <3>3
      <4>2. m <= i /\ m \in Nat
        BY <1>5, <2>1, <2>4, <4>1
      <4> QED
        BY <1>1, <3>1, <4>1, <4>2 DEF Behind, n
    <3> QED
      BY <3>2, <3>3
  <2>5. LastCheckpoint(All, All[Behind(t, i)].src) = All[Behind(t, i)]
    BY <1>1, <1>6, <2>1, <2>3, <2>4
  <2> QED
    BY <2>1, <2>2, <2>3, <2>5
<1>10. ASSUME NEW s \in DOMAIN CheckpointsIn(t), s \notin DOMAIN CheckpointsIn(u)
      PROVE  LastCheckpoint(All, s) = LastCheckpoint(t, s)
  <2>1. PICK i \in Marks(t) : /\ t[i].src = s
                              /\ \A j \in Marks(t) : t[j].src = s => j <= i
    BY <1>7
  <2>2. LastCheckpoint(t, s) = t[i]
    BY <1>6, <2>1
  <2>3. i \in Marks(All) /\ All[i] = t[i]
    BY <1>4
  <2>4. \A m \in Marks(u) : u[m].src # s
    BY <1>2, <1>10
  <2>5. ASSUME NEW j \in Marks(All), All[j].src = s
        PROVE  j <= i
    BY <1>4, <2>1, <2>4, <2>5
  <2>6. LastCheckpoint(All, All[i].src) = All[i]
    BY <1>1, <1>6, <2>1, <2>3, <2>5
  <2> QED
    BY <2>1, <2>2, <2>3, <2>6
<1>11. ASSUME NEW s \in DOMAIN CheckpointsIn(All)
      PROVE  CheckpointsIn(All)[s] = IF s \in DOMAIN CheckpointsIn(u)
                                     THEN CheckpointsIn(u)[s] ELSE CheckpointsIn(t)[s]
  BY <1>3, <1>8, <1>9, <1>10
<1>12. CheckpointsIn(All) = [s \in DOMAIN CheckpointsIn(All) |-> CheckpointsIn(All)[s]]
  BY DEF CheckpointsIn
<1> QED
  BY <1>8, <1>11, <1>12 DEF All

-----------------------------------------------------------------------------
(* The sidecar's rows.                                                     *)

RowSet == [src : Sources, gen : Gens, line : Lines, active : BOOLEAN]

LEMMA ProjectAllType ==
  ASSUME NEW rows, rows \subseteq RowSet, NEW recs \in Seq(Records)
  PROVE  ProjectAll(rows, recs) \subseteq RowSet
<1> DEFINE hidden(row, n) == \E k \in n..Len(recs) : Hides(recs[k], row)
           inserted == {i \in OfKind(recs, "event") :
                          /\ ~\E row \in rows : IdOf(row) = IdOf(recs[i])
                          /\ \A k \in OfKind(recs, "event") :
                               IdOf(recs[k]) = IdOf(recs[i]) => i <= k}
<1>1. ASSUME NEW row \in RowSet, NEW b \in BOOLEAN
      PROVE  [row EXCEPT !.active = b] \in RowSet
  BY DEF RowSet
<1>2. ASSUME NEW i \in OfKind(recs, "event"), NEW b \in BOOLEAN
      PROVE  Row(recs[i], b) \in RowSet
  <2>1. recs[i] \in Records /\ recs[i].kind = "event"
    BY DEF OfKind
  <2>2. recs[i].src \in Sources /\ recs[i].gen \in Gens /\ recs[i].line \in Lines
    BY <2>1, RecordFields
  <2> QED
    BY <2>2 DEF Row, RowSet
<1>3. inserted \subseteq OfKind(recs, "event")
  OBVIOUS
<1>4. ProjectAll(rows, recs) =
        {[row EXCEPT !.active = @ /\ ~hidden(row, 1)] : row \in rows}
        \cup {Row(recs[i], ~hidden(Row(recs[i], TRUE), i + 1)) : i \in inserted}
  BY DEF ProjectAll
<1> HIDE DEF hidden, inserted
<1>5. {[row EXCEPT !.active = @ /\ ~hidden(row, 1)] : row \in rows} \subseteq RowSet
  BY <1>1
<1>6. {Row(recs[i], ~hidden(Row(recs[i], TRUE), i + 1)) : i \in inserted} \subseteq RowSet
  BY <1>2, <1>3
<1> QED
  BY <1>4, <1>5, <1>6

LEMMA CaughtUpType ==
  ASSUME NEW recs \in Seq(Records), NEW sc \in [rows : SUBSET RowSet, built : Nat],
         sc.built <= Len(recs)
  PROVE  CaughtUp(sc, recs) \in [rows : SUBSET RowSet, built : 0..Len(recs)]
<1> DEFINE rest == SubSeq(recs, sc.built + 1, Len(recs))
<1>1. Len(recs) \in Nat /\ sc.built \in Nat
  OBVIOUS
<1>2. rest \in Seq(Records)
  <2>1. ASSUME NEW i \in (sc.built + 1)..Len(recs)
        PROVE  recs[i] \in Records
    <3>1. i \in 1..Len(recs)
      BY <1>1
    <3> QED
      BY <3>1
  <2> QED
    BY <1>1, <2>1, SubSeqProperties
<1> HIDE DEF rest
<1>3. ProjectAll(sc.rows, rest) \subseteq RowSet
  BY <1>2, ProjectAllType
<1>4. Len(recs) \in 0..Len(recs)
  BY <1>1
<1> QED
  BY <1>3, <1>4 DEF CaughtUp, rest

-----------------------------------------------------------------------------
(* append_project.                                                         *)

\* The part of TypeOK that an append touches.
StoreOK ==
  /\ degraded \in BOOLEAN
  /\ log \in Seq(Records)
  /\ sidecar \in [rows : SUBSET RowSet, built : 0..Len(log)]
  /\ eventIds \subseteq Gens \X Lines
  /\ DOMAIN sources \subseteq Sources
  /\ \A s \in DOMAIN sources : sources[s] \in [gen : Gens, snap : Snapshots]
  /\ faults \in 0..MaxFaults
  /\ past \subseteq Ops \cup Faults \cup Mishaps

\* The rest.
WorldOK ==
  /\ DOMAIN files = Sources /\ \A s \in Sources : files[s] \in ContentOf(s) \cup {Gone}
  /\ enabled \in BOOLEAN /\ up \in BOOLEAN
  /\ missing \in [Sources -> {"no", "since", "due", "retracted"}]
  /\ hot \subseteq Sources /\ IsFiniteSet(hot) /\ Cardinality(hot) <= MaxHot
  /\ round \in [kind : {"idle", "reconcile", "tick"}, todo : SUBSET Sources,
                seen : SUBSET Sources, absent : SUBSET Sources]
  /\ settled \subseteq Sources
  /\ changes \in 0..MaxChanges

LEMMA TypeParts == TypeOK <=> StoreOK /\ WorldOK
BY Zenon DEF TypeOK, StoreOK, WorldOK, RowSet

\* The writer knows what L1 says.
Knows == eventIds = IdsIn(log) /\ sources = CheckpointsIn(log)

LEMMA LogGrows ==
  ASSUME StoreOK, NEW recs, Acceptable(recs), log' = log \o recs
  PROVE  /\ log' \in Seq(Records)
         /\ Len(log) \in Nat /\ Len(log') \in Nat /\ Len(log) <= Len(log')
         /\ EvidenceAnchored => EvidenceAnchored'
         /\ Knows /\ NoDuplicateEvents => NoDuplicateEvents'
<1> DEFINE Events(r) == OfKind(r, "event")
<1>1. log \in Seq(Records) /\ recs \in Seq(Records)
  BY DEF StoreOK, Acceptable
<1>2. log' \in Seq(Records) /\ Len(log) \in Nat /\ Len(recs) \in Nat
      /\ Len(log') = Len(log) + Len(recs)
  BY <1>1, Joined
<1>3. Len(log') \in Nat /\ Len(log) <= Len(log')
  BY <1>2
<1>4. /\ \A i \in Events(log) : i \in Events(log') /\ log'[i] = log[i]
      /\ \A i \in Events(log') :
           \/ i \in Events(log) /\ log'[i] = log[i]
           \/ \E m \in Events(recs) : i = Behind(log, m) /\ log'[i] = recs[m]
  <2>1. Joins(log, recs, "event")
    BY <1>1, KindsJoined
  <2> QED
    BY <2>1 DEF Joins
<1>5. /\ \A i \in DOMAIN log : i \in DOMAIN log' /\ log'[i] = log[i]
      /\ \A i \in DOMAIN recs : Behind(log, i) \in DOMAIN log'
                                /\ log'[Behind(log, i)] = recs[i]
  BY <1>1, <1>2, Joined
<1>6. ASSUME EvidenceAnchored
      PROVE  EvidenceAnchored'
  <2>1. ASSUME NEW i \in Events(log')
        PROVE  \E e \in DOMAIN log' :
                 /\ e = log'[i].evidence + 1
                 /\ log'[e] = Evidence(log'[i].src, log'[i].gen, log'[i].line)
    <3>1. CASE i \in Events(log)
      <4>1. /\ log[i].evidence + 1 \in DOMAIN log
            /\ log[log[i].evidence + 1] = Evidence(log[i].src, log[i].gen, log[i].line)
        BY <1>6, <3>1 DEF EvidenceAnchored
      <4>2. log'[i] = log[i]
        BY <1>4, <3>1
      <4> HIDE DEF Events
      <4> QED
        BY <1>5, <4>1, <4>2
    <3>2. CASE i \notin Events(log)
      <4>1. PICK m \in Events(recs) : i = Behind(log, m) /\ log'[i] = recs[m]
        BY <1>4, <2>1, <3>2
      <4>2. /\ m - 1 \in DOMAIN recs
            /\ recs[m].evidence = Len(log) + m - 2
            /\ recs[m - 1] = Evidence(recs[m].src, recs[m].gen, recs[m].line)
        BY <4>1 DEF Acceptable
      <4>3. Behind(log, m - 1) = log'[i].evidence + 1
        <5>1. m \in Nat
          BY <1>1, <4>1 DEF OfKind
        <5>2. Len(log) + (m - 1) = (Len(log) + m - 2) + 1
          BY <1>2, <5>1
        <5> QED
          BY <4>1, <4>2, <5>2 DEF Behind
      <4>4. Behind(log, m - 1) \in DOMAIN log' /\ log'[Behind(log, m - 1)] = recs[m - 1]
        BY <1>5, <4>2
      <4> QED
        BY <4>1, <4>2, <4>3, <4>4
    <3> QED
      BY <3>1, <3>2
  <2> HIDE DEF Events
  <2>2. \A i \in Events(log') :
          LET e == log'[i].evidence + 1 IN
          e \in DOMAIN log' /\ log'[e] = Evidence(log'[i].src, log'[i].gen, log'[i].line)
    BY <2>1
  <2> QED
    BY <2>2 DEF EvidenceAnchored, Events
<1>7. ASSUME Knows, NoDuplicateEvents
      PROVE  NoDuplicateEvents'
  <2>1. ASSUME NEW i \in Events(log)
        PROVE  IdOf(log[i]) \in eventIds
    BY <1>7 DEF Knows, IdsIn
  <2>2. ASSUME NEW m \in Events(recs)
        PROVE  IdOf(recs[m]) \notin eventIds
    BY DEF Acceptable
  <2>3. \A m, n \in Events(recs) : IdOf(recs[m]) = IdOf(recs[n]) => m = n
    BY DEF Acceptable
  <2>4. \A i, j \in Events(log) : IdOf(log[i]) = IdOf(log[j]) => i = j
    BY <1>7 DEF NoDuplicateEvents
  <2> HIDE DEF Events
  <2>5. ASSUME NEW i \in Events(log'), NEW j \in Events(log'),
               IdOf(log'[i]) = IdOf(log'[j])
        PROVE  i = j
    <3>1. CASE i \in Events(log) /\ j \in Events(log)
      <4>1. log'[i] = log[i] /\ log'[j] = log[j]
        BY <1>4, <3>1
      <4> QED
        BY <2>4, <2>5, <3>1, <4>1
    <3>2. CASE i \in Events(log) /\ j \notin Events(log)
      <4>1. PICK n \in Events(recs) : log'[j] = recs[n]
        BY <1>4, <3>2
      <4>2. log'[i] = log[i]
        BY <1>4, <3>2
      <4> QED
        BY <2>1, <2>2, <2>5, <3>2, <4>1, <4>2
    <3>3. CASE i \notin Events(log) /\ j \in Events(log)
      <4>1. PICK m \in Events(recs) : log'[i] = recs[m]
        BY <1>4, <3>3
      <4>2. log'[j] = log[j]
        BY <1>4, <3>3
      <4> QED
        BY <2>1, <2>2, <2>5, <3>3, <4>1, <4>2
    <3>4. CASE i \notin Events(log) /\ j \notin Events(log)
      <4>1. PICK m \in Events(recs) : i = Behind(log, m) /\ log'[i] = recs[m]
        BY <1>4, <3>4
      <4>2. PICK n \in Events(recs) : j = Behind(log, n) /\ log'[j] = recs[n]
        BY <1>4, <3>4
      <4>3. m = n
        BY <2>3, <2>5, <4>1, <4>2
      <4> QED
        BY <4>1, <4>2, <4>3
    <3> QED
      BY <3>1, <3>2, <3>3, <3>4
  <2> QED
    BY <2>5 DEF NoDuplicateEvents, Events
<1> QED
  BY <1>2, <1>3, <1>6, <1>7

\* What any outcome of append_project keeps.
Kept ==
  /\ StoreOK'
  /\ past \subseteq past'
  /\ EvidenceAnchored => EvidenceAnchored'
  /\ "flush" \notin past' =>
       /\ Knows => Knows'
       /\ Knows /\ NoDuplicateEvents => NoDuplicateEvents'

LEMMA FaultKeeps ==
  ASSUME StoreOK, NEW f, Fault(f)
  PROVE  /\ faults' \in 0..MaxFaults
         /\ past' \subseteq Ops \cup Faults \cup Mishaps
         /\ past \subseteq past' /\ f \in past'
BY IngestAssumption DEF StoreOK, Fault, Happened

\* The batch becomes known: replay of the batch is replay of the longer log.
LEMMA ReplayedKeeps ==
  ASSUME StoreOK, NEW recs, Acceptable(recs), log' = log \o recs, Replayed(recs)
  PROVE  /\ eventIds' \subseteq Gens \X Lines
         /\ DOMAIN sources' \subseteq Sources
         /\ \A s \in DOMAIN sources' : sources'[s] \in [gen : Gens, snap : Snapshots]
         /\ Knows => Knows'
<1>1. log \in Seq(Records) /\ recs \in Seq(Records)
  BY DEF StoreOK, Acceptable
<1>2. /\ eventIds' = eventIds \cup IdsIn(recs)
      /\ sources' = [s \in DOMAIN sources \cup DOMAIN CheckpointsIn(recs) |->
                       IF s \in DOMAIN CheckpointsIn(recs)
                       THEN CheckpointsIn(recs)[s] ELSE sources[s]]
  BY DEF Replayed
<1>3. eventIds' \subseteq Gens \X Lines
  BY <1>1, <1>2, IdsJoined DEF StoreOK
<1>4. /\ DOMAIN CheckpointsIn(recs) \subseteq Sources
      /\ \A s \in DOMAIN CheckpointsIn(recs) :
           CheckpointsIn(recs)[s] \in [gen : Gens, snap : Snapshots]
  BY <1>1, CheckpointTypes
<1>5. /\ DOMAIN sources \subseteq Sources
      /\ \A s \in DOMAIN sources : sources[s] \in [gen : Gens, snap : Snapshots]
  BY DEF StoreOK
<1> HIDE DEF Snapshots, Gens
<1>6. DOMAIN sources' = DOMAIN sources \cup DOMAIN CheckpointsIn(recs)
  BY <1>2
<1>7. ASSUME NEW s \in DOMAIN sources'
      PROVE  sources'[s] \in [gen : Gens, snap : Snapshots]
  BY <1>2, <1>4, <1>5, <1>6
<1>8. ASSUME Knows
      PROVE  Knows'
  <2>1. IdsIn(log') = IdsIn(log) \cup IdsIn(recs)
    BY <1>1, IdsJoined
  <2>2. CheckpointsIn(log') =
          [s \in DOMAIN CheckpointsIn(log) \cup DOMAIN CheckpointsIn(recs) |->
             IF s \in DOMAIN CheckpointsIn(recs) THEN CheckpointsIn(recs)[s]
             ELSE CheckpointsIn(log)[s]]
    BY <1>1, CheckpointsJoined
  <2> QED
    BY <1>2, <1>8, <2>1, <2>2 DEF Knows
<1> QED
  BY <1>3, <1>4, <1>5, <1>6, <1>7, <1>8

LEMMA AppendProjectKeeps ==
  ASSUME StoreOK, NEW recs, Acceptable(recs), NEW ok \in BOOLEAN, AppendProject(recs, ok)
  PROVE  Kept
<1>1. CASE Projects(recs)
  <2>1. /\ log' = log \o recs /\ Replayed(recs) /\ degraded' = FALSE
        /\ sidecar' = [rows |-> ProjectAll(sidecar.rows, recs), built |-> Len(log')]
        /\ faults' = faults /\ past' = past
    BY <1>1 DEF Projects, trouble
  <2>2. sidecar' \in [rows : SUBSET RowSet, built : 0..Len(log')]
    <3>1. sidecar.rows \subseteq RowSet /\ recs \in Seq(Records)
      BY DEF StoreOK, Acceptable
    <3>2. ProjectAll(sidecar.rows, recs) \subseteq RowSet
      BY <3>1, ProjectAllType
    <3>3. Len(log') \in 0..Len(log')
      BY <2>1, LogGrows
    <3> QED
      BY <2>1, <3>2, <3>3
  <2> QED
    BY <2>1, <2>2, LogGrows, ReplayedKeeps DEF Kept, StoreOK
<1>2. CASE ProjectionFails(recs)
  <2>1. /\ log' = log \o recs /\ Replayed(recs) /\ degraded' = TRUE
        /\ sidecar' = sidecar
        /\ \/ faults' = faults /\ past' = past
           \/ Fault("project")
    BY <1>2 DEF ProjectionFails, trouble
  <2>2. /\ faults' \in 0..MaxFaults /\ past' \subseteq Ops \cup Faults \cup Mishaps
        /\ past \subseteq past'
    BY <2>1, FaultKeeps DEF StoreOK
  <2>3. sidecar' \in [rows : SUBSET RowSet, built : 0..Len(log')]
    BY <2>1, LogGrows DEF StoreOK
  <2> QED
    BY <2>1, <2>2, <2>3, LogGrows, ReplayedKeeps DEF Kept, StoreOK
<1>3. CASE FlushFails(recs)
  <2>1. /\ log' = log \o recs /\ degraded' = degraded /\ sidecar' = sidecar
        /\ eventIds' = eventIds /\ sources' = sources /\ Fault("flush")
    BY <1>3 DEF FlushFails, replay
  <2>2. /\ faults' \in 0..MaxFaults /\ past' \subseteq Ops \cup Faults \cup Mishaps
        /\ past \subseteq past' /\ "flush" \in past'
    BY <2>1, FaultKeeps
  <2>3. sidecar' \in [rows : SUBSET RowSet, built : 0..Len(log')]
    BY <2>1, LogGrows DEF StoreOK
  <2> QED
    BY <2>1, <2>2, <2>3, LogGrows DEF Kept, StoreOK
<1>4. CASE AppendFails(recs)
  <2>1. /\ log' = log /\ degraded' = degraded /\ sidecar' = sidecar
        /\ eventIds' = eventIds /\ sources' = sources /\ Fault("append")
    BY <1>4 DEF AppendFails, replay
  <2>2. /\ faults' \in 0..MaxFaults /\ past' \subseteq Ops \cup Faults \cup Mishaps
        /\ past \subseteq past'
    BY <2>1, FaultKeeps
  <2> QED
    BY <2>1, <2>2 DEF Kept, StoreOK, Knows, EvidenceAnchored, NoDuplicateEvents
<1> QED
  BY <1>1, <1>2, <1>3, <1>4 DEF AppendProject

\* A step that leaves L1, what is replayed of it and the sidecar alone.
LEMMA RestKeeps ==
  ASSUME StoreOK, UNCHANGED <<log, sidecar, replay>>, degraded' \in BOOLEAN,
         faults' \in 0..MaxFaults,
         past' \subseteq Ops \cup Faults \cup Mishaps, past \subseteq past'
  PROVE  Kept
BY DEF Kept, StoreOK, Knows, EvidenceAnchored, NoDuplicateEvents, replay

LEMMA ReconcileSourceKeeps ==
  ASSUME TypeOK, NEW s \in Sources, files[s] # Gone, NEW force \in BOOLEAN,
         NEW ok \in BOOLEAN, ReconcileSource(s, force, ok)
  PROVE  Kept
<1>1. StoreOK
  BY TypeParts
<1>2. CASE NothingNew(s, force)
  <2>1. UNCHANGED <<log, sidecar, replay, degraded, faults, past>>
    BY <1>2 DEF ReconcileSource, trouble
  <2> QED
    BY <1>1, <2>1, RestKeeps DEF StoreOK
<1>3. CASE ~NothingNew(s, force)
  <2>1. AppendProject(Batch(s, force), ok)
    BY <1>3 DEF ReconcileSource
  <2> QED
    BY <1>1, <2>1, BatchAcceptable, AppendProjectKeeps
<1> QED
  BY <1>2, <1>3

-----------------------------------------------------------------------------
(* The actions.                                                            *)

Inv == IInv /\ NoDuplicatesUnlessFlushFails

\* A step of a running writer, or one that writes nothing.
LEMMA StepKeeps ==
  ASSUME Inv, Kept, WorldOK', up' => up, up \/ log' = log
  PROVE  Inv'
<1>1. TypeOK'
  <2>1. StoreOK'
    BY DEF Kept
  <2> QED
    BY <2>1, TypeParts, PTL
<1>2. EvidenceAnchored'
  BY DEF Inv, IInv, Kept
<1>3. up /\ "flush" \notin past => Knows
  BY DEF Inv, IInv, ReplayExact, Knows
<1>4. "flush" \notin past' => "flush" \notin past
  BY DEF Kept
<1>5. ReplayExact'
  <2>1. ASSUME up', "flush" \notin past'
        PROVE  Knows'
    BY <1>3, <1>4, <2>1 DEF Kept
  <2> QED
    BY <2>1 DEF ReplayExact, Knows
<1>6. NoDuplicatesUnlessFlushFails'
  <2>1. ASSUME "flush" \notin past'
        PROVE  NoDuplicateEvents'
    <3>1. NoDuplicateEvents
      BY <1>4, <2>1 DEF Inv, NoDuplicatesUnlessFlushFails
    <3>2. CASE up
      BY <1>3, <1>4, <2>1, <3>1, <3>2 DEF Kept
    <3>3. CASE log' = log
      BY <3>1, <3>3 DEF NoDuplicateEvents
    <3> QED
      BY <3>2, <3>3
  <2> QED
    BY <2>1 DEF NoDuplicatesUnlessFlushFails
<1> QED
  BY <1>1, <1>2, <1>5, <1>6 DEF Inv, IInv

LEMMA Parts ==
  ASSUME Inv
  PROVE  TypeOK /\ StoreOK /\ WorldOK
BY TypeParts DEF Inv, IInv

LEMMA FilesChange ==
  ASSUME Inv, NEW s \in Sources, NEW c \in ContentOf(s) \cup {Gone}, Changes(s, c),
         past' \subseteq Ops \cup Faults \cup Mishaps, past \subseteq past'
  PROVE  Inv'
<1>1. StoreOK /\ WorldOK
  BY Parts
<1>2. /\ changes < MaxChanges /\ changes' = changes + 1
      /\ files' = [files EXCEPT ![s] = c] /\ settled' = settled \ {s}
      /\ UNCHANGED <<enabled, log, sidecar, up, replay, degraded, missing, hot, round,
                     faults>>
  BY DEF Changes, memory
<1>3. Kept
  BY <1>1, <1>2, RestKeeps DEF StoreOK
<1>4. changes' \in 0..MaxChanges
  BY <1>1, <1>2, IngestAssumption DEF WorldOK
<1>5. DOMAIN files' = Sources /\ \A t \in Sources : files'[t] \in ContentOf(t) \cup {Gone}
  BY <1>1, <1>2 DEF WorldOK
<1>6. WorldOK'
  BY <1>1, <1>2, <1>4, <1>5 DEF WorldOK
<1> QED
  BY <1>2, <1>3, <1>6, StepKeeps

LEMMA WorldStep ==
  ASSUME Inv, World
  PROVE  Inv'
<1>1. StoreOK /\ WorldOK
  BY Parts
<1>2. \A o \in Ops : Happened(o) => /\ past' \subseteq Ops \cup Faults \cup Mishaps
                                    /\ past \subseteq past'
  BY <1>1 DEF Happened, StoreOK
<1>3. UNCHANGED past => past' \subseteq Ops \cup Faults \cup Mishaps /\ past \subseteq past'
  BY <1>1 DEF StoreOK
<1>4. ASSUME NEW s \in Sources,
             HarnessCreates(s) \/ HarnessAppends(s) \/ HarnessRewrites(s)
      PROVE  Inv'
  <2>1. past' \subseteq Ops \cup Faults \cup Mishaps /\ past \subseteq past'
    BY <1>2, <1>3, <1>4 DEF HarnessCreates, HarnessAppends, HarnessRewrites
  <2>2. PICK c \in ContentOf(s) : Changes(s, c)
    BY <1>4 DEF HarnessCreates, HarnessAppends, HarnessRewrites
  <2> QED
    BY <2>1, <2>2, FilesChange
<1>5. ASSUME NEW s \in Sources, HarnessDeletes(s)
      PROVE  Inv'
  <2>1. /\ "delete" \in Ops /\ Changes(s, Gone)
        /\ past' = past \cup {"delete"}
                        \cup (IF missing[s] = "retracted" THEN {"fleeting"} ELSE {})
    BY <1>5 DEF HarnessDeletes
  <2>2. past' \subseteq Ops \cup Faults \cup Mishaps /\ past \subseteq past'
    BY <1>1, <2>1 DEF StoreOK, Mishaps
  <2> QED
    BY <2>1, <2>2, FilesChange
<1>6. ASSUME Toggle
      PROVE  Inv'
  <2>1. /\ "disable" \in Ops /\ Happened("disable")
        /\ changes < MaxChanges /\ changes' = changes + 1 /\ enabled' = ~enabled
        /\ UNCHANGED <<files, log, sidecar, up, replay, degraded, missing, hot, round,
                       settled, faults>>
    BY <1>6 DEF Toggle, memory
  <2>2. Kept
    BY <1>1, <1>2, <2>1, RestKeeps DEF StoreOK
  <2>3. changes' \in 0..MaxChanges
    BY <1>1, <2>1, IngestAssumption DEF WorldOK
  <2>4. WorldOK'
    BY <1>1, <2>1, <2>3 DEF WorldOK
  <2> QED
    BY <2>1, <2>2, <2>4, StepKeeps
<1> QED
  BY <1>4, <1>5, <1>6 DEF World

\* The beginning and the end of a round.
LEMMA Ensured ==
  ASSUME StoreOK, EnsureProjection, UNCHANGED <<log, replay, faults, past>>
  PROVE  Kept
<1>1. CaughtUp(sidecar, log) \in [rows : SUBSET RowSet, built : 0..Len(log)]
  <2>1. log \in Seq(Records) /\ Len(log) \in Nat
    BY DEF StoreOK
  <2>2. sidecar \in [rows : SUBSET RowSet, built : Nat] /\ sidecar.built <= Len(log)
    BY <2>1 DEF StoreOK
  <2> QED
    BY <2>1, <2>2, CaughtUpType
<1>2. StoreOK'
  BY <1>1 DEF EnsureProjection, StoreOK, replay
<1> QED
  BY <1>2 DEF Kept, Knows, EvidenceAnchored, NoDuplicateEvents, replay

LEMMA RoundStep ==
  ASSUME Inv, StartReconcile \/ StartTick \/ RepairFails \/ EndRound
              \/ \E s \in Sources : GraceEnds(s)
  PROVE  Inv'
<1>1. StoreOK /\ WorldOK
  BY Parts
<1>2. CASE StartReconcile
  <2>1. /\ EnsureProjection
        /\ UNCHANGED <<files, enabled, log, up, replay, missing, hot, settled, changes,
                       faults, past>>
        /\ round' = [kind |-> "reconcile",
                     todo |-> IF enabled THEN Present ELSE {},
                     seen |-> IF enabled THEN Present ELSE Sources, absent |-> {}]
    BY <1>2 DEF StartReconcile, bounds, trouble
  <2>2. Kept
    BY <1>1, <2>1, Ensured
  <2>3. WorldOK'
    BY <1>1, <2>1 DEF WorldOK, Present
  <2> QED
    BY <2>1, <2>2, <2>3, StepKeeps
<1>3. CASE StartTick
  <2>1. /\ EnsureProjection
        /\ UNCHANGED <<files, enabled, log, up, replay, missing, hot, settled, changes,
                       faults, past>>
    BY <1>3 DEF StartTick, bounds, trouble
  <2>2. PICK hinted \in SUBSET (IF enabled THEN Present ELSE {}) :
          round' = [kind |-> "tick", todo |-> hot \cup hinted, seen |-> {}, absent |-> {}]
    BY <1>3 DEF StartTick
  <2>3. hinted \subseteq Sources
    BY <2>2 DEF Present
  <2>4. Kept
    BY <1>1, <2>1, Ensured
  <2>5. WorldOK'
    BY <1>1, <2>1, <2>2, <2>3 DEF WorldOK
  <2> QED
    BY <2>1, <2>4, <2>5, StepKeeps
<1>4. CASE RepairFails
  <2>1. /\ Fault("project") /\ degraded' = TRUE
        /\ UNCHANGED <<files, enabled, log, sidecar, up, replay, missing, hot, round,
                       settled, changes>>
    BY <1>4 DEF RepairFails
  <2>2. Kept
    BY <1>1, <2>1, FaultKeeps, RestKeeps
  <2>3. WorldOK'
    BY <1>1, <2>1 DEF WorldOK
  <2> QED
    BY <2>1, <2>2, <2>3, StepKeeps
<1>5. CASE EndRound
  <2>1. /\ UNCHANGED <<files, enabled, log, sidecar, up, replay, degraded, missing, hot,
                       settled, changes, faults, past>>
        /\ round' = Idle
    BY <1>5 DEF EndRound, memory, bounds, trouble
  <2>2. Kept
    BY <1>1, <2>1, RestKeeps DEF StoreOK
  <2>3. WorldOK'
    BY <1>1, <2>1 DEF WorldOK, Idle
  <2> QED
    BY <2>1, <2>2, <2>3, StepKeeps
<1>6. ASSUME NEW s \in Sources, GraceEnds(s)
      PROVE  Inv'
  <2>1. /\ UNCHANGED <<files, enabled, log, sidecar, up, replay, degraded, hot, round,
                       settled, changes, faults, past>>
        /\ missing' = [missing EXCEPT ![s] = "due"]
    BY <1>6 DEF GraceEnds, bounds, trouble
  <2>2. Kept
    BY <1>1, <2>1, RestKeeps DEF StoreOK
  <2>3. WorldOK'
    BY <1>1, <2>1 DEF WorldOK
  <2> QED
    BY <2>1, <2>2, <2>3, StepKeeps
<1> QED
  BY <1>2, <1>3, <1>4, <1>5, <1>6

\* The hot set never outgrows MaxHot.
LEMMA HotKeeps ==
  ASSUME WorldOK, NEW s \in Sources, RememberHot(s)
  PROVE  hot' \subseteq Sources /\ IsFiniteSet(hot') /\ Cardinality(hot') <= MaxHot
<1> DEFINE more == hot \cup {s}
<1>1. hot \subseteq Sources /\ IsFiniteSet(hot) /\ Cardinality(hot) <= MaxHot
  BY DEF WorldOK
<1>2. MaxHot \in Nat
  BY IngestAssumption
<1>3. /\ IsFiniteSet(more) /\ Cardinality(more) \in Nat /\ Cardinality(hot) \in Nat
      /\ Cardinality(more) <= Cardinality(hot) + 1
  <2>1. IsFiniteSet(more)
        /\ Cardinality(more) = IF s \in hot THEN Cardinality(hot) ELSE Cardinality(hot) + 1
    BY <1>1, FS_AddElement
  <2>2. Cardinality(hot) \in Nat
    BY <1>1, FS_CardinalityType
  <2> QED
    BY <2>1, <2>2
<1> HIDE DEF more
<1>4. CASE Cardinality(more) <= MaxHot /\ hot' = more
  BY <1>1, <1>3, <1>4 DEF more
<1>5. CASE \E out \in more : hot' = more \ {out}
  <2>1. PICK out \in more : hot' = more \ {out}
    BY <1>5
  <2>2. IsFiniteSet(hot') /\ Cardinality(hot') = Cardinality(more) - 1
    BY <1>3, <2>1, FS_RemoveElement
  <2>3. Cardinality(hot') <= MaxHot
    BY <1>1, <1>2, <1>3, <2>2
  <2> QED
    BY <1>1, <2>1, <2>2, <2>3 DEF more
<1> QED
  BY <1>4, <1>5 DEF RememberHot, more

\* What the steps of a round do besides writing.
LEMMA RoundKeeps ==
  ASSUME WorldOK, UNCHANGED <<files, enabled, up, changes>>,
         hot' \subseteq Sources /\ IsFiniteSet(hot') /\ Cardinality(hot') <= MaxHot,
         NEW s \in Sources,
         \/ round' = [round EXCEPT !.todo = @ \ {s}]
         \/ round' = [round EXCEPT !.absent = @ \cup {s}],
         missing' \in [Sources -> {"no", "since", "due", "retracted"}],
         settled' \subseteq Sources
  PROVE  WorldOK'
<1>1. round' \in [kind : {"idle", "reconcile", "tick"}, todo : SUBSET Sources,
                  seen : SUBSET Sources, absent : SUBSET Sources]
  BY DEF WorldOK
<1> QED
  BY <1>1 DEF WorldOK

LEMMA SourceStep ==
  ASSUME Inv, Steps
  PROVE  Inv'
<1>1. TypeOK /\ StoreOK /\ WorldOK
  BY Parts
<1>2. ASSUME NEW s \in Sources, NEW ok \in BOOLEAN, ReconcileStep(s, ok)
      PROVE  Inv'
  <2>1. /\ UNCHANGED <<files, enabled, up, changes>> /\ up /\ RememberHot(s)
        /\ missing' = [missing EXCEPT ![s] = "no"]
        /\ round' = [round EXCEPT !.todo = @ \ {s}]
        /\ settled' = IF ok THEN settled \cup {s} ELSE settled
    BY <1>2 DEF ReconcileStep
  <2>2. Kept
    <3>1. CASE files[s] = Gone
      <4>1. UNCHANGED <<log, sidecar, replay, degraded, faults, past>>
        BY <1>2, <3>1 DEF ReconcileStep, trouble
      <4> QED
        BY <1>1, <4>1, RestKeeps DEF StoreOK
    <3>2. CASE files[s] # Gone
      <4>1. ReconcileSource(s, missing[s] = "retracted", ok)
        BY <1>2, <3>2 DEF ReconcileStep
      <4>2. (missing[s] = "retracted") \in BOOLEAN
        OBVIOUS
      <4> QED
        BY <1>1, <3>2, <4>1, <4>2, ReconcileSourceKeeps
    <3> QED
      BY <3>1, <3>2
  <2>3. WorldOK'
    <3>1. missing' \in [Sources -> {"no", "since", "due", "retracted"}]
          /\ settled' \subseteq Sources
      BY <1>1, <2>1 DEF WorldOK
    <3> QED
      BY <1>1, <2>1, <3>1, HotKeeps, RoundKeeps
  <2> QED
    BY <2>1, <2>2, <2>3, StepKeeps
<1>3. ASSUME NEW s \in Sources, NEW ok \in BOOLEAN, TickStep(s, ok)
      PROVE  Inv'
  <2>1. /\ UNCHANGED <<files, enabled, up, missing, hot, settled, changes>> /\ up
        /\ round' = [round EXCEPT !.todo = @ \ {s}]
    BY <1>3 DEF TickStep
  <2>2. Kept
    <3>1. CASE files[s] = Gone
      <4>1. UNCHANGED <<log, sidecar, replay, degraded, faults, past>>
        BY <1>3, <3>1 DEF TickStep, trouble
      <4> QED
        BY <1>1, <4>1, RestKeeps DEF StoreOK
    <3>2. CASE files[s] # Gone
      <4>1. ReconcileSource(s, FALSE, ok)
        BY <1>3, <3>2 DEF TickStep
      <4> QED
        BY <1>1, <3>2, <4>1, ReconcileSourceKeeps
    <3> QED
      BY <3>1, <3>2
  <2>3. WorldOK'
    <3>1. /\ missing' \in [Sources -> {"no", "since", "due", "retracted"}]
          /\ settled' \subseteq Sources
          /\ hot' \subseteq Sources /\ IsFiniteSet(hot') /\ Cardinality(hot') <= MaxHot
      BY <1>1, <2>1 DEF WorldOK
    <3> QED
      BY <1>1, <2>1, <3>1, RoundKeeps
  <2> QED
    BY <2>1, <2>2, <2>3, StepKeeps
<1>4. ASSUME NEW s \in Sources, LooksAt(s), Kept,
             missing' \in [Sources -> {"no", "since", "due", "retracted"}],
             settled' \subseteq Sources
      PROVE  Inv'
  <2>1. /\ UNCHANGED <<files, enabled, up, hot, changes>> /\ up
        /\ round' = [round EXCEPT !.absent = @ \cup {s}]
    BY <1>4 DEF LooksAt
  <2>2. hot' \subseteq Sources /\ IsFiniteSet(hot') /\ Cardinality(hot') <= MaxHot
    BY <1>1, <2>1 DEF WorldOK
  <2>3. WorldOK'
    BY <1>1, <1>4, <2>1, <2>2, RoundKeeps
  <2> QED
    BY <1>4, <2>1, <2>3, StepKeeps
<1>5. ASSUME NEW s \in Sources, NEW ok \in BOOLEAN, RetractMissing(s, ok)
      PROVE  Inv'
  <2>1. /\ LooksAt(s) /\ AppendProject(<<Visibility(s, sources[s].gen)>>, ok)
        /\ missing' = [missing EXCEPT ![s] = "retracted"]
        /\ settled' = IF ok /\ files[s] = Gone THEN settled \cup {s} ELSE settled
    BY <1>5 DEF RetractMissing
  <2>2. Known(s)
    BY <2>1 DEF LooksAt, Unseen, Known
  <2>3. sources[s].gen \in Gens
    BY <1>1, <2>2, GenerationType
  <2>4. Kept
    BY <1>1, <2>1, <2>3, ControlAcceptable, AppendProjectKeeps
  <2>5. missing' \in [Sources -> {"no", "since", "due", "retracted"}]
        /\ settled' \subseteq Sources
    BY <1>1, <2>1 DEF WorldOK
  <2> QED
    BY <1>4, <2>1, <2>4, <2>5
<1>6. ASSUME NEW s \in Sources, NoticeMissing(s)
      PROVE  Inv'
  <2>1. /\ LooksAt(s)
        /\ UNCHANGED <<log, sidecar, replay, degraded, settled, faults, past>>
        /\ missing' = IF missing[s] = "no" THEN [missing EXCEPT ![s] = "since"] ELSE missing
    BY <1>6 DEF NoticeMissing, trouble
  <2>2. Kept
    BY <1>1, <2>1, RestKeeps DEF StoreOK
  <2>3. missing' \in [Sources -> {"no", "since", "due", "retracted"}]
        /\ settled' \subseteq Sources
    BY <1>1, <2>1 DEF WorldOK
  <2> QED
    BY <1>4, <2>1, <2>2, <2>3
<1> QED
  BY <1>2, <1>3, <1>5, <1>6 DEF Steps

-----------------------------------------------------------------------------
(* Kill and restart.                                                       *)

LEMMA EmptyFacts ==
  /\ {} \subseteq Gens \X Lines
  /\ DOMAIN <<>> \subseteq Sources
  /\ \A s \in DOMAIN <<>> : <<>>[s] \in [gen : Gens, snap : Snapshots]
  /\ Idle \in [kind : {"idle", "reconcile", "tick"}, todo : SUBSET Sources,
               seen : SUBSET Sources, absent : SUBSET Sources]
  /\ [s \in Sources |-> "no"] \in [Sources -> {"no", "since", "due", "retracted"}]
  /\ IsFiniteSet({}) /\ Cardinality({}) <= MaxHot
<1>1. DOMAIN <<>> = {}
  OBVIOUS
<1>2. IsFiniteSet({}) /\ Cardinality({}) <= MaxHot
  BY FS_EmptySet, IngestAssumption
<1> QED
  BY <1>1, <1>2 DEF Idle

LEMMA Forgetting ==
  ASSUME Inv, Forgets, UNCHANGED <<files, enabled, sidecar, settled, changes>>,
         NEW recs, Acceptable(recs), up, log' = log \o recs,
         NEW f, Fault(f)
  PROVE  Inv'
<1>1. StoreOK /\ WorldOK
  BY Parts
<1>2. /\ up' = FALSE /\ eventIds' = {} /\ sources' = <<>> /\ degraded' = FALSE
      /\ missing' = [s \in Sources |-> "no"] /\ hot' = {} /\ round' = Idle
  BY DEF Forgets
<1>3. /\ log' \in Seq(Records)
      /\ Len(log) \in Nat /\ Len(log') \in Nat /\ Len(log) <= Len(log')
      /\ EvidenceAnchored => EvidenceAnchored'
      /\ Knows /\ NoDuplicateEvents => NoDuplicateEvents'
  BY <1>1, LogGrows
<1>4. /\ faults' \in 0..MaxFaults /\ past \subseteq past'
      /\ past' \subseteq Ops \cup Faults \cup Mishaps
  BY <1>1, FaultKeeps
<1>5. StoreOK'
  <2>1. sidecar' \in [rows : SUBSET RowSet, built : 0..Len(log')]
    BY <1>1, <1>3 DEF StoreOK
  <2> QED
    BY <1>2, <1>3, <1>4, <2>1, EmptyFacts DEF StoreOK
<1>6. WorldOK'
  BY <1>1, <1>2, EmptyFacts DEF WorldOK
<1>7. TypeOK'
  BY <1>5, <1>6, TypeParts, PTL
<1>8. "flush" \notin past => Knows
  BY DEF Inv, IInv, ReplayExact, Knows
<1> QED
  BY <1>2, <1>3, <1>4, <1>7, <1>8
     DEF Inv, IInv, ReplayExact, NoDuplicatesUnlessFlushFails

\* What a kill may cut is a batch that may be appended.
LEMMA BatchOfAcceptable ==
  ASSUME TypeOK, NEW s \in Sources
  PROVE  Acceptable(BatchOf(s))
<1> DEFINE force == round.kind = "reconcile" /\ missing[s] = "retracted"
<1>1. force \in BOOLEAN
  OBVIOUS
<1>2. CASE s \in round.todo /\ files[s] # Gone /\ ~NothingNew(s, force)
  <2>1. BatchOf(s) = Batch(s, force)
    BY <1>2 DEF BatchOf
  <2> HIDE DEF force
  <2> QED
    BY <1>1, <1>2, <2>1, BatchAcceptable
<1>3. CASE /\ ~(s \in round.todo /\ files[s] # Gone /\ ~NothingNew(s, force))
           /\ round.kind = "reconcile" /\ round.todo = {} /\ s \in Unseen
           /\ missing[s] = "due"
  <2>1. BatchOf(s) = <<Visibility(s, sources[s].gen)>>
    BY <1>3 DEF BatchOf
  <2>2. Known(s)
    BY <1>3 DEF Unseen, Known
  <2>3. sources[s].gen \in Gens
    BY <2>2, GenerationType
  <2> QED
    BY <2>1, <2>3, ControlAcceptable
<1>4. CASE /\ ~(s \in round.todo /\ files[s] # Gone /\ ~NothingNew(s, force))
           /\ ~(round.kind = "reconcile" /\ round.todo = {} /\ s \in Unseen
                /\ missing[s] = "due")
  <2>1. BatchOf(s) = <<>>
    BY <1>4 DEF BatchOf
  <2> QED
    BY <2>1, EmptyAcceptable
<1> QED
  BY <1>2, <1>3, <1>4

LEMMA KillStep ==
  ASSUME Inv, Kill \/ KillInBatch
  PROVE  Inv'
<1>1. TypeOK /\ StoreOK
  BY Parts
<1>2. CASE Kill
  <2>1. /\ up /\ Fault("kill") /\ Forgets
        /\ UNCHANGED <<files, enabled, sidecar, settled, changes>> /\ log' = log
    BY <1>2 DEF Kill
  <2>2. log' = log \o <<>>
    BY <1>1, <2>1 DEF StoreOK
  <2> QED
    BY <2>1, <2>2, EmptyAcceptable, Forgetting
<1>3. CASE KillInBatch
  <2>1. /\ up /\ Fault("torn") /\ Forgets
        /\ UNCHANGED <<files, enabled, sidecar, settled, changes>>
    BY <1>3 DEF KillInBatch
  <2>2. PICK s \in Sources : \E n \in 1..Len(BatchOf(s)) :
               log' = log \o SubSeq(BatchOf(s), 1, n)
    BY <1>3 DEF KillInBatch
  <2>3. PICK n \in 1..Len(BatchOf(s)) : log' = log \o SubSeq(BatchOf(s), 1, n)
    BY <2>2
  <2>4. Acceptable(BatchOf(s))
    BY <1>1, BatchOfAcceptable
  <2>5. Acceptable(SubSeq(BatchOf(s), 1, n))
    BY <2>4, PrefixAcceptable
  <2> QED
    BY <2>1, <2>3, <2>5, Forgetting
<1> QED
  BY <1>2, <1>3

LEMMA OpensStep ==
  ASSUME Inv, Opens
  PROVE  Inv'
<1>1. TypeOK /\ StoreOK /\ WorldOK
  BY Parts
<1>2. /\ up' = TRUE /\ eventIds' = IdsIn(log) /\ sources' = CheckpointsIn(log)
      /\ UNCHANGED <<files, enabled, log, degraded, missing, hot, round, settled, changes,
                     faults, past>>
      /\ \/ sidecar' = CaughtUp(sidecar, log)
         \/ sidecar' = CaughtUp([rows |-> {}, built |-> 0], log)
  BY DEF Opens, Restart, RestartRebuilds, ReplayedIds, bounds, trouble
<1>3. log \in Seq(Records) /\ Len(log) \in Nat
  BY <1>1 DEF StoreOK
<1>4. sidecar' \in [rows : SUBSET RowSet, built : 0..Len(log)]
  <2>1. sidecar \in [rows : SUBSET RowSet, built : Nat] /\ sidecar.built <= Len(log)
    BY <1>1, <1>3 DEF StoreOK
  <2>2. CaughtUp(sidecar, log) \in [rows : SUBSET RowSet, built : 0..Len(log)]
    BY <1>3, <2>1, CaughtUpType
  <2>3. [rows |-> {}, built |-> 0] \in [rows : SUBSET RowSet, built : Nat]
        /\ [rows |-> {}, built |-> 0].built <= Len(log)
    BY <1>3
  <2>4. CaughtUp([rows |-> {}, built |-> 0], log)
          \in [rows : SUBSET RowSet, built : 0..Len(log)]
    BY <1>3, <2>3, CaughtUpType
  <2> QED
    BY <1>2, <2>2, <2>4
<1>5. eventIds' \subseteq Gens \X Lines
  BY <1>2, <1>3, IdsJoined
<1>6. /\ DOMAIN sources' \subseteq Sources
      /\ \A s \in DOMAIN sources' : sources'[s] \in [gen : Gens, snap : Snapshots]
  BY <1>2, <1>3, CheckpointTypes
<1>7. StoreOK'
  BY <1>1, <1>2, <1>4, <1>5, <1>6 DEF StoreOK
<1>8. WorldOK'
  BY <1>1, <1>2 DEF WorldOK
<1>9. TypeOK'
  BY <1>7, <1>8, TypeParts, PTL
<1>10. EvidenceAnchored' /\ NoDuplicatesUnlessFlushFails'
  BY <1>2 DEF Inv, IInv, EvidenceAnchored, NoDuplicatesUnlessFlushFails, NoDuplicateEvents
<1>11. ReplayExact'
  BY <1>2 DEF ReplayExact
<1> QED
  BY <1>9, <1>10, <1>11 DEF Inv, IInv

-----------------------------------------------------------------------------
(* Projecting record by record.                                            *)

\* after is the table of Projection's states up to n.
Table(recs, n, after) ==
  after = [i \in 0..n |->
             IF i = 0 THEN {} ELSE ProjectRecord(after[i - 1], recs[i])]

LEMMA TableExists ==
  ASSUME NEW recs
  PROVE  \A n \in Nat : \E after : Table(recs, n, after)
<1> DEFINE T == {n \in Nat : ~\E after : Table(recs, n, after)}
<1> SUFFICES ASSUME T # {}
             PROVE  FALSE
  OBVIOUS
<1>1. PICK n \in T : \A m \in T : n <= m
  BY LeastNumber
<1>2. n # 0
  <2>1. Table(recs, 0, [i \in 0..0 |-> {}])
    BY DEF Table
  <2> QED
    BY <2>1
<1>3. n - 1 \in Nat /\ n - 1 \notin T /\ n \in Nat
  BY <1>1, <1>2
<1>4. PICK g : Table(recs, n - 1, g)
  BY <1>3
<1> DEFINE h == [i \in 0..n |-> IF i = n THEN ProjectRecord(g[n - 1], recs[n]) ELSE g[i]]
<1>5. ASSUME NEW i \in 0..n
      PROVE  h[i] = IF i = 0 THEN {} ELSE ProjectRecord(h[i - 1], recs[i])
  <2>1. CASE i = n
    BY <1>2, <1>3, <2>1
  <2>2. CASE i # n
    <3>1. i \in 0..n - 1
      BY <1>3, <2>2
    <3>2. g[i] = IF i = 0 THEN {} ELSE ProjectRecord(g[i - 1], recs[i])
      BY <1>4, <3>1 DEF Table
    <3>3. i # 0 => h[i - 1] = g[i - 1]
      BY <1>3, <3>1
    <3> QED
      BY <2>2, <3>2, <3>3
  <2> QED
    BY <2>1, <2>2
<1>6. Table(recs, n, h)
  BY <1>5 DEF Table
<1> QED
  BY <1>1, <1>6

\* Two logs are alike up to k.
Alike(t, u, k) == \A i \in 1..k : t[i] = u[i]

\* Two tables agree as far as their records do.
LEMMA TablesAgree ==
  ASSUME NEW t, NEW u, NEW k \in Nat, NEW n \in Nat, k <= n, Alike(t, u, k),
         NEW g, Table(t, k, g), NEW h, Table(u, n, h)
  PROVE  g[k] = h[k]
<1> DEFINE T == {i \in 0..k : g[i] # h[i]}
<1> SUFFICES ASSUME T # {}
             PROVE  FALSE
  OBVIOUS
<1>1. T \subseteq Nat
  OBVIOUS
<1>2. PICK i \in T : \A j \in T : i <= j
  <2> HIDE DEF T
  <2> QED
    BY <1>1, LeastNumber
<1>3. i \in 0..k /\ i \in 0..n
  BY <1>2
<1>4. /\ g[i] = IF i = 0 THEN {} ELSE ProjectRecord(g[i - 1], t[i])
      /\ h[i] = IF i = 0 THEN {} ELSE ProjectRecord(h[i - 1], u[i])
  BY <1>3 DEF Table
<1>5. i # 0
  BY <1>2, <1>4
<1>6. i - 1 \in 0..k /\ i - 1 \notin T /\ i \in 1..k
  BY <1>2, <1>3, <1>5
<1>7. g[i - 1] = h[i - 1] /\ t[i] = u[i]
  BY <1>6 DEF Alike
<1> QED
  BY <1>2, <1>4, <1>5, <1>7

LEMMA ProjectionTable ==
  ASSUME NEW recs \in Seq(Records)
  PROVE  \E after : Table(recs, Len(recs), after) /\ Projection(recs) = after[Len(recs)]
<1>1. \A n \in Nat : \E after : Table(recs, n, after)
  BY TableExists
<1>2. Len(recs) \in Nat
  OBVIOUS
<1>3. \E after : Table(recs, Len(recs), after)
  BY <1>1, <1>2
<1> QED
  BY <1>3 DEF Projection, Table

LEMMA ProjectionStep ==
  /\ Projection(<<>>) = {}
  /\ \A recs \in Seq(Records), r \in Records :
       Projection(Append(recs, r)) = ProjectRecord(Projection(recs), r)
<1>1. Projection(<<>>) = {}
  <2>1. <<>> \in Seq(Records) /\ Len(<<>>) = 0
    OBVIOUS
  <2>2. PICK after : Table(<<>>, 0, after) /\ Projection(<<>>) = after[0]
    BY <2>1, ProjectionTable
  <2> QED
    BY <2>2 DEF Table
<1>2. ASSUME NEW recs \in Seq(Records), NEW r \in Records
      PROVE  Projection(Append(recs, r)) = ProjectRecord(Projection(recs), r)
  <2> DEFINE more == Append(recs, r)
             n == Len(recs)
  <2>1. /\ n \in Nat /\ more \in Seq(Records) /\ Len(more) = n + 1
        /\ \A i \in 1..n : more[i] = recs[i]
        /\ more[n + 1] = r
    BY AppendProperties
  <2> HIDE DEF more, n
  <2>2. PICK g : Table(recs, n, g) /\ Projection(recs) = g[n]
    BY ProjectionTable DEF n
  <2>3. PICK h : Table(more, n + 1, h) /\ Projection(more) = h[n + 1]
    BY <2>1, ProjectionTable
  <2>4. g[n] = h[n]
    <3>1. n \in Nat /\ n + 1 \in Nat /\ n <= n + 1 /\ Alike(recs, more, n)
      BY <2>1 DEF Alike
    <3>2. Table(recs, n, g) /\ Table(more, n + 1, h)
      BY <2>2, <2>3
    <3> QED
      BY <3>1, <3>2, TablesAgree
  <2>5. h[n + 1] = ProjectRecord(h[n], more[n + 1])
    <3>1. n + 1 \in 0..(n + 1) /\ n + 1 # 0 /\ (n + 1) - 1 = n
      BY <2>1
    <3> QED
      BY <2>3, <3>1 DEF Table
  <2> QED
    BY <2>1, <2>2, <2>3, <2>4, <2>5 DEF more
<1> QED
  BY <1>1, <1>2

-----------------------------------------------------------------------------
(* Projecting a batch.                                                     *)

\* The row goes inactive if b.
Dim(row, b) == [row EXCEPT !.active = @ /\ ~b]

\* A record of recs from n on hides the row.
Hidden(recs, row, n) == \E k \in n..Len(recs) : Hides(recs[k], row)

\* The events that are inserted, and the rows that result.
RowIds(rows) == {IdOf(row) : row \in rows}

Inserted(rows, recs) ==
  {i \in OfKind(recs, "event") :
     /\ IdOf(recs[i]) \notin RowIds(rows)
     /\ \A k \in OfKind(recs, "event") : IdOf(recs[k]) = IdOf(recs[i]) => i <= k}

OldRow(recs, row) == Dim(row, Hidden(recs, row, 1))
NewRow(recs, i) == Row(recs[i], ~Hidden(recs, Row(recs[i], TRUE), i + 1))

LEMMA ProjectAllParts ==
  ASSUME NEW rows, NEW recs
  PROVE  ProjectAll(rows, recs) = {OldRow(recs, row) : row \in rows}
                                  \cup {NewRow(recs, i) : i \in Inserted(rows, recs)}
<1> DEFINE ins == {i \in OfKind(recs, "event") :
                     /\ ~\E row \in rows : IdOf(row) = IdOf(recs[i])
                     /\ \A k \in OfKind(recs, "event") :
                          IdOf(recs[k]) = IdOf(recs[i]) => i <= k}
<1>1. ins = Inserted(rows, recs)
  <2>1. \A i : IdOf(recs[i]) \notin RowIds(rows) <=>
                 ~\E row \in rows : IdOf(row) = IdOf(recs[i])
    BY DEF RowIds
  <2> QED
    BY <2>1 DEF Inserted
<1>2. ProjectAll(rows, recs) = {OldRow(recs, row) : row \in rows}
                               \cup {NewRow(recs, i) : i \in ins}
  BY DEF ProjectAll, OldRow, NewRow, Dim, Hidden
<1> QED
  BY <1>1, <1>2

LEMMA ProjectRecordParts ==
  ASSUME NEW rows, NEW r
  PROVE  ProjectRecord(rows, r) =
           {Dim(row, Hides(r, row)) : row \in rows}
           \cup (IF r.kind = "event" /\ IdOf(r) \notin RowIds(rows)
                 THEN {Row(r, TRUE)} ELSE {})
<1>1. IdOf(r) \notin RowIds(rows) <=> ~\E row \in rows : IdOf(row) = IdOf(r)
  BY DEF RowIds
<1> QED
  BY <1>1 DEF ProjectRecord, Dim

\* What a row shows does not depend on whether it is active.
LEMMA DimFacts ==
  ASSUME NEW row \in RowSet, NEW a \in BOOLEAN
  PROVE  /\ Dim(row, a) \in RowSet
         /\ IdOf(Dim(row, a)) = IdOf(row)
         /\ \A r : Hides(r, Dim(row, a)) = Hides(r, row)
         /\ \A b \in BOOLEAN : Dim(Dim(row, a), b) = Dim(row, a \/ b)
         /\ Dim(row, FALSE) = row
<1>1. /\ Dim(row, a).src = row.src /\ Dim(row, a).gen = row.gen
      /\ Dim(row, a).line = row.line /\ Dim(row, a).active = (row.active /\ ~a)
      /\ Dim(row, a) \in RowSet
  BY DEF Dim, RowSet
<1>2. IdOf(Dim(row, a)) = IdOf(row)
  BY <1>1 DEF IdOf
<1>3. \A r : Hides(r, Dim(row, a)) = Hides(r, row)
  BY <1>1 DEF Hides
<1>4. \A b \in BOOLEAN : Dim(Dim(row, a), b) = Dim(row, a \/ b)
  BY DEF Dim, RowSet
<1>5. Dim(row, FALSE) = row
  BY DEF Dim, RowSet
<1> QED
  BY <1>1, <1>2, <1>3, <1>4, <1>5

LEMMA RowFacts ==
  ASSUME NEW r, NEW a \in BOOLEAN
  PROVE  /\ IdOf(Row(r, a)) = IdOf(r)
         /\ \A x : Hides(x, Row(r, a)) = Hides(x, Row(r, TRUE))
         /\ \A b \in BOOLEAN : Dim(Row(r, a), b) = Row(r, a /\ ~b)
<1>1. /\ Row(r, a).src = r.src /\ Row(r, a).gen = r.gen /\ Row(r, a).line = r.line
      /\ Row(r, TRUE).src = r.src /\ Row(r, TRUE).gen = r.gen
      /\ Row(r, TRUE).line = r.line
  BY DEF Row
<1>2. \A b \in BOOLEAN : Dim(Row(r, a), b) = Row(r, a /\ ~b)
  BY DEF Dim, Row
<1> QED
  BY <1>1, <1>2 DEF IdOf, Hides

\* Projecting recs adds the ids of its events.
LEMMA IdsOfRows ==
  ASSUME NEW rows, rows \subseteq RowSet, NEW recs \in Seq(Records)
  PROVE  RowIds(ProjectAll(rows, recs)) = RowIds(rows) \cup IdsIn(recs)
<1> DEFINE E == OfKind(recs, "event")
<1>1. ASSUME NEW row \in rows
      PROVE  IdOf(OldRow(recs, row)) = IdOf(row)
  <2> DEFINE a == Hidden(recs, row, 1)
  <2>1. a \in BOOLEAN /\ row \in RowSet
    BY DEF Hidden
  <2> HIDE DEF a
  <2>2. IdOf(Dim(row, a)) = IdOf(row)
    BY <2>1, DimFacts
  <2> QED
    BY <2>2 DEF OldRow, a
<1>2. ASSUME NEW i \in E
      PROVE  IdOf(NewRow(recs, i)) = IdOf(recs[i])
  <2> DEFINE a == ~Hidden(recs, Row(recs[i], TRUE), i + 1)
  <2>1. a \in BOOLEAN
    OBVIOUS
  <2> HIDE DEF a
  <2>2. IdOf(Row(recs[i], a)) = IdOf(recs[i])
    BY <2>1, RowFacts
  <2> QED
    BY <2>2 DEF NewRow, a
<1>3. ProjectAll(rows, recs) = {OldRow(recs, row) : row \in rows}
                               \cup {NewRow(recs, i) : i \in Inserted(rows, recs)}
  BY ProjectAllParts
<1>4. Inserted(rows, recs) \subseteq E
  BY DEF Inserted
<1>5. \A x : x \in IdsIn(recs) <=> \E i \in E : x = IdOf(recs[i])
  BY DEF IdsIn
<1>6. E \subseteq Nat
  BY DEF OfKind
<1>7. \A i : i \in Inserted(rows, recs) <=>
        /\ i \in E
        /\ IdOf(recs[i]) \notin RowIds(rows)
        /\ \A k \in E : IdOf(recs[k]) = IdOf(recs[i]) => i <= k
  BY DEF Inserted
<1> HIDE DEF E
<1>8. ASSUME NEW x \in RowIds(ProjectAll(rows, recs))
      PROVE  x \in RowIds(rows) \cup IdsIn(recs)
  <2>1. PICK row \in ProjectAll(rows, recs) : x = IdOf(row)
    BY DEF RowIds
  <2>2. CASE \E old \in rows : row = OldRow(recs, old)
    BY <1>1, <2>1, <2>2 DEF RowIds
  <2>3. CASE \E i \in Inserted(rows, recs) : row = NewRow(recs, i)
    BY <1>2, <1>4, <1>5, <2>1, <2>3
  <2> QED
    BY <1>3, <2>1, <2>2, <2>3
<1>9. ASSUME NEW x \in RowIds(rows)
      PROVE  x \in RowIds(ProjectAll(rows, recs))
  <2>1. PICK row \in rows : x = IdOf(row)
    BY DEF RowIds
  <2>2. OldRow(recs, row) \in ProjectAll(rows, recs)
    BY <1>3
  <2> QED
    BY <1>1, <2>1, <2>2 DEF RowIds
<1>10. ASSUME NEW x \in IdsIn(recs), x \notin RowIds(rows)
       PROVE  x \in RowIds(ProjectAll(rows, recs))
  <2> DEFINE T == {i \in E : IdOf(recs[i]) = x}
  <2>1. T \subseteq Nat /\ T # {}
    BY <1>5, <1>6
  <2> HIDE DEF T
  <2>2. PICK i \in T : \A k \in T : i <= k
    BY <2>1, LeastNumber
  <2>3. i \in E /\ IdOf(recs[i]) = x
    BY <2>2 DEF T
  <2>4. \A k \in E : IdOf(recs[k]) = IdOf(recs[i]) => i <= k
    BY <2>2, <2>3 DEF T
  <2>5. i \in Inserted(rows, recs)
    BY <1>7, <1>10, <2>3, <2>4
  <2>6. NewRow(recs, i) \in ProjectAll(rows, recs)
    BY <1>3, <2>5
  <2>7. IdOf(NewRow(recs, i)) = x
    BY <1>2, <2>3
  <2> QED
    BY <2>6, <2>7 DEF RowIds
<1> QED
  BY <1>8, <1>9, <1>10

\* One more record at the end of a batch is one more step of the projection.
LEMMA ProjectAppend ==
  ASSUME NEW rows, rows \subseteq RowSet, NEW u \in Seq(Records), NEW r \in Records
  PROVE  ProjectAll(rows, Append(u, r)) = ProjectRecord(ProjectAll(rows, u), r)
<1> DEFINE w == Append(u, r)
           n == Len(u)
           m == n + 1
           A == ProjectAll(rows, u)
<1>1. /\ n \in Nat /\ m = n + 1 /\ w \in Seq(Records) /\ Len(w) = m
      /\ \A i \in 1..n : w[i] = u[i]
      /\ w[m] = r
      /\ Len(u) = n
  BY AppendProperties
<1> HIDE DEF w, n, m
<1>2. ASSUME NEW row, NEW j \in 1..m
      PROVE  Hidden(w, row, j) = (Hidden(u, row, j) \/ Hides(r, row))
  <2>1. ASSUME Hidden(w, row, j)
        PROVE  Hidden(u, row, j) \/ Hides(r, row)
    <3>1. PICK k \in j..m : Hides(w[k], row)
      BY <1>1, <2>1 DEF Hidden
    <3>2. CASE k = m
      BY <1>1, <3>1, <3>2
    <3>3. CASE k # m
      <4>1. k \in j..n /\ k \in 1..n
        BY <1>1, <3>3
      <4> QED
        BY <1>1, <3>1, <4>1 DEF Hidden
    <3> QED
      BY <3>2, <3>3
  <2>2. ASSUME Hidden(u, row, j)
        PROVE  Hidden(w, row, j)
    <3>1. PICK k \in j..n : Hides(u[k], row)
      BY <1>1, <2>2 DEF Hidden
    <3>2. k \in j..m /\ k \in 1..n
      BY <1>1
    <3> QED
      BY <1>1, <3>1, <3>2 DEF Hidden
  <2>3. ASSUME Hides(r, row)
        PROVE  Hidden(w, row, j)
    <3>1. m \in j..m
      BY <1>1
    <3> QED
      BY <1>1, <2>3, <3>1 DEF Hidden
  <2>4. Hidden(w, row, j) \in BOOLEAN /\ Hidden(u, row, j) \in BOOLEAN
        /\ Hides(r, row) \in BOOLEAN
    BY DEF Hidden, Hides
  <2> QED
    BY <2>1, <2>2, <2>3, <2>4
<1>3. \A recs, row, j : Hidden(recs, row, j) \in BOOLEAN /\ Hides(r, row) \in BOOLEAN
  BY DEF Hidden, Hides
<1>4. 1 \in 1..m /\ \A i \in OfKind(u, "event") : i \in 1..n /\ i + 1 \in 1..m
  <2>1. OfKind(u, "event") \subseteq 1..n
    BY <1>1 DEF OfKind
  <2> QED
    BY <1>1, <2>1
\* The rows that were there.
<1>5. ASSUME NEW row \in rows
      PROVE  OldRow(w, row) = Dim(OldRow(u, row), Hides(r, OldRow(u, row)))
  <2> DEFINE a == Hidden(u, row, 1)
             b == Hides(r, row)
  <2>1. a \in BOOLEAN /\ b \in BOOLEAN /\ row \in RowSet
    BY <1>3
  <2>2. Hidden(w, row, 1) = (a \/ b)
    BY <1>2, <1>4
  <2>3. Hides(r, Dim(row, a)) = b /\ Dim(Dim(row, a), b) = Dim(row, a \/ b)
    <3> HIDE DEF a
    <3> QED
      BY <2>1, DimFacts
  <2> HIDE DEF a, b
  <2> QED
    BY <2>2, <2>3 DEF a, OldRow
\* The rows of the events of u.
<1>6. ASSUME NEW i \in OfKind(u, "event")
      PROVE  NewRow(w, i) = Dim(NewRow(u, i), Hides(r, NewRow(u, i)))
  <2> DEFINE a == Hidden(u, Row(u[i], TRUE), i + 1)
             b == Hides(r, Row(u[i], TRUE))
  <2>1. a \in BOOLEAN /\ b \in BOOLEAN
    BY DEF Hidden, Hides
  <2>2. w[i] = u[i]
    BY <1>1, <1>4
  <2>3. Hidden(w, Row(u[i], TRUE), i + 1) = (a \/ b)
    BY <1>2, <1>4
  <2>4. Hides(r, Row(u[i], ~a)) = b /\ Dim(Row(u[i], ~a), b) = Row(u[i], ~a /\ ~b)
    <3>1. (~a) \in BOOLEAN
      OBVIOUS
    <3> HIDE DEF a
    <3> QED
      BY <2>1, <3>1, RowFacts
  <2>5. (~a /\ ~b) = ~(a \/ b)
    BY <2>1
  <2> HIDE DEF a, b
  <2> QED
    BY <2>2, <2>3, <2>4, <2>5 DEF a, NewRow
\* The row of r.
<1>7. NewRow(w, m) = Row(r, TRUE)
  <2>1. ~Hidden(w, Row(r, TRUE), m + 1)
    <3>1. (m + 1)..m = {}
      BY <1>1
    <3> QED
      BY <1>1, <3>1 DEF Hidden
  <2>2. (~Hidden(w, Row(r, TRUE), m + 1)) = TRUE
    BY <1>3, <2>1
  <2> QED
    BY <1>1, <2>2 DEF NewRow
<1>8. \A i : i \in Inserted(rows, w) <=>
        \/ i \in Inserted(rows, u)
        \/ i = m /\ r.kind = "event" /\ IdOf(r) \notin RowIds(A)
  <2> DEFINE E == OfKind(u, "event")
             F == OfKind(w, "event")
  <2>1. \A i : i \in F <=> i \in E \/ (i = m /\ r.kind = "event")
    <3>1. \A i : i \in F <=> i \in 1..m /\ w[i].kind = "event"
      BY <1>1 DEF OfKind
    <3>2. \A i : i \in E <=> i \in 1..n /\ u[i].kind = "event"
      BY <1>1 DEF OfKind
    <3>3. \A i : i \in 1..m <=> i \in 1..n \/ i = m
      BY <1>1
    <3>4. m \notin 1..n
      BY <1>1
    <3>5. \A i \in 1..n : w[i] = u[i]
      BY <1>1
    <3>6. w[m] = r
      BY <1>1
    <3> HIDE DEF E, F
    <3>7. \A i \in 1..n : i \in F <=> i \in E
      BY <3>1, <3>2, <3>3, <3>5
    <3>8. m \in F <=> r.kind = "event"
      BY <3>1, <3>3, <3>6
    <3>9. (\A i \in F : i \in 1..n \/ i = m) /\ (\A i \in E : i \in 1..n)
      BY <3>1, <3>2, <3>3
    <3> QED
      BY <3>7, <3>8, <3>9
  <2>2. \A i \in E : w[i] = u[i] /\ i <= m /\ ~(m <= i)
    BY <1>1, <1>4
  <2>3. m <= m /\ w[m] = r
    BY <1>1
  <2>4. \A x : x \in RowIds(A) <=> x \in RowIds(rows) \/ \E i \in E : x = IdOf(u[i])
    <3>1. RowIds(A) = RowIds(rows) \cup IdsIn(u)
      BY IdsOfRows
    <3>2. \A x : x \in IdsIn(u) <=> \E i \in E : x = IdOf(u[i])
      BY DEF IdsIn
    <3> HIDE DEF A, E
    <3> QED
      BY <3>1, <3>2
  <2>5. \A i : i \in Inserted(rows, w) <=>
          /\ i \in F
          /\ IdOf(w[i]) \notin RowIds(rows)
          /\ \A k \in F : IdOf(w[k]) = IdOf(w[i]) => i <= k
    BY DEF Inserted
  <2>6. \A i : i \in Inserted(rows, u) <=>
          /\ i \in E
          /\ IdOf(u[i]) \notin RowIds(rows)
          /\ \A k \in E : IdOf(u[k]) = IdOf(u[i]) => i <= k
    BY DEF Inserted
  <2> HIDE DEF A, E, F
  <2>7. ASSUME NEW i \in E
        PROVE  i \in Inserted(rows, w) <=> i \in Inserted(rows, u)
    <3>1. i \in F /\ w[i] = u[i] /\ i <= m
      BY <2>1, <2>2
    <3>2. \A k \in F : k \in E \/ k = m
      BY <2>1
    <3>3. \A k \in E : k \in F /\ w[k] = u[k]
      BY <2>1, <2>2
    <3>4. (\A k \in F : IdOf(w[k]) = IdOf(w[i]) => i <= k) <=>
          (\A k \in E : IdOf(u[k]) = IdOf(u[i]) => i <= k)
      BY <3>1, <3>2, <3>3
    <3> QED
      BY <2>5, <2>6, <3>1, <3>4
  <2>8. ASSUME r.kind = "event"
        PROVE  m \in Inserted(rows, w) <=> IdOf(r) \notin RowIds(A)
    BY <2>1, <2>2, <2>3, <2>4, <2>5, <2>8
  <2>9. m \notin E
    BY <2>2, <2>3
  <2> QED
    BY <2>1, <2>5, <2>6, <2>7, <2>8, <2>9
<1>9. ProjectAll(rows, w) = ProjectRecord(A, r)
  <2>1. ProjectAll(rows, w) = {OldRow(w, row) : row \in rows}
                              \cup {NewRow(w, i) : i \in Inserted(rows, w)}
    BY ProjectAllParts
  <2>2. A = {OldRow(u, row) : row \in rows}
            \cup {NewRow(u, i) : i \in Inserted(rows, u)}
    BY ProjectAllParts
  <2>3. ProjectRecord(A, r) =
          {Dim(row, Hides(r, row)) : row \in A}
          \cup (IF r.kind = "event" /\ IdOf(r) \notin RowIds(A)
                THEN {Row(r, TRUE)} ELSE {})
    BY ProjectRecordParts
  <2>4. Inserted(rows, u) \subseteq OfKind(u, "event")
    BY DEF Inserted
  <2> HIDE DEF A
  <2>5. {Dim(row, Hides(r, row)) : row \in A} =
          {OldRow(w, row) : row \in rows} \cup {NewRow(w, i) : i \in Inserted(rows, u)}
    BY <1>5, <1>6, <2>2, <2>4
  <2>6. {NewRow(w, i) : i \in Inserted(rows, w)} =
          {NewRow(w, i) : i \in Inserted(rows, u)}
          \cup (IF r.kind = "event" /\ IdOf(r) \notin RowIds(A)
                THEN {Row(r, TRUE)} ELSE {})
    BY <1>7, <1>8
  <2> QED
    BY <2>1, <2>3, <2>5, <2>6
<1> QED
  BY <1>9 DEF w

LEMMA ProjectNone ==
  ASSUME NEW rows, rows \subseteq RowSet
  PROVE  ProjectAll(rows, <<>>) = rows
<1>1. ProjectAll(rows, <<>>) = {OldRow(<<>>, row) : row \in rows}
                               \cup {NewRow(<<>>, i) : i \in Inserted(rows, <<>>)}
  BY ProjectAllParts
<1>2. Inserted(rows, <<>>) = {}
  BY DEF Inserted, OfKind
<1>3. ASSUME NEW row \in rows
      PROVE  OldRow(<<>>, row) = row
  <2>1. ~Hidden(<<>>, row, 1)
    BY DEF Hidden
  <2>2. Hidden(<<>>, row, 1) = FALSE
    BY <2>1 DEF Hidden
  <2>3. Dim(row, FALSE) = row
    BY DimFacts
  <2> QED
    BY <2>2, <2>3 DEF OldRow
<1> QED
  BY <1>1, <1>2, <1>3

\* Projecting a batch on top of what a log projects to is projecting the log
\* and the batch record by record.
LEMMA ProjectionJoined ==
  ASSUME NEW rows, rows \subseteq RowSet, NEW t \in Seq(Records), rows = Projection(t),
         NEW u \in Seq(Records)
  PROVE  ProjectAll(rows, u) = Projection(t \o u)
<1> DEFINE Wrong(v) == ProjectAll(rows, v) # Projection(t \o v)
           T == {n \in Nat : \E v \in Seq(Records) : Len(v) = n /\ Wrong(v)}
<1> SUFFICES ASSUME T # {}
             PROVE  FALSE
  <2>1. Len(u) \in Nat
    OBVIOUS
  <2> QED
    BY <2>1
<1>1. T \subseteq Nat
  OBVIOUS
<1>2. PICK n \in T : \A k \in T : n <= k
  <2> HIDE DEF T
  <2> QED
    BY <1>1, LeastNumber
<1>3. PICK v \in Seq(Records) : Len(v) = n /\ Wrong(v)
  BY <1>2
<1>4. v # <<>>
  <2>1. ProjectAll(rows, <<>>) = rows
    BY ProjectNone
  <2>2. t \o <<>> = t
    OBVIOUS
  <2> QED
    BY <1>3, <2>1, <2>2
<1>5. PICK w \in Seq(Records), r \in Records : v = Append(w, r)
  BY <1>4, SequenceEmptyOrAppend
<1>6. Len(w) \in Nat /\ n = Len(w) + 1
  BY <1>3, <1>5, AppendProperties
<1>7. ~Wrong(w)
  <2>1. Len(w) \notin T
    <3>1. ~(n <= Len(w))
      BY <1>6
    <3> HIDE DEF T
    <3> QED
      BY <1>2, <3>1
  <2> QED
    BY <1>6, <2>1
<1>8. ProjectAll(rows, v) = ProjectRecord(ProjectAll(rows, w), r)
  BY <1>5, ProjectAppend
<1>9. t \o v = Append(t \o w, r) /\ t \o w \in Seq(Records)
  <2>1. t \o Append(w, r) = Append(t \o w, r)
    OBVIOUS
  <2>2. t \o w \in Seq(Records)
    BY ConcatProperties
  <2> QED
    BY <1>5, <2>1, <2>2
<1>10. Projection(t \o v) = ProjectRecord(Projection(t \o w), r)
  BY <1>9, ProjectionStep
<1> QED
  BY <1>3, <1>7, <1>8, <1>10

-----------------------------------------------------------------------------
(* The sidecar is exact.                                                   *)

\* The prefix of the log that is in the sidecar, and the rest.
LEMMA LogSplit ==
  ASSUME NEW t \in Seq(Records), NEW n \in 0..Len(t)
  PROVE  /\ SubSeq(t, 1, n) \in Seq(Records)
         /\ SubSeq(t, n + 1, Len(t)) \in Seq(Records)
         /\ SubSeq(t, 1, n) \o SubSeq(t, n + 1, Len(t)) = t
         /\ SubSeq(t, 1, Len(t)) = t
         /\ \A u \in Seq(Records) : SubSeq(t \o u, 1, n) = SubSeq(t, 1, n)
<1>1. Len(t) \in Nat /\ n \in Nat /\ n <= Len(t)
  OBVIOUS
<1>2. \A i \in 1..Len(t) : t[i] \in Records
  OBVIOUS
<1> DEFINE a == SubSeq(t, 1, n)
           b == SubSeq(t, n + 1, Len(t))
<1>3. a \in Seq(Records) /\ Len(a) = n /\ \A i \in 1..n : a[i] = t[i]
  <2>1. 1 \in Int /\ n \in Int /\ \A i \in 1..n : t[i] \in Records
    BY <1>1, <1>2
  <2> QED
    BY <2>1, <1>1, SubSeqProperties
<1>4. b \in Seq(Records) /\ Len(b) = Len(t) - n
      /\ \A i \in 1..(Len(t) - n) : b[i] = t[n + i]
  <2>1. n + 1 \in Int /\ Len(t) \in Int
        /\ \A i \in (n + 1)..Len(t) : t[i] \in Records
    BY <1>1, <1>2
  <2>2. /\ b \in Seq(Records)
        /\ Len(b) = IF n + 1 <= Len(t) THEN Len(t) - (n + 1) + 1 ELSE 0
        /\ \A i \in 1..(Len(t) - (n + 1) + 1) : b[i] = t[(n + 1) + i - 1]
    BY <2>1, SubSeqProperties
  <2>3. Len(t) - (n + 1) + 1 = Len(t) - n
    BY <1>1
  <2> HIDE DEF b
  <2>4. ASSUME NEW i \in 1..(Len(t) - n)
        PROVE  b[i] = t[n + i]
    <3>1. i \in 1..(Len(t) - (n + 1) + 1) /\ (n + 1) + i - 1 = n + i
      BY <1>1
    <3>2. b[i] = t[(n + 1) + i - 1]
      BY <2>2, <3>1
    <3> QED
      BY <3>1, <3>2
  <2>5. Len(b) = Len(t) - n
    BY <1>1, <2>2
  <2> QED
    BY <2>2, <2>4, <2>5
<1>5. SubSeq(t, 1, Len(t)) = t
  BY SubSeqFull
<1>6. a \o b = t
  <2> HIDE DEF a, b
  <2>1. a \o b \in Seq(Records) /\ Len(a \o b) = Len(t)
    BY <1>1, <1>3, <1>4, ConcatProperties
  <2>2. ASSUME NEW i \in 1..Len(t)
        PROVE  (a \o b)[i] = t[i]
    <3>1. (a \o b)[i] = IF i <= n THEN a[i] ELSE b[i - n]
      BY <1>1, <1>3, <1>4, ConcatProperties
    <3>2. CASE i <= n
      BY <1>1, <1>3, <3>1, <3>2
    <3>3. CASE ~(i <= n)
      <4>1. i - n \in 1..(Len(t) - n) /\ n + (i - n) = i
        BY <1>1, <3>3
      <4> QED
        BY <1>4, <3>1, <3>3, <4>1
    <3> QED
      BY <3>2, <3>3
  <2> QED
    BY <2>1, <2>2, SeqEqual
<1>7. ASSUME NEW u \in Seq(Records)
      PROVE  SubSeq(t \o u, 1, n) = a
  <2> DEFINE all == t \o u
             c == SubSeq(all, 1, n)
  <2>1. /\ all \in Seq(Records) /\ Len(all) \in Nat /\ Len(t) <= Len(all)
        /\ \A i \in 1..Len(t) : all[i] = t[i]
    BY <1>1, Joined
  <2> HIDE DEF all
  <2>2. c \in Seq(Records) /\ Len(c) = n /\ \A i \in 1..n : c[i] = all[i]
    <3>1. 1 \in Int /\ n \in Int /\ \A i \in 1..n : all[i] \in Records
      BY <1>1, <1>2, <2>1
    <3> QED
      BY <1>1, <3>1, SubSeqProperties
  <2> HIDE DEF c, a
  <2>3. \A i \in 1..n : c[i] = a[i]
    BY <1>1, <1>3, <2>1, <2>2
  <2>4. c = a
    BY <1>3, <2>2, <2>3, SeqEqual
  <2> QED
    BY <2>4 DEF c, all
<1> QED
  BY <1>3, <1>4, <1>5, <1>6, <1>7

\* The sidecar as it is, at the end of a longer log or not.
LEMMA LaggingExact ==
  ASSUME StoreOK, SidecarExact, sidecar' = sidecar,
         log' = log \/ \E recs \in Seq(Records) : log' = log \o recs
  PROVE  SidecarExact'
<1>1. log \in Seq(Records) /\ sidecar.built \in 0..Len(log)
  BY DEF StoreOK
<1>2. SubSeq(log', 1, sidecar.built) = SubSeq(log, 1, sidecar.built)
  BY <1>1, LogSplit
<1> QED
  BY <1>2 DEF SidecarExact

\* Catching up, from a sidecar that is exact.
LEMMA CatchUpExact ==
  ASSUME StoreOK, log' = log,
         NEW sc \in [rows : SUBSET RowSet, built : 0..Len(log)],
         sc.rows = Projection(SubSeq(log, 1, sc.built)),
         sidecar' = CaughtUp(sc, log)
  PROVE  SidecarExact'
<1> DEFINE n == sc.built
           front == SubSeq(log, 1, n)
           rest == SubSeq(log, n + 1, Len(log))
<1>1. log \in Seq(Records) /\ n \in 0..Len(log) /\ sc.rows \subseteq RowSet
  BY DEF StoreOK
<1> HIDE DEF n
<1>2. /\ front \in Seq(Records) /\ rest \in Seq(Records) /\ front \o rest = log
      /\ SubSeq(log, 1, Len(log)) = log
  BY <1>1, LogSplit
<1>3. sc.rows = Projection(front)
  BY DEF n
<1> HIDE DEF front, rest
<1>4. ProjectAll(sc.rows, rest) = Projection(log)
  BY <1>1, <1>2, <1>3, ProjectionJoined
<1>5. sidecar'.rows = ProjectAll(sc.rows, rest) /\ sidecar'.built = Len(log)
  BY DEF CaughtUp, rest, n
<1> QED
  BY <1>2, <1>4, <1>5 DEF SidecarExact

LEMMA AppendProjectExact ==
  ASSUME StoreOK, SidecarExact, NEW recs, Acceptable(recs), NEW ok \in BOOLEAN,
         AppendProject(recs, ok)
  PROVE  SidecarExact'
<1>1. log \in Seq(Records) /\ recs \in Seq(Records) /\ sidecar.rows \subseteq RowSet
      /\ Len(log) \in Nat /\ sidecar.built \in 0..Len(log)
  BY DEF StoreOK, Acceptable
<1>2. CASE Projects(recs)
  <2>1. /\ sidecar.built = Len(log) /\ log' = log \o recs
        /\ sidecar' = [rows |-> ProjectAll(sidecar.rows, recs), built |-> Len(log')]
    BY <1>2 DEF Projects
  <2>2. SubSeq(log, 1, Len(log)) = log
    BY <1>1, LogSplit
  <2>3. sidecar.rows = Projection(log)
    BY <2>1, <2>2 DEF SidecarExact
  <2>4. ProjectAll(sidecar.rows, recs) = Projection(log')
    BY <1>1, <2>1, <2>3, ProjectionJoined
  <2>5. SubSeq(log', 1, Len(log')) = log'
    <3>1. log' \in Seq(Records) /\ Len(log') \in 0..Len(log')
      BY <1>1, <2>1, Joined
    <3> QED
      BY <3>1, LogSplit
  <2> QED
    BY <2>1, <2>4, <2>5 DEF SidecarExact
<1>3. CASE ~Projects(recs)
  <2>1. ProjectionFails(recs) \/ FlushFails(recs) \/ AppendFails(recs)
    BY <1>3 DEF AppendProject
  <2>2. sidecar' = sidecar /\ (log' = log \/ log' = log \o recs)
    BY <2>1 DEF ProjectionFails, FlushFails, AppendFails
  <2> QED
    BY <1>1, <2>2, LaggingExact
<1> QED
  BY <1>2, <1>3

LEMMA ReconcileSourceExact ==
  ASSUME TypeOK, SidecarExact, NEW s \in Sources, files[s] # Gone, NEW force \in BOOLEAN,
         NEW ok \in BOOLEAN, ReconcileSource(s, force, ok)
  PROVE  SidecarExact'
<1>1. StoreOK
  BY TypeParts
<1>2. CASE NothingNew(s, force)
  <2>1. log' = log /\ sidecar' = sidecar
    BY <1>2 DEF ReconcileSource
  <2> QED
    BY <1>1, <2>1, LaggingExact
<1>3. CASE ~NothingNew(s, force)
  <2>1. AppendProject(Batch(s, force), ok)
    BY <1>3 DEF ReconcileSource
  <2> QED
    BY <1>1, <2>1, BatchAcceptable, AppendProjectExact
<1> QED
  BY <1>2, <1>3

LEMMA StaysExact ==
  ASSUME Inv, SidecarExact, [Next]_vars
  PROVE  SidecarExact'
<1>1. TypeOK /\ StoreOK /\ WorldOK
  BY Parts
<1>2. log \in Seq(Records) /\ Len(log) \in Nat
      /\ sidecar \in [rows : SUBSET RowSet, built : 0..Len(log)]
  BY <1>1 DEF StoreOK
<1>3. ASSUME log' = log, sidecar' = sidecar
      PROVE  SidecarExact'
  BY <1>1, <1>3, LaggingExact
<1>4. ASSUME log' = log, sidecar' = CaughtUp(sidecar, log)
      PROVE  SidecarExact'
  BY <1>1, <1>2, <1>4, CatchUpExact DEF SidecarExact
<1>5. CASE UNCHANGED vars
  BY <1>3, <1>5 DEF vars
<1>6. CASE World
  <2>1. ASSUME NEW s \in Sources, NEW c, Changes(s, c)
        PROVE  log' = log /\ sidecar' = sidecar
    BY <2>1 DEF Changes
  <2> QED
    BY <1>3, <1>6, <2>1
       DEF World, HarnessCreates, HarnessAppends, HarnessRewrites, HarnessDeletes, Toggle
<1>7. CASE \E s \in Sources : GraceEnds(s)
  BY <1>3, <1>7 DEF GraceEnds
<1>8. CASE StartReconcile \/ StartTick
  BY <1>4, <1>8 DEF StartReconcile, StartTick, EnsureProjection
<1>9. CASE RepairFails \/ EndRound
  BY <1>3, <1>9 DEF RepairFails, EndRound
<1>10. CASE Steps
  <2>1. ASSUME NEW s \in Sources, NEW ok \in BOOLEAN, ReconcileStep(s, ok)
        PROVE  SidecarExact'
    <3>1. CASE files[s] = Gone
      BY <1>3, <2>1, <3>1 DEF ReconcileStep
    <3>2. CASE files[s] # Gone
      <4>1. ReconcileSource(s, missing[s] = "retracted", ok)
        BY <2>1, <3>2 DEF ReconcileStep
      <4>2. (missing[s] = "retracted") \in BOOLEAN
        OBVIOUS
      <4> QED
        BY <1>1, <3>2, <4>1, <4>2, ReconcileSourceExact
    <3> QED
      BY <3>1, <3>2
  <2>2. ASSUME NEW s \in Sources, NEW ok \in BOOLEAN, TickStep(s, ok)
        PROVE  SidecarExact'
    <3>1. CASE files[s] = Gone
      BY <1>3, <2>2, <3>1 DEF TickStep
    <3>2. CASE files[s] # Gone
      <4>1. ReconcileSource(s, FALSE, ok)
        BY <2>2, <3>2 DEF TickStep
      <4> QED
        BY <1>1, <3>2, <4>1, ReconcileSourceExact
    <3> QED
      BY <3>1, <3>2
  <2>3. ASSUME NEW s \in Sources, NEW ok \in BOOLEAN, RetractMissing(s, ok)
        PROVE  SidecarExact'
    <3>1. LooksAt(s) /\ AppendProject(<<Visibility(s, sources[s].gen)>>, ok)
      BY <2>3 DEF RetractMissing
    <3>2. Known(s)
      BY <3>1 DEF LooksAt, Unseen, Known
    <3>3. sources[s].gen \in Gens
      BY <1>1, <3>2, GenerationType
    <3> QED
      BY <1>1, <3>1, <3>3, ControlAcceptable, AppendProjectExact
  <2>4. ASSUME NEW s \in Sources, NoticeMissing(s)
        PROVE  SidecarExact'
    BY <1>3, <2>4 DEF NoticeMissing
  <2> QED
    BY <1>10, <2>1, <2>2, <2>3, <2>4 DEF Steps
<1>11. CASE Kill
  BY <1>3, <1>11 DEF Kill
<1>12. CASE KillInBatch
  <2>1. sidecar' = sidecar
    BY <1>12 DEF KillInBatch
  <2>2. PICK s \in Sources : \E n \in 1..Len(BatchOf(s)) :
               log' = log \o SubSeq(BatchOf(s), 1, n)
    BY <1>12 DEF KillInBatch
  <2>3. PICK n \in 1..Len(BatchOf(s)) : log' = log \o SubSeq(BatchOf(s), 1, n)
    BY <2>2
  <2>4. Acceptable(SubSeq(BatchOf(s), 1, n))
    BY <1>1, BatchOfAcceptable, PrefixAcceptable
  <2>5. SubSeq(BatchOf(s), 1, n) \in Seq(Records)
    BY <2>4 DEF Acceptable
  <2> QED
    BY <1>1, <2>1, <2>3, <2>5, LaggingExact
<1>13. CASE Restart
  BY <1>4, <1>13 DEF Restart
<1>14. CASE RestartRebuilds
  <2> DEFINE empty == [rows |-> {}, built |-> 0]
  <2>1. log' = log /\ sidecar' = CaughtUp(empty, log)
    BY <1>14 DEF RestartRebuilds
  <2>2. empty \in [rows : SUBSET RowSet, built : 0..Len(log)]
    BY <1>2
  <2>3. SubSeq(log, 1, 0) = <<>>
    BY SubSeqEmpty
  <2>4. empty.rows = Projection(SubSeq(log, 1, empty.built))
    BY <2>3, ProjectionStep
  <2> HIDE DEF empty
  <2> QED
    BY <1>1, <2>1, <2>2, <2>4, CatchUpExact
<1> QED
  BY <1>5, <1>6, <1>7, <1>8, <1>9, <1>10, <1>11, <1>12, <1>13, <1>14 DEF Next, Opens

-----------------------------------------------------------------------------
(* The theorems.                                                           *)

LEMMA Begins == Init => Inv
<1> SUFFICES ASSUME Init
             PROVE  Inv
  OBVIOUS
<1>1. log = <<>> /\ log \in Seq(Records) /\ Len(log) = 0
  BY DEF Init
<1>2. StoreOK
  <2>1. sidecar \in [rows : SUBSET RowSet, built : 0..Len(log)]
    BY <1>1 DEF Init
  <2>2. faults \in 0..MaxFaults
    BY IngestAssumption DEF Init
  <2> QED
    BY <1>1, <2>1, <2>2, EmptyFacts DEF Init, StoreOK
<1>3. WorldOK
  <2>1. changes \in 0..MaxChanges
    BY IngestAssumption DEF Init
  <2> QED
    BY <2>1, EmptyFacts DEF Init, WorldOK
<1>4. \A k : OfKind(log, k) = {}
  BY <1>1 DEF OfKind
<1>5. IdsIn(log) = {} /\ CheckpointsIn(log) = <<>>
  <2>1. IdsIn(log) = {}
    BY <1>4 DEF IdsIn
  <2>2. CheckpointsIn(log) = [s \in {} |-> <<>>]
    BY <1>4 DEF CheckpointsIn
  <2>3. <<>> = [s \in {} |-> <<>>]
    OBVIOUS
  <2> QED
    BY <2>1, <2>2, <2>3
<1>6. EvidenceAnchored /\ NoDuplicatesUnlessFlushFails
  BY <1>4 DEF EvidenceAnchored, NoDuplicatesUnlessFlushFails, NoDuplicateEvents
<1>7. ReplayExact
  BY <1>5 DEF Init, ReplayExact
<1> QED
  BY <1>2, <1>3, <1>6, <1>7, TypeParts DEF Inv, IInv

LEMMA Continues == Inv /\ [Next]_vars => Inv'
<1> SUFFICES ASSUME Inv, [Next]_vars
             PROVE  Inv'
  OBVIOUS
<1>1. CASE UNCHANGED vars
  <2>1. StoreOK /\ WorldOK
    BY Parts
  <2>2. UNCHANGED <<files, enabled, log, sidecar, up, replay, degraded, missing, hot, round,
                    settled, changes, faults, past>>
    BY <1>1 DEF vars, memory, bounds, trouble
  <2>3. Kept
    BY <2>1, <2>2, RestKeeps DEF StoreOK
  <2>4. WorldOK'
    BY <2>1, <2>2 DEF WorldOK
  <2> QED
    BY <2>2, <2>3, <2>4, StepKeeps
<1>2. CASE Next
  BY <1>2, WorldStep, RoundStep, SourceStep, KillStep, OpensStep DEF Next
<1> QED
  BY <1>1, <1>2

\* What the writer knows is what L1 says, events point at their evidence and
\* everything has its type, through every interleaving of harnesses, rounds,
\* failing appends and projections, kills at any record of a batch, and
\* restarts (ReplayState::apply, ReplayState::load, reconcile_source).
THEOREM Invariance == Spec => []IInv
<1>1. Inv => IInv
  BY DEF Inv
<1> QED
  BY <1>1, Begins, Continues, PTL DEF Spec

\* No event is in L1 twice, unless a flush failed after its batch was
\* appended ("Recovery must not duplicate canonical events").
THEOREM NoDuplicates == Spec => []NoDuplicatesUnlessFlushFails
<1>1. Inv => NoDuplicatesUnlessFlushFails
  BY DEF Inv
<1> QED
  BY <1>1, Begins, Continues, PTL DEF Spec

\* The empty sidecar is the projection of no record.
LEMMA SidecarBegins == Init => SidecarExact
<1> SUFFICES ASSUME Init
             PROVE  SidecarExact
  OBVIOUS
<1>1. log = <<>> /\ sidecar.rows = {} /\ sidecar.built = 0
  BY DEF Init
<1>2. SubSeq(<<>>, 1, 0) = <<>>
  BY SubSeqEmpty
<1> QED
  BY <1>1, <1>2, ProjectionStep DEF SidecarExact

\* The sidecar is what projecting the log record by record gives, whatever
\* mixture of batches, failures, repairs, kills and restarts built it
\* (Sidecar::project, catch_up, rebuild).
THEOREM Exactness == Spec => []SidecarExact
<1>1. Inv /\ SidecarExact /\ [Next]_vars => SidecarExact'
  BY StaysExact
<1> QED
  BY <1>1, SidecarBegins, Begins, Continues, PTL DEF Spec

-----------------------------------------------------------------------------
(* Why a search finds what the files hold (SearchSurvives), for every set  *)
(* of sources and lines and every bound.  The rows of the sidecar are the  *)
(* projection of L1 (SidecarExact), so the question is which events of L1  *)
(* no later record hides.  A settled source is shown as it is for one of   *)
(* two reasons:                                                            *)
(*   - files only grew (Growing): L1 holds the first lines of every file,  *)
(*     in their order, and the part of a batch that a kill left is         *)
(*     completed by the next one; or                                       *)
(*   - every batch was appended whole by a writer that kept its memory     *)
(*     (Remembering): L1 holds the last snapshot of every source that is   *)
(*     not retracted, and all that is older is retired.                    *)
(* Which of the two a behaviour goes on satisfying is open until the other *)
(* one ends, so the inductive invariant, SearchInv, carries both.          *)

-----------------------------------------------------------------------------
(* What a log shows.                                                       *)

\* The events whose rows stay active: no later record hides them.
Showing(recs) ==
  {i \in OfKind(recs, "event") : ~Hidden(recs, Row(recs[i], TRUE), i + 1)}

\* No event is there twice.
Distinct(recs) == \A i, j \in OfKind(recs, "event") : IdOf(recs[i]) = IdOf(recs[j]) => i = j

\* An active row is an event that nothing hides.
LEMMA ActiveRows ==
  ASSUME NEW recs \in Seq(Records), Distinct(recs)
  PROVE  {row.line : row \in {x \in Projection(recs) : x.active}} =
         {recs[i].line : i \in Showing(recs)}
<1> DEFINE rows == Projection(recs)
<1>1. rows = {NewRow(recs, i) : i \in Inserted({}, recs)}
  <2>1. <<>> \in Seq(Records) /\ {} = Projection(<<>>) /\ {} \subseteq RowSet
    BY ProjectionStep
  <2>2. ProjectAll({}, recs) = Projection(<<>> \o recs)
    BY <2>1, ProjectionJoined
  <2>3. <<>> \o recs = recs
    OBVIOUS
  <2>4. ProjectAll({}, recs) = {OldRow(recs, row) : row \in {}}
                               \cup {NewRow(recs, i) : i \in Inserted({}, recs)}
    BY ProjectAllParts
  <2> QED
    BY <2>2, <2>3, <2>4
<1>2. Inserted({}, recs) = OfKind(recs, "event")
  <2>1. \A i, k \in OfKind(recs, "event") : IdOf(recs[k]) = IdOf(recs[i]) => i <= k
    BY DEF Distinct, OfKind
  <2>2. RowIds({}) = {}
    BY DEF RowIds
  <2> QED
    BY <2>1, <2>2 DEF Inserted
<1>3. \A i : /\ NewRow(recs, i).line = recs[i].line
             /\ NewRow(recs, i).active = ~Hidden(recs, Row(recs[i], TRUE), i + 1)
  BY DEF NewRow, Row
<1> HIDE DEF rows
<1>4. {row.line : row \in {x \in rows : x.active}} =
      {NewRow(recs, i).line : i \in {j \in OfKind(recs, "event") : NewRow(recs, j).active}}
  BY <1>1, <1>2
<1>5. {j \in OfKind(recs, "event") : NewRow(recs, j).active} = Showing(recs)
  BY <1>3 DEF Showing
<1> QED
  BY <1>3, <1>4, <1>5 DEF rows

-----------------------------------------------------------------------------
(* What a log says of one source.                                          *)

\* The events and the controls of generation g of s.
EventsOf(recs, s, g) ==
  {i \in OfKind(recs, "event") : recs[i].src = s /\ recs[i].gen = g}
ControlsOf(recs, s, g) ==
  {i \in OfKind(recs, "visibility") : recs[i].src = s /\ recs[i].gen = g}

\* The events of generation g of s are those of the first n of the lines ls, in
\* their order.
InOrder(recs, s, g, ls, n) ==
  \A i, k \in EventsOf(recs, s, g) : \A a, b \in 1..n :
    recs[i].line = ls[a] /\ recs[k].line = ls[b] /\ i < k => a < b
Recorded(recs, s, g, ls, n) ==
  /\ \A i \in EventsOf(recs, s, g) : \E j \in 1..n : recs[i].line = ls[j]
  /\ \A j \in 1..n : \E i \in EventsOf(recs, s, g) : recs[i].line = ls[j]
  /\ InOrder(recs, s, g, ls, n)

\* A control behind the event at i hides it.
Retired(recs, i) == \E k \in ControlsOf(recs, recs[i].src, recs[i].gen) : i < k

\* The events of generations before g, or all events of s, are retired.
OldRetired(recs, s, g) ==
  \A i \in OfKind(recs, "event") : recs[i].src = s /\ recs[i].gen < g => Retired(recs, i)
AllRetired(recs, s) ==
  \A i \in OfKind(recs, "event") : recs[i].src = s => Retired(recs, i)

\* There is no generation after g, or nothing of s at all.
NoneBeyond(recs, s, g) == \A i \in DOMAIN recs : recs[i].src = s => recs[i].gen <= g
NoneOf(recs, s) == \A i \in DOMAIN recs : recs[i].src # s

\* The first n of the lines ls without those a later one revises.
LatestOf(ls, n) ==
  {ls[i] : i \in {j \in 1..n : \A k \in (j + 1)..n : Identity[ls[k]] # Identity[ls[j]]}}

\* The lines of s that a search finds.
Shown(recs, s) == {recs[i].line : i \in {j \in Showing(recs) : recs[j].src = s}}

\* A retired event is hidden.
LEMMA RetiredHidden ==
  ASSUME NEW recs \in Seq(Records), NEW i \in OfKind(recs, "event"), Retired(recs, i)
  PROVE  i \notin Showing(recs)
<1>1. PICK k \in ControlsOf(recs, recs[i].src, recs[i].gen) : i < k
  BY DEF Retired
<1>2. /\ k \in 1..Len(recs) /\ recs[k].kind = "visibility" /\ i \in 1..Len(recs)
      /\ recs[k].src = recs[i].src /\ recs[k].gen = recs[i].gen
  BY DEF ControlsOf, OfKind
<1>3. k \in (i + 1)..Len(recs)
  BY <1>1, <1>2
<1>4. Hides(recs[k], Row(recs[i], TRUE))
  BY <1>2 DEF Hides, Row
<1> QED
  BY <1>3, <1>4 DEF Showing, Hidden

\* When all was retracted nothing is found.
LEMMA ShowsNothing ==
  ASSUME NEW recs \in Seq(Records), NEW s, AllRetired(recs, s)
  PROVE  Shown(recs, s) = {}
<1>1. \A i \in Showing(recs) : recs[i].src # s
  <2>1. \A i \in Showing(recs) : i \in OfKind(recs, "event")
    BY DEF Showing
  <2> QED
    BY <2>1, RetiredHidden DEF AllRetired
<1> QED
  BY <1>1 DEF Shown

\* Of a generation that is recorded and not retracted, the last revision of
\* each entity is found, and nothing of the others.
LEMMA ShowsLatest ==
  ASSUME NEW recs \in Seq(Records), NEW s, NEW g,
         NEW ls, NEW n \in Nat, \A i, j \in 1..n : ls[i] = ls[j] => i = j,
         Recorded(recs, s, g, ls, n), ControlsOf(recs, s, g) = {},
         \A i \in OfKind(recs, "event") :
           recs[i].src = s /\ recs[i].gen # g => Retired(recs, i)
  PROVE  Shown(recs, s) = LatestOf(ls, n)
<1> DEFINE E == EventsOf(recs, s, g)
<1>1. \A i \in E : i \in OfKind(recs, "event") /\ i \in 1..Len(recs) /\ recs[i].src = s
                   /\ recs[i].gen = g /\ recs[i].kind = "event"
  BY DEF EventsOf, OfKind
<1>2. ASSUME NEW i \in Showing(recs), recs[i].src = s
      PROVE  recs[i].line \in LatestOf(ls, n)
  <2>1. i \in E
    <3>1. i \in OfKind(recs, "event")
      BY DEF Showing
    <3>2. ~Retired(recs, i)
      BY <3>1, RetiredHidden
    <3> QED
      BY <1>2, <3>1, <3>2 DEF EventsOf
  <2>2. PICK j \in 1..n : recs[i].line = ls[j]
    BY <2>1 DEF Recorded
  <2>3. ASSUME NEW k \in (j + 1)..n, Identity[ls[k]] = Identity[ls[j]]
        PROVE  FALSE
    <3>1. k \in 1..n /\ j < k /\ ~(k < j) /\ k # j
      BY <2>2, <2>3
    <3>2. PICK m \in E : recs[m].line = ls[k]
      BY <3>1 DEF Recorded
    <3>3. m # i
      BY <2>2, <3>1, <3>2
    <3>4. ~(m < i)
      BY <2>1, <2>2, <3>1, <3>2 DEF Recorded, InOrder
    <3>5. m \in (i + 1)..Len(recs)
      BY <1>1, <2>1, <3>2, <3>3, <3>4
    <3>6. Hides(recs[m], Row(recs[i], TRUE))
      BY <1>1, <2>1, <2>2, <2>3, <3>2 DEF Hides, Row
    <3> QED
      BY <3>5, <3>6 DEF Showing, Hidden
  <2> QED
    BY <2>2, <2>3 DEF LatestOf
<1>3. ASSUME NEW j \in 1..n, \A k \in (j + 1)..n : Identity[ls[k]] # Identity[ls[j]]
      PROVE  ls[j] \in Shown(recs, s)
  <2>1. PICK i \in E : recs[i].line = ls[j]
    BY DEF Recorded
  <2>2. ASSUME NEW k \in (i + 1)..Len(recs), Hides(recs[k], Row(recs[i], TRUE))
        PROVE  FALSE
    <3>1. k \in DOMAIN recs /\ i < k /\ recs[k].src = s /\ recs[k].gen = g
          /\ recs[k].kind \in {"event", "visibility"}
          /\ (recs[k].kind = "event" => Identity[recs[k].line] = Identity[recs[i].line])
      BY <1>1, <2>1, <2>2 DEF Hides, Row
    <3>2. recs[k].kind # "visibility"
      BY <3>1 DEF ControlsOf, OfKind
    <3>3. k \in E
      BY <3>1, <3>2 DEF EventsOf, OfKind
    <3>4. PICK m \in 1..n : recs[k].line = ls[m]
      BY <3>3 DEF Recorded
    <3>5. j < m
      BY <2>1, <3>1, <3>3, <3>4 DEF Recorded, InOrder
    <3>6. m \in (j + 1)..n
      BY <3>5
    <3>7. Identity[ls[m]] = Identity[ls[j]]
      BY <2>1, <3>1, <3>2, <3>4
    <3> QED
      BY <1>3, <3>6, <3>7
  <2>3. i \in Showing(recs)
    BY <1>1, <2>1, <2>2 DEF Showing, Hidden
  <2> QED
    BY <1>1, <2>1, <2>3 DEF Shown
<1>4. Shown(recs, s) \subseteq LatestOf(ls, n)
  BY <1>2 DEF Shown
<1>5. LatestOf(ls, n) \subseteq Shown(recs, s)
  BY <1>3 DEF LatestOf
<1> QED
  BY <1>4, <1>5

-----------------------------------------------------------------------------
(* What a longer log says.                                                 *)

\* Where the events of one source are.
Splits(t, u, w, s, g) ==
  /\ \A i \in EventsOf(t, s, g) : i \in EventsOf(w, s, g) /\ w[i] = t[i] /\ i \in 1..Len(t)
  /\ \A i \in EventsOf(u, s, g) : /\ Behind(t, i) \in EventsOf(w, s, g)
                                  /\ w[Behind(t, i)] = u[i]
  /\ \A i \in EventsOf(w, s, g) :
       i \in EventsOf(t, s, g) \/ \E m \in EventsOf(u, s, g) : i = Behind(t, m)

\* The events of a longer log are those of its two parts.
LEMMA EventsJoined ==
  ASSUME NEW t \in Seq(Records), NEW u \in Seq(Records), NEW s, NEW g
  PROVE  Splits(t, u, t \o u, s, g)
<1> DEFINE w == t \o u
<1>1. Joins(t, u, "event")
  BY KindsJoined
<1>2. /\ \A i \in OfKind(t, "event") : i \in OfKind(w, "event") /\ w[i] = t[i]
      /\ \A i \in OfKind(u, "event") : /\ Behind(t, i) \in OfKind(w, "event")
                                       /\ w[Behind(t, i)] = u[i]
      /\ \A i \in OfKind(w, "event") :
           \/ i \in OfKind(t, "event") /\ w[i] = t[i]
           \/ \E m \in OfKind(u, "event") : i = Behind(t, m) /\ w[i] = u[m]
  BY <1>1 DEF Joins
<1> HIDE DEF w
<1>3. \A i \in OfKind(t, "event") : i \in 1..Len(t)
  BY DEF OfKind
<1>4. Splits(t, u, w, s, g)
  BY <1>2, <1>3 DEF Splits, EventsOf
<1> QED
  BY <1>4 DEF w

\* So are its controls.
LEMMA ControlsJoined ==
  ASSUME NEW t \in Seq(Records), NEW u \in Seq(Records), NEW s, NEW g
  PROVE  /\ \A i \in ControlsOf(t, s, g) : i \in ControlsOf(t \o u, s, g)
         /\ \A i \in ControlsOf(u, s, g) : Behind(t, i) \in ControlsOf(t \o u, s, g)
         /\ \A i \in ControlsOf(t \o u, s, g) :
              \/ i \in ControlsOf(t, s, g)
              \/ \E m \in ControlsOf(u, s, g) : i = Behind(t, m)
<1>1. Joins(t, u, "visibility")
  BY KindsJoined
<1> QED
  BY <1>1 DEF Joins, ControlsOf, OfKind

\* What is retired stays so.
LEMMA StaysRetired ==
  ASSUME NEW t \in Seq(Records), NEW u \in Seq(Records), NEW i \in OfKind(t, "event"),
         Retired(t, i)
  PROVE  Retired(t \o u, i)
<1>1. (t \o u)[i] = t[i]
  <2>1. Joins(t, u, "event")
    BY KindsJoined
  <2> QED
    BY <2>1 DEF Joins
<1> QED
  BY <1>1, ControlsJoined DEF Retired

\* Records of one source say nothing of another.
Foreign(u, x) == \A i \in DOMAIN u : u[i].src # x

\* They keep what the log says of it.
LEMMA ForeignKeeps ==
  ASSUME NEW t \in Seq(Records), NEW u \in Seq(Records), NEW x, Foreign(u, x)
  PROVE  /\ \A g, ls, n : Recorded(t, x, g, ls, n) => Recorded(t \o u, x, g, ls, n)
         /\ \A g : ControlsOf(t, x, g) = {} => ControlsOf(t \o u, x, g) = {}
         /\ \A g : OldRetired(t, x, g) => OldRetired(t \o u, x, g)
         /\ AllRetired(t, x) => AllRetired(t \o u, x)
         /\ \A g : NoneBeyond(t, x, g) => NoneBeyond(t \o u, x, g)
         /\ NoneOf(t, x) => NoneOf(t \o u, x)
         /\ x \in DOMAIN CheckpointsIn(t \o u) <=> x \in DOMAIN CheckpointsIn(t)
         /\ x \in DOMAIN CheckpointsIn(t) => CheckpointsIn(t \o u)[x] = CheckpointsIn(t)[x]
<1>1. \A g : EventsOf(u, x, g) = {} /\ ControlsOf(u, x, g) = {}
  BY DEF Foreign, EventsOf, ControlsOf, OfKind
<1>2. ASSUME NEW g
      PROVE  EventsOf(t \o u, x, g) = EventsOf(t, x, g)
  <2> DEFINE T == EventsOf(t, x, g)
  <2> DEFINE w == t \o u
  <2>4. Splits(t, u, w, x, g)
    BY EventsJoined
  <2> HIDE DEF w
  <2>1. /\ \A i \in T : i \in EventsOf(w, x, g)
        /\ \A i \in EventsOf(w, x, g) :
             i \in T \/ \E m \in EventsOf(u, x, g) : i = Behind(t, m)
    BY <2>4 DEF Splits
  <2>2. EventsOf(u, x, g) = {}
    BY <1>1
  <2> HIDE DEF T
  <2>3. EventsOf(w, x, g) = T
    BY <2>1, <2>2
  <2> QED
    BY <2>3 DEF T, w
<1>3. \A g : \A i \in EventsOf(t, x, g) : (t \o u)[i] = t[i]
  BY EventsJoined DEF Splits
<1>4. ASSUME NEW g, NEW ls, NEW n, Recorded(t, x, g, ls, n)
      PROVE  Recorded(t \o u, x, g, ls, n)
  <2> DEFINE w == t \o u
             T == EventsOf(t, x, g)
  <2>1. EventsOf(w, x, g) = T /\ \A i \in T : w[i] = t[i]
    BY <1>2, <1>3
  <2> HIDE DEF w
  <2>2. /\ \A i \in T : \E j \in 1..n : w[i].line = ls[j]
        /\ \A j \in 1..n : \E i \in T : w[i].line = ls[j]
    BY <1>4, <2>1 DEF Recorded
  <2>3. \A i, k \in T : \A a, b \in 1..n :
          w[i].line = ls[a] /\ w[k].line = ls[b] /\ i < k => a < b
    BY <1>4, <2>1 DEF Recorded, InOrder
  <2>4. Recorded(w, x, g, ls, n)
    BY <2>1, <2>2, <2>3 DEF Recorded, InOrder
  <2> QED
    BY <2>4 DEF w
<1>5. ASSUME NEW g, ControlsOf(t, x, g) = {}
      PROVE  ControlsOf(t \o u, x, g) = {}
  BY <1>1, <1>5, ControlsJoined
<1>6. ASSUME NEW i \in OfKind(t \o u, "event"), (t \o u)[i].src = x
      PROVE  i \in OfKind(t, "event") /\ (t \o u)[i] = t[i]
  <2>1. Joins(t, u, "event")
    BY KindsJoined
  <2> QED
    BY <1>6, <2>1 DEF Joins, Foreign, OfKind
<1>7. \A g : OldRetired(t, x, g) => OldRetired(t \o u, x, g)
  BY <1>6, StaysRetired DEF OldRetired
<1>8. AllRetired(t, x) => AllRetired(t \o u, x)
  BY <1>6, StaysRetired DEF AllRetired
<1>9. ASSUME NEW i \in DOMAIN (t \o u), (t \o u)[i].src = x
      PROVE  i \in DOMAIN t /\ (t \o u)[i] = t[i]
  <2>1. DOMAIN t = 1..Len(t) /\ DOMAIN u = 1..Len(u) /\ DOMAIN (t \o u) = 1..Len(t \o u)
    BY Joined
  <2> QED
    BY <1>9, <2>1, Joined DEF Foreign
<1>10. \A g : NoneBeyond(t, x, g) => NoneBeyond(t \o u, x, g)
  BY <1>9 DEF NoneBeyond
<1>11. NoneOf(t, x) => NoneOf(t \o u, x)
  BY <1>9 DEF NoneOf
<1>12. x \notin DOMAIN CheckpointsIn(u)
  BY DEF CheckpointsIn, Foreign, OfKind
<1>13. /\ x \in DOMAIN CheckpointsIn(t \o u) <=> x \in DOMAIN CheckpointsIn(t)
       /\ x \in DOMAIN CheckpointsIn(t) => CheckpointsIn(t \o u)[x] = CheckpointsIn(t)[x]
  <2> DEFINE K == CheckpointsIn(t)
             N == CheckpointsIn(u)
             J == CheckpointsIn(t \o u)
  <2>1. J = [y \in DOMAIN K \cup DOMAIN N |-> IF y \in DOMAIN N THEN N[y] ELSE K[y]]
    BY CheckpointsJoined
  <2> HIDE DEF K, N, J
  <2>2. x \notin DOMAIN N
    BY <1>12 DEF N
  <2>3. (x \in DOMAIN J <=> x \in DOMAIN K) /\ (x \in DOMAIN K => J[x] = K[x])
    BY <2>1, <2>2
  <2> QED
    BY <2>3 DEF K, J
<1> QED
  BY <1>4, <1>5, <1>7, <1>8, <1>10, <1>11, <1>13

\* Part of a batch for s: the control of generation old first if c is 1, then
\* evidence and event of each of the first q of the new lines.
IsPiece(u, s, old, g, new, c, q) ==
  /\ \A i \in DOMAIN u : u[i].src = s /\ u[i].gen <= g
  /\ \A i \in OfKind(u, "event") :
       u[i].gen = g /\ \E r \in 1..q : i = c + 2 * r /\ u[i].line = new[r]
  /\ \A r \in 1..q : c + 2 * r \in OfKind(u, "event") /\ u[c + 2 * r].line = new[r]
  /\ \A i \in OfKind(u, "visibility") : u[i].gen = old /\ c = 1
  /\ c = 1 => 1 \in OfKind(u, "visibility")

\* It extends what is recorded.
LEMMA RecordedMore ==
  ASSUME NEW t \in Seq(Records), NEW u \in Seq(Records), NEW s, NEW old, NEW g \in Gens,
         NEW new, NEW c \in 0..1, NEW q \in Nat, IsPiece(u, s, old, g, new, c, q),
         NEW ls, NEW n \in Nat, Recorded(t, s, g, ls, n),
         \A i, j \in 1..(n + q) : ls[i] = ls[j] => i = j,
         \A r \in 1..q : new[r] = ls[n + r]
  PROVE  Recorded(t \o u, s, g, ls, n + q)
<1> DEFINE w == t \o u
           W == EventsOf(w, s, g)
           T == EventsOf(t, s, g)
           at(r) == Behind(t, c + 2 * r)
<1>1. Len(t) \in Nat
  OBVIOUS
<1>10. Splits(t, u, w, s, g)
  BY EventsJoined
<1> HIDE DEF w
<1>2. ASSUME NEW i \in T
      PROVE  i \in W /\ w[i] = t[i] /\ i \in 1..Len(t)
             /\ \E a \in 1..n : a \in 1..(n + q) /\ w[i].line = ls[a]
  <2>1. i \in W /\ w[i] = t[i] /\ i \in 1..Len(t)
    BY <1>10 DEF Splits
  <2>2. PICK a \in 1..n : t[i].line = ls[a]
    BY DEF Recorded
  <2> QED
    BY <2>1, <2>2
<1>3. ASSUME NEW r \in 1..q
      PROVE  at(r) \in W /\ w[at(r)].line = ls[n + r] /\ n + r \in 1..(n + q)
  <2>1. c + 2 * r \in OfKind(u, "event") /\ u[c + 2 * r].line = new[r]
    BY DEF IsPiece
  <2>2. c + 2 * r \in EventsOf(u, s, g)
    BY <2>1 DEF IsPiece, EventsOf, OfKind
  <2>3. at(r) \in W /\ w[at(r)] = u[c + 2 * r]
    <3> DEFINE m == c + 2 * r
    <3>1. m \in EventsOf(u, s, g)
      BY <2>2
    <3> HIDE DEF m
    <3>4. \A j \in EventsOf(u, s, g) : Behind(t, j) \in W /\ w[Behind(t, j)] = u[j]
      BY <1>10 DEF Splits
    <3>3. Behind(t, m) \in W /\ w[Behind(t, m)] = u[m]
      BY <3>1, <3>4
    <3> QED
      BY <3>3 DEF m
  <2> QED
    BY <2>1, <2>3
<1>4. ASSUME NEW i \in W
      PROVE  i \in T \/ \E r \in 1..q : i = at(r)
  <2>1. CASE i \in T
    BY <2>1
  <2>2. CASE \E m \in EventsOf(u, s, g) : i = Behind(t, m)
    <3>1. PICK m \in EventsOf(u, s, g) : i = Behind(t, m)
      BY <2>2
    <3>2. m \in OfKind(u, "event")
      BY DEF EventsOf
    <3>3. PICK r \in 1..q : m = c + 2 * r
      BY <3>2 DEF IsPiece
    <3> QED
      BY <3>1, <3>3
  <2> QED
    BY <1>10, <2>1, <2>2 DEF Splits
<1> HIDE DEF W, T
<1>5. ASSUME NEW r \in 1..q, NEW i \in 1..Len(t)
      PROVE  i < at(r)
  BY <1>1 DEF Behind
<1>6. ASSUME NEW r \in 1..q, NEW k \in 1..q, at(r) < at(k)
      PROVE  n + r < n + k
  BY <1>1, <1>6 DEF Behind
<1> HIDE DEF at
<1>7. \A i \in W : \E j \in 1..(n + q) : w[i].line = ls[j]
  BY <1>2, <1>3, <1>4
<1>8. ASSUME NEW j \in 1..(n + q)
      PROVE  \E i \in W : w[i].line = ls[j]
  <2>1. CASE j \in 1..n
    <3>1. PICK i \in T : t[i].line = ls[j]
      BY <2>1 DEF Recorded, T
    <3> QED
      BY <1>2, <3>1
  <2>2. CASE j \notin 1..n
    <3>1. j - n \in 1..q /\ n + (j - n) = j
      BY <2>2
    <3> QED
      BY <1>3, <3>1
  <2> QED
    BY <2>1, <2>2
<1>9. ASSUME NEW i \in W, NEW k \in W, NEW a \in 1..(n + q), NEW b \in 1..(n + q),
             w[i].line = ls[a], w[k].line = ls[b], i < k
      PROVE  a < b
  <2>1. CASE i \in T /\ k \in T
    <3>1. a \in 1..n /\ b \in 1..n
      BY <1>2, <1>9, <2>1
    <3>2. t[i].line = ls[a] /\ t[k].line = ls[b]
      BY <1>2, <1>9, <2>1
    <3> QED
      BY <1>9, <2>1, <3>1, <3>2 DEF Recorded, InOrder, T
  <2>2. CASE i \in T /\ k \notin T
    <3>1. a \in 1..n
      BY <1>2, <1>9, <2>2
    <3>2. PICK r \in 1..q : k = at(r)
      BY <1>4, <2>2
    <3>3. b = n + r
      <4>1. w[k].line = ls[n + r] /\ n + r \in 1..(n + q)
        BY <1>3, <3>2
      <4>2. ls[b] = ls[n + r]
        BY <1>9, <4>1
      <4> QED
        BY <4>1, <4>2
    <3> QED
      BY <3>1, <3>3
  <2>3. CASE i \notin T /\ k \in T
    <3>1. PICK r \in 1..q : i = at(r)
      BY <1>4, <2>3
    <3>2. k \in 1..Len(t)
      BY <1>2, <2>3
    <3>3. k < at(r) /\ at(r) \in Nat /\ k \in Nat
      BY <1>1, <1>5, <3>2 DEF at, Behind
    <3> QED
      BY <1>9, <3>1, <3>3
  <2>4. CASE i \notin T /\ k \notin T
    <3>1. PICK r \in 1..q, m \in 1..q : i = at(r) /\ k = at(m)
      BY <1>4, <2>4
    <3>2. a = n + r /\ b = n + m
      BY <1>3, <1>9, <3>1
    <3> QED
      BY <1>6, <1>9, <3>1, <3>2
  <2> QED
    BY <2>1, <2>2, <2>3, <2>4
<1> QED
  BY <1>7, <1>8, <1>9 DEF Recorded, InOrder, W, w

\* Its control retires the generation before its own, and nothing else.
LEMMA PieceControls ==
  ASSUME NEW t \in Seq(Records), NEW u \in Seq(Records), NEW s, NEW old \in Gens,
         NEW g \in Gens, NEW new, NEW c \in 0..1, NEW q \in Nat,
         IsPiece(u, s, old, g, new, c, q), old <= g
  PROVE  /\ ControlsOf(t, s, g) = {} /\ (c = 1 => old # g) => ControlsOf(t \o u, s, g) = {}
         /\ OldRetired(t, s, old) => OldRetired(t \o u, s, old)
         /\ OldRetired(t, s, old) /\ c = 1 /\ g = old + 1 => OldRetired(t \o u, s, g)
         /\ NoneBeyond(t, s, g) => NoneBeyond(t \o u, s, g)
<1>1. ASSUME ControlsOf(t, s, g) = {}, c = 1 => old # g
      PROVE  ControlsOf(t \o u, s, g) = {}
  <2>1. ControlsOf(u, s, g) = {}
    BY <1>1 DEF IsPiece, ControlsOf
  <2> QED
    BY <1>1, <2>1, ControlsJoined
<1>2. ASSUME NEW i \in OfKind(t \o u, "event")
      PROVE  \/ i \in OfKind(t, "event") /\ (t \o u)[i] = t[i]
             \/ (t \o u)[i].gen = g
  <2>1. \/ i \in OfKind(t, "event") /\ (t \o u)[i] = t[i]
        \/ \E m \in OfKind(u, "event") : (t \o u)[i] = u[m]
    <3>1. Joins(t, u, "event")
      BY KindsJoined
    <3> QED
      BY <3>1 DEF Joins
  <2>2. \A m \in OfKind(u, "event") : u[m].gen = g
    BY DEF IsPiece
  <2> QED
    BY <2>1, <2>2
<1>3. ASSUME OldRetired(t, s, old)
      PROVE  OldRetired(t \o u, s, old)
  <2>1. ASSUME NEW i \in OfKind(t \o u, "event"), (t \o u)[i].src = s, (t \o u)[i].gen < old
        PROVE  Retired(t \o u, i)
    <3>1. (t \o u)[i].gen # g
      <4>1. g \in Int /\ old \in Int
        BY DEF Gens
      <4>2. ASSUME (t \o u)[i].gen = g
            PROVE  FALSE
        <5>1. g < old
          BY <2>1, <4>2
        <5> QED
          BY <4>1, <5>1
      <4> QED
        BY <4>2
    <3>2. i \in OfKind(t, "event") /\ (t \o u)[i] = t[i]
      BY <1>2, <3>1
    <3> QED
      BY <1>3, <2>1, <3>2, StaysRetired DEF OldRetired
  <2> QED
    BY <2>1 DEF OldRetired
<1>4. ASSUME OldRetired(t, s, old), c = 1, g = old + 1
      PROVE  OldRetired(t \o u, s, g)
  <2>1. ASSUME NEW i \in OfKind(t \o u, "event"), (t \o u)[i].src = s, (t \o u)[i].gen < g
        PROVE  Retired(t \o u, i)
    <3>1. (t \o u)[i].gen # g
      <4>1. g \in Int /\ old \in Int
        BY DEF Gens
      <4>2. ASSUME (t \o u)[i].gen = g
            PROVE  FALSE
        <5>1. g < g
          BY <2>1, <4>2
        <5> QED
          BY <4>1, <5>1
      <4> QED
        BY <4>2
    <3>2. i \in OfKind(t, "event") /\ (t \o u)[i] = t[i] /\ i \in 1..Len(t)
      BY <1>2, <3>1 DEF OfKind
    <3>3. t[i] \in Records
      BY <3>2
    <3>4. t[i].gen \in Nat
      BY <3>3, RecordFields DEF Gens
    <3>5. CASE t[i].gen < old
      BY <1>4, <2>1, <3>2, <3>5, StaysRetired DEF OldRetired
    <3>6. CASE ~(t[i].gen < old)
      <4>1. t[i].gen = old
        BY <1>4, <2>1, <3>2, <3>4, <3>6 DEF Gens
      <4>2. 1 \in ControlsOf(u, s, old)
        BY <1>4 DEF IsPiece, ControlsOf, OfKind
      <4>3. Behind(t, 1) \in ControlsOf(t \o u, s, old)
        BY <4>2, ControlsJoined
      <4>4. i < Behind(t, 1)
        BY <3>2 DEF Behind
      <4> QED
        BY <2>1, <3>2, <4>1, <4>3, <4>4 DEF Retired
    <3> QED
      BY <3>5, <3>6
  <2> QED
    BY <2>1 DEF OldRetired
<1>5. ASSUME NoneBeyond(t, s, g)
      PROVE  NoneBeyond(t \o u, s, g)
  <2>1. DOMAIN t = 1..Len(t) /\ DOMAIN u = 1..Len(u) /\ DOMAIN (t \o u) = 1..Len(t \o u)
    BY Joined
  <2> QED
    BY <1>5, <2>1, Joined DEF NoneBeyond, IsPiece
<1> QED
  BY <1>1, <1>3, <1>4, <1>5

-----------------------------------------------------------------------------
(* Batches and their parts.                                                *)

\* The new lines are completed lines of the file.
LEMMA NewLinesAre ==
  ASSUME TypeOK, NEW s \in Sources, files[s] # Gone, NEW force \in BOOLEAN
  PROVE  /\ Fresh(s, force) \subseteq 1..Completed(files[s])
         /\ Completed(files[s]) \in Nat
         /\ Len(NewLines(s, force)) = Cardinality(Fresh(s, force))
         /\ Cardinality(Fresh(s, force)) \in Nat
         /\ \A n \in 1..Cardinality(Fresh(s, force)) :
              /\ Nth(Fresh(s, force), n) \in Fresh(s, force)
              /\ NewLines(s, force)[n] = files[s].lines[Nth(Fresh(s, force), n)]
              /\ Cardinality({j \in Fresh(s, force) : j <= Nth(Fresh(s, force), n)}) = n
<1> DEFINE new == NewLines(s, force)
           fresh == Fresh(s, force)
           full == Completed(files[s])
<1>1. files[s] \in ContentOf(s)
  BY DEF TypeOK
<1>2. full \in Nat
  BY <1>1, ContentFacts
<1>3. fresh \subseteq 1..full
  <2>1. ASSUME Grew(s, force)
        PROVE  Completed(sources[s].snap) \in Nat
    <3>1. Known(s)
      BY <2>1 DEF Grew
    <3>2. sources[s].snap \in Snapshots
      BY <3>1, GenerationType
    <3> QED
      BY <3>2, SnapshotFacts
  <2> QED
    BY <1>2, <2>1 DEF Fresh
<1>4. IsFiniteSet(fresh) /\ Cardinality(fresh) \in Nat
  <2> HIDE DEF fresh, full
  <2>1. IsFiniteSet(1..full)
    BY <1>2, FS_Interval
  <2> QED
    BY <1>3, <2>1, FS_Subset, FS_CardinalityType
<1>5. ASSUME NEW n \in 1..Cardinality(fresh)
      PROVE  /\ Nth(fresh, n) \in fresh
             /\ Cardinality({j \in fresh : j <= Nth(fresh, n)}) = n
  <2> HIDE DEF fresh, full
  <2> QED
    BY <1>2, <1>3, NthElement
<1>6. new = [n \in 1..Cardinality(fresh) |-> files[s].lines[Nth(fresh, n)]]
  BY DEF NewLines
<1> HIDE DEF new, fresh, full
<1>7. Len(new) = Cardinality(fresh)
  BY <1>4, <1>6
<1>8. \A n \in 1..Cardinality(fresh) : new[n] = files[s].lines[Nth(fresh, n)]
  BY <1>6
<1> QED
  BY <1>2, <1>3, <1>4, <1>5, <1>7, <1>8 DEF new, fresh, full

\* They are lines of this source.
LEMMA NewLinesOwn ==
  ASSUME TypeOK, NEW s \in Sources, files[s] # Gone, NEW force \in BOOLEAN,
         NEW n \in 1..Len(NewLines(s, force))
  PROVE  NewLines(s, force)[n] \in LinesAt[s]
<1>1. files[s] \in ContentOf(s)
  BY DEF TypeOK
<1>2. files[s].lines \in BoundedSeq(LinesAt[s], MaxLines)
  BY <1>1 DEF ContentOf, Contents
<1>3. files[s].lines \in Seq(LinesAt[s])
  BY <1>2, IngestAssumption DEF BoundedSeq, SeqOf
<1>4. Completed(files[s]) \in 0..Len(files[s].lines)
  BY <1>1, ContentFacts
<1>5. PICK i \in 1..Completed(files[s]) : NewLines(s, force)[n] = files[s].lines[i]
  <2>1. n \in 1..Cardinality(Fresh(s, force))
    BY NewLinesAre
  <2>2. /\ Nth(Fresh(s, force), n) \in Fresh(s, force)
        /\ NewLines(s, force)[n] = files[s].lines[Nth(Fresh(s, force), n)]
        /\ Fresh(s, force) \subseteq 1..Completed(files[s])
    BY <2>1, NewLinesAre
  <2> QED
    BY <2>2
<1>6. i \in 1..Len(files[s].lines)
  BY <1>4, <1>5
<1> QED
  BY <1>3, <1>5, <1>6

\* If all lines from some line on are new, they come in the order of the file.
LEMMA NewLinesInterval ==
  ASSUME TypeOK, NEW s \in Sources, files[s] # Gone, NEW force \in BOOLEAN,
         NEW n \in 0..Completed(files[s]),
         Fresh(s, force) = (n + 1)..Completed(files[s])
  PROVE  /\ Len(NewLines(s, force)) = Completed(files[s]) - n
         /\ \A r \in 1..Len(NewLines(s, force)) :
              NewLines(s, force)[r] = files[s].lines[n + r]
<1> DEFINE I == Fresh(s, force)
           m == Completed(files[s])
<1>1. m \in Nat /\ n \in 0..m /\ n \in Nat
  BY NewLinesAre
<1>2. I = (n + 1)..m
  OBVIOUS
<1>3. Len(NewLines(s, force)) = Cardinality(I)
      /\ \A k \in 1..Cardinality(I) :
           /\ Nth(I, k) \in I
           /\ NewLines(s, force)[k] = files[s].lines[Nth(I, k)]
           /\ Cardinality({j \in I : j <= Nth(I, k)}) = k
  BY NewLinesAre
<1> HIDE DEF I, m
<1>4. ASSUME NEW i \in n..m
      PROVE  Cardinality((n + 1)..i) = i - n
  <2>1. n + 1 \in Int /\ i \in Int
    BY <1>1
  <2>2. Cardinality((n + 1)..i) = IF n + 1 > i THEN 0 ELSE i - (n + 1) + 1
    BY <2>1, FS_Interval
  <2> QED
    BY <1>1, <2>2
<1>5. Cardinality(I) = m - n
  BY <1>1, <1>2, <1>4
<1>6. ASSUME NEW k \in 1..Cardinality(I)
      PROVE  Nth(I, k) = n + k
  <2> DEFINE i == Nth(I, k)
  <2>1. i \in (n + 1)..m /\ Cardinality({j \in I : j <= i}) = k
    BY <1>2, <1>3
  <2> HIDE DEF i
  <2>2. {j \in I : j <= i} = (n + 1)..i
    BY <1>1, <1>2, <2>1
  <2>3. k = i - n
    <3>1. i \in n..m
      BY <1>1, <2>1
    <3>2. Cardinality((n + 1)..i) = i - n
      BY <1>4, <3>1
    <3> QED
      BY <2>1, <2>2, <3>2
  <2>4. i = n + k
    BY <1>1, <2>1, <2>3
  <2> QED
    BY <2>4 DEF i
<1> QED
  BY <1>3, <1>5, <1>6 DEF m

\* The generation a source has in L1, or its first.
Before(s) == IF Known(s) THEN sources[s].gen ELSE 1

\* The first m records of a batch: a piece, and its checkpoint if it is whole.
PartOf(u, m, s, force, c, q) ==
  /\ c = IF Known(s) /\ ~Grew(s, force) THEN 1 ELSE 0
  /\ u \in Seq(Records)
  /\ IsPiece(u, s, Before(s), GenerationFor(s, force), NewLines(s, force), c, q)
  /\ m # Len(Batch(s, force)) => DOMAIN CheckpointsIn(u) = {}
  /\ m = Len(Batch(s, force)) =>
       /\ q = Len(NewLines(s, force))
       /\ DOMAIN CheckpointsIn(u) = {s}
       /\ CheckpointsIn(u)[s] = [gen |-> GenerationFor(s, force), snap |-> files[s]]

\* A kill inside a batch leaves such a part of it (UslStore, append_batch).
LEMMA PieceOfBatch ==
  ASSUME TypeOK, NEW s \in Sources, files[s] # Gone, NEW force \in BOOLEAN,
         NEW m \in 1..Len(Batch(s, force)), NEW u, u = SubSeq(Batch(s, force), 1, m)
  PROVE  \E c \in 0..1, q \in 0..Len(NewLines(s, force)) : PartOf(u, m, s, force, c, q)
<1> DEFINE B == Batch(s, force)
           g == GenerationFor(s, force)
           new == NewLines(s, force)
           old == Before(s)
<1>1. PICK c \in 0..1, N \in Nat :
        /\ N = Len(new)
        /\ B \in Seq(Records)
        /\ Len(B) = c + 2 * N + 1
        /\ c = IF Known(s) /\ ~Grew(s, force) THEN 1 ELSE 0
        /\ c = 1 => B[1] = Visibility(s, sources[s].gen)
        /\ \A k \in 1..N :
             /\ B[c + 2 * k] = Event(s, g, new[k], Len(log) + c + 2 * k - 2)
             /\ B[c + 2 * k - 1] = Evidence(s, g, new[k])
        /\ B[c + 2 * N + 1] = Checkpoint(s, g, files[s])
  BY BatchRecords
<1>2. g \in Gens /\ old \in Gens /\ old <= g /\ (c = 1 => old = sources[s].gen)
  BY <1>1, GenerationType DEF GenerationFor, Before, Gens
<1>3. u \in Seq(Records) /\ Len(u) = m /\ \A i \in 1..m : u[i] = B[i]
  BY <1>1
<1> HIDE DEF B, g, new, old
<1>4. m \in 1..(c + 2 * N + 1) /\ m \in Nat
  BY <1>1 DEF B
<1>5. PICK q \in 0..N : \A r \in 1..N : c + 2 * r <= m <=> r <= q
  <2>1. CASE m >= c + 2 * N
    <3>1. N \in 0..N /\ \A r \in 1..N : c + 2 * r <= m /\ r <= N
      BY <1>4, <2>1
    <3> QED
      BY <3>1
  <2>2. CASE ~(m >= c + 2 * N)
    <3>1. (m - c) \div 2 \in 0..N
      BY <1>4, <2>2
    <3>2. \A r \in 1..N : c + 2 * r <= m <=> r <= (m - c) \div 2
      BY <1>4, <2>2
    <3> QED
      BY <3>1, <3>2
  <2> QED
    BY <2>1, <2>2
<1>6. ASSUME NEW i \in 1..m
      PROVE  \/ c = 1 /\ i = 1
             \/ \E k \in 1..N : i = c + 2 * k \/ i = c + 2 * k - 1
             \/ i = c + 2 * N + 1
  <2>1. CASE i <= c
    BY <2>1
  <2>2. CASE i > c /\ i <= c + 2 * N
    <3>1. (i - c + 1) \div 2 \in 1..N
          /\ (i = c + 2 * ((i - c + 1) \div 2) \/ i = c + 2 * ((i - c + 1) \div 2) - 1)
      BY <1>4, <2>2
    <3> QED
      BY <3>1
  <2>3. CASE i > c + 2 * N
    BY <1>4, <2>3
  <2> QED
    BY <1>4, <2>1, <2>2, <2>3
<1>7. ASSUME NEW i \in 1..m
      PROVE  \/ c = 1 /\ i = 1 /\ u[i] = Visibility(s, old)
             \/ \E k \in 1..N : i = c + 2 * k
                                /\ u[i] = Event(s, g, new[k], Len(log) + c + 2 * k - 2)
             \/ \E k \in 1..N : u[i] = Evidence(s, g, new[k])
             \/ i = c + 2 * N + 1 /\ u[i] = Checkpoint(s, g, files[s])
  <2>1. u[i] = B[i]
    BY <1>3
  <2>2. CASE c = 1 /\ i = 1
    BY <1>1, <1>2, <2>1, <2>2
  <2>3. CASE \E k \in 1..N : i = c + 2 * k \/ i = c + 2 * k - 1
    <3>1. PICK k \in 1..N : i = c + 2 * k \/ i = c + 2 * k - 1
      BY <2>3
    <3>2. /\ B[c + 2 * k] = Event(s, g, new[k], Len(log) + c + 2 * k - 2)
          /\ B[c + 2 * k - 1] = Evidence(s, g, new[k])
      BY <1>1 DEF B, g, new
    <3> QED
      BY <2>1, <3>1, <3>2
  <2>4. CASE i = c + 2 * N + 1
    BY <1>1, <2>1, <2>4 DEF B, g
  <2> QED
    BY <1>6, <2>2, <2>3, <2>4
<1>8. DOMAIN u = 1..m
  BY <1>3
<1>9. ASSUME NEW i \in 1..m
      PROVE  /\ u[i].src = s /\ u[i].gen <= g
             /\ u[i].kind = "event" =>
                  u[i].gen = g /\ \E k \in 1..q : i = c + 2 * k /\ u[i].line = new[k]
             /\ u[i].kind = "visibility" => u[i].gen = old /\ c = 1
             /\ u[i].kind = "checkpoint" =>
                  m = Len(B) /\ u[i] = Checkpoint(s, g, files[s])
  <2>1. g <= g
    BY <1>2 DEF Gens
  <2>2. CASE c = 1 /\ i = 1 /\ u[i] = Visibility(s, old)
    BY <1>2, <2>2 DEF Visibility
  <2>3. CASE \E k \in 1..N : i = c + 2 * k
                             /\ u[i] = Event(s, g, new[k], Len(log) + c + 2 * k - 2)
    <3>1. PICK k \in 1..N : i = c + 2 * k
                            /\ u[i] = Event(s, g, new[k], Len(log) + c + 2 * k - 2)
      BY <2>3
    <3>2. c + 2 * k <= m
      BY <1>4, <3>1
    <3>3. k \in 1..q
      BY <1>5, <3>2
    <3> QED
      BY <2>1, <3>1, <3>3 DEF Event
  <2>4. CASE \E k \in 1..N : u[i] = Evidence(s, g, new[k])
    BY <2>1, <2>4 DEF Evidence
  <2>5. CASE i = c + 2 * N + 1 /\ u[i] = Checkpoint(s, g, files[s])
    <3>1. m = Len(B)
      BY <1>1, <1>4, <2>5 DEF B
    <3> QED
      BY <2>1, <2>5, <3>1 DEF Checkpoint
  <2> QED
    BY <1>7, <2>2, <2>3, <2>4, <2>5
<1>10. ASSUME NEW r \in 1..q
       PROVE  c + 2 * r \in OfKind(u, "event") /\ u[c + 2 * r].line = new[r]
  <2>1. r \in 1..N /\ c + 2 * r \in 1..m
    BY <1>4, <1>5
  <2>2. u[c + 2 * r] = Event(s, g, new[r], Len(log) + c + 2 * r - 2)
    BY <1>1, <1>3, <2>1 DEF B, g, new
  <2> QED
    BY <1>8, <2>1, <2>2 DEF OfKind, Event
<1>11. c = 1 => 1 \in OfKind(u, "visibility")
  <2>1. 1 \in 1..m
    BY <1>4
  <2>2. c = 1 => u[1] = Visibility(s, sources[s].gen)
    BY <1>1, <1>3, <2>1 DEF B
  <2> QED
    BY <1>8, <2>1, <2>2 DEF OfKind, Visibility
<1>12. IsPiece(u, s, old, g, new, c, q)
  BY <1>8, <1>9, <1>10, <1>11 DEF IsPiece, OfKind
<1>13. m # Len(B) => DOMAIN CheckpointsIn(u) = {}
  BY <1>8, <1>9 DEF CheckpointsIn, OfKind
<1>14. ASSUME m = Len(B)
       PROVE  /\ q = N /\ DOMAIN CheckpointsIn(u) = {s}
              /\ CheckpointsIn(u)[s] = [gen |-> g, snap |-> files[s]]
  <2>1. m = c + 2 * N + 1
    BY <1>1, <1>14 DEF B
  <2>2. q = N
    <3>1. CASE N = 0
      BY <3>1
    <3>2. CASE N # 0
      <4>1. N \in 1..N /\ c + 2 * N <= m
        BY <2>1, <3>2
      <4>2. N <= q
        BY <1>5, <4>1
      <4> QED
        BY <4>2
    <3> QED
      BY <3>1, <3>2
  <2>3. u[m] = Checkpoint(s, g, files[s]) /\ m \in 1..m
    BY <1>1, <1>3, <1>4, <2>1 DEF B, g
  <2>4. /\ m \in OfKind(u, "checkpoint") /\ u[m].src = s
        /\ u[m].gen = g /\ u[m].snap = files[s]
    BY <1>8, <2>3 DEF OfKind, Checkpoint
  <2>5. \A j \in OfKind(u, "checkpoint") : j <= m /\ u[j].src = s
    BY <1>4, <1>8, <1>9 DEF OfKind
  <2>6. LastCheckpoint(u, s) = u[m]
    BY <1>3, <2>4, <2>5, LastIs
  <2>7. DOMAIN CheckpointsIn(u) = {s}
    BY <2>4, <2>5 DEF CheckpointsIn
  <2> QED
    BY <2>2, <2>4, <2>6, <2>7 DEF CheckpointsIn
<1>15. \E q1 \in 0..N : PartOf(u, m, s, force, c, q1)
  <2>1. q \in 0..N
    OBVIOUS
  <2> QED
    BY <1>1, <1>3, <1>12, <1>13, <1>14, <2>1 DEF PartOf, B, g, new, old
<1> QED
  BY <1>1, <1>15 DEF new

-----------------------------------------------------------------------------
(* Growing files.                                                          *)

\* What a file that grew has in common with what it was (append_only).
LEMMA AppendFacts ==
  ASSUME NEW c \in Snapshots, NEW d \in Snapshots, IsAppend(c, d)
  PROVE  /\ Completed(c) \in Nat /\ Completed(d) \in Nat /\ Completed(c) <= Completed(d)
         /\ \A i \in 1..Completed(c) : c.lines[i] = d.lines[i]
<1>1. /\ c.lines \in Seq(Lines) /\ d.lines \in Seq(Lines)
      /\ Completed(c) \in 0..Len(c.lines) /\ Completed(d) \in 0..Len(d.lines)
  BY SnapshotFacts
<1>2. Len(c.lines) <= Len(d.lines) /\ \A i \in 1..Len(c.lines) : c.lines[i] = d.lines[i]
  <2>1. /\ Len(c.lines) <= Len(d.lines)
        /\ SubSeq(c.lines, 1, Len(c.lines)) = SubSeq(d.lines, 1, Len(c.lines))
    BY DEF IsAppend, IsPrefix
  <2>2. \A i \in 1..Len(c.lines) : /\ SubSeq(c.lines, 1, Len(c.lines))[i] = c.lines[i]
                                   /\ SubSeq(d.lines, 1, Len(c.lines))[i] = d.lines[i]
    BY <1>1, <2>1
  <2> QED
    BY <2>1, <2>2
<1>3. CASE Len(c.lines) = Len(d.lines)
  <2>1. c.lines = d.lines
    BY <1>1, <1>2, <1>3
  <2>2. d.open => c.open
    BY <2>1 DEF IsAppend
  <2> QED
    BY <1>1, <1>2, <1>3, <2>1, <2>2 DEF Completed
<1>4. CASE Len(c.lines) # Len(d.lines)
  BY <1>1, <1>2, <1>4 DEF Completed
<1> QED
  BY <1>3, <1>4

\* Growing is an order.
LEMMA AppendOrder ==
  ASSUME NEW c \in Snapshots, NEW d \in Snapshots, NEW e \in Snapshots, IsAppend(c, d)
  PROVE  /\ IsAppend(c, c)
         /\ IsAppend(d, c) => c = d
         /\ IsAppend(d, e) => IsAppend(c, e)
<1>1. c.lines \in Seq(Lines) /\ d.lines \in Seq(Lines) /\ e.lines \in Seq(Lines)
  BY SnapshotFacts
<1>2. /\ Len(c.lines) <= Len(d.lines)
      /\ SubSeq(c.lines, 1, Len(c.lines)) = SubSeq(d.lines, 1, Len(c.lines))
      /\ c.lines = d.lines /\ d.open => c.open
  BY DEF IsAppend, IsPrefix
<1>3. \A x, y \in Seq(Lines) : IsPrefix(x, y) <=>
        Len(x) <= Len(y) /\ \A i \in 1..Len(x) : x[i] = y[i]
  <2>1. SUFFICES ASSUME NEW x \in Seq(Lines), NEW y \in Seq(Lines), Len(x) <= Len(y)
                 PROVE  SubSeq(x, 1, Len(x)) = SubSeq(y, 1, Len(x))
                        <=> \A i \in 1..Len(x) : x[i] = y[i]
    BY DEF IsPrefix
  <2>2. /\ SubSeq(x, 1, Len(x)) \in Seq(Lines) /\ Len(SubSeq(x, 1, Len(x))) = Len(x)
        /\ SubSeq(y, 1, Len(x)) \in Seq(Lines) /\ Len(SubSeq(y, 1, Len(x))) = Len(x)
        /\ \A i \in 1..Len(x) : /\ SubSeq(x, 1, Len(x))[i] = x[i]
                                /\ SubSeq(y, 1, Len(x))[i] = y[i]
    BY <2>1
  <2> QED
    BY <2>2
<1>4. \A x, y \in Seq(Lines) : IsPrefix(x, y) /\ IsPrefix(y, x) => x = y
  <2> SUFFICES ASSUME NEW x \in Seq(Lines), NEW y \in Seq(Lines),
                      IsPrefix(x, y), IsPrefix(y, x)
               PROVE  x = y
    OBVIOUS
  <2>1. Len(x) = Len(y) /\ \A i \in 1..Len(x) : x[i] = y[i]
    BY <1>3
  <2> QED
    BY <2>1
<1>5. IsAppend(c, c)
  BY <1>1, <1>3 DEF IsAppend
<1>6. ASSUME IsAppend(d, c)
      PROVE  c = d
  <2>1. c.lines = d.lines
    BY <1>1, <1>4, <1>6 DEF IsAppend
  <2>2. c.open \in BOOLEAN /\ d.open \in BOOLEAN /\ (c.open <=> d.open)
    BY <1>6, <2>1 DEF IsAppend, Snapshots
  <2>3. c = [lines |-> c.lines, open |-> c.open] /\ d = [lines |-> d.lines, open |-> d.open]
    BY DEF Snapshots
  <2> QED
    BY <2>1, <2>2, <2>3
<1>7. ASSUME IsAppend(d, e)
      PROVE  IsAppend(c, e)
  <2>1. IsPrefix(c.lines, e.lines)
    BY <1>1, <1>3, <1>7 DEF IsAppend
  <2>2. ASSUME c.lines = e.lines, e.open
        PROVE  c.open
    <3>1. d.lines = c.lines
      BY <1>1, <1>4, <1>7, <2>2 DEF IsAppend
    <3> QED
      BY <1>7, <2>2, <3>1 DEF IsAppend
  <2> QED
    BY <2>1, <2>2 DEF IsAppend
<1> QED
  BY <1>5, <1>6, <1>7

-----------------------------------------------------------------------------
(* What a log must say of a source, given its file.                        *)

\* The last checkpoint of s in the log.
Took(recs, s) == s \in DOMAIN CheckpointsIn(recs)
GenOf(recs, s) == CheckpointsIn(recs)[s].gen
SnapOf(recs, s) == CheckpointsIn(recs)[s].snap

\* A reconciliation of f has nothing to do, unless it is forced.
UpToDate(recs, s, f) ==
  /\ Took(recs, s)
  /\ f # Gone
  /\ \/ SnapOf(recs, s) = f
     \/ /\ s \in AppendCapable
        /\ IsAppend(SnapOf(recs, s), f)
        /\ Completed(f) <= Completed(SnapOf(recs, s))

\* Where files only grow, the generation that the lines of f belong to.
Same(recs, s, f) == Took(recs, s) /\ (s \in AppendCapable \/ SnapOf(recs, s) = f)
Current(recs, s, f) ==
  IF ~Took(recs, s) THEN 1
  ELSE IF Same(recs, s, f) THEN GenOf(recs, s) ELSE GenOf(recs, s) + 1

\* The first lines of f are in the log, also beyond the last checkpoint, and
\* older generations are retired.
Grows(recs, s, f) ==
  /\ Took(recs, s) => IsAppend(SnapOf(recs, s), f) /\ OldRetired(recs, s, GenOf(recs, s))
  /\ \E n \in 0..Completed(f) :
       /\ Recorded(recs, s, Current(recs, s, f), f.lines, n)
       /\ Same(recs, s, f) => Completed(SnapOf(recs, s)) <= n
  /\ ControlsOf(recs, s, Current(recs, s, f)) = {}
  /\ NoneBeyond(recs, s, Current(recs, s, f))

\* What the log must hold of a source whose file is f.
GrowsOK(recs, s, f) == IF f = Gone THEN NoneOf(recs, s) ELSE Grows(recs, s, f)

\* Where every batch is appended whole: the log holds the lines of the last
\* checkpoint, which is not retracted, and older generations are retired.
Stands(recs, s) ==
  /\ Recorded(recs, s, GenOf(recs, s), SnapOf(recs, s).lines, Completed(SnapOf(recs, s)))
  /\ ControlsOf(recs, s, GenOf(recs, s)) = {}
Remembers(recs, s, mark) ==
  IF Took(recs, s)
  THEN /\ NoneBeyond(recs, s, GenOf(recs, s))
       /\ OldRetired(recs, s, GenOf(recs, s))
       /\ mark # "retracted" => Stands(recs, s)
  ELSE NoneOf(recs, s)

\* The fields of a checkpoint.
LEMMA TookTypes ==
  ASSUME NEW recs \in Seq(Records), NEW s, Took(recs, s)
  PROVE  /\ s \in Sources /\ GenOf(recs, s) \in Gens /\ GenOf(recs, s) \in Nat
         /\ SnapOf(recs, s) \in Snapshots
BY CheckpointTypes DEF Took, GenOf, SnapOf, Gens

\* Without a record there is no checkpoint, and nothing is recorded.
LEMMA NoneThere ==
  ASSUME NEW recs \in Seq(Records), NEW s, NoneOf(recs, s)
  PROVE  /\ ~Took(recs, s) /\ AllRetired(recs, s)
         /\ \A g : /\ EventsOf(recs, s, g) = {} /\ ControlsOf(recs, s, g) = {}
                   /\ NoneBeyond(recs, s, g) /\ OldRetired(recs, s, g)
BY DEF NoneOf, Took, CheckpointsIn, AllRetired, EventsOf, ControlsOf, NoneBeyond, OldRetired,
       OfKind

\* A generation without events records none of the lines.
LEMMA NothingRecorded ==
  ASSUME NEW recs, NEW s, NEW g, EventsOf(recs, s, g) = {}, NEW ls
  PROVE  Recorded(recs, s, g, ls, 0)
BY DEF Recorded, InOrder

\* A generation beyond all others is empty.
LEMMA NextIsEmpty ==
  ASSUME NEW recs \in Seq(Records), NEW s, NEW g \in Gens, NoneBeyond(recs, s, g)
  PROVE  /\ EventsOf(recs, s, g + 1) = {} /\ ControlsOf(recs, s, g + 1) = {}
         /\ NoneBeyond(recs, s, g + 1)
<1>1. \A i \in DOMAIN recs : recs[i] \in Records
  OBVIOUS
<1>2. \A i \in DOMAIN recs : recs[i].gen \in Nat
  BY <1>1, RecordFields DEF Gens
<1>3. \A i \in DOMAIN recs : recs[i].src = s => recs[i].gen # g + 1 /\ recs[i].gen <= g + 1
  BY <1>2 DEF NoneBeyond, Gens
<1> QED
  BY <1>3 DEF EventsOf, ControlsOf, NoneBeyond, OfKind

\* What is recorded of c is recorded of what c grew into.
LEMMA RecordedOf ==
  ASSUME NEW recs, NEW s, NEW g, NEW ls, NEW ms, NEW n \in Nat,
         \A i \in 1..n : ls[i] = ms[i], Recorded(recs, s, g, ls, n)
  PROVE  Recorded(recs, s, g, ms, n)
BY DEF Recorded, InOrder

\* A file that grew is as well recorded as before.
LEMMA GrowsOn ==
  ASSUME NEW recs \in Seq(Records), NEW s, NEW f \in Snapshots, NEW h \in Snapshots,
         IsAppend(f, h), f # h, Grows(recs, s, f)
  PROVE  Grows(recs, s, h)
<1>1. /\ Completed(f) \in Nat /\ Completed(h) \in Nat /\ Completed(f) <= Completed(h)
      /\ \A i \in 1..Completed(f) : f.lines[i] = h.lines[i]
  BY AppendFacts
<1>2. PICK n \in 0..Completed(f) :
        /\ Recorded(recs, s, Current(recs, s, f), f.lines, n)
        /\ Same(recs, s, f) => Completed(SnapOf(recs, s)) <= n
  BY DEF Grows
<1>3. n \in Nat /\ n \in 0..Completed(h)
  BY <1>1
<1>4. ASSUME NEW g, Recorded(recs, s, g, f.lines, n)
      PROVE  Recorded(recs, s, g, h.lines, n)
  <2>1. \A i \in 1..n : f.lines[i] = h.lines[i]
    BY <1>1
  <2> QED
    BY <1>3, <1>4, <2>1, RecordedOf
<1>5. CASE ~Took(recs, s)
  BY <1>2, <1>3, <1>4, <1>5 DEF Grows, Current, Same
<1>6. CASE Took(recs, s)
  <2> DEFINE c == SnapOf(recs, s)
             g == GenOf(recs, s)
  <2>1. c \in Snapshots /\ g \in Gens /\ IsAppend(c, f) /\ OldRetired(recs, s, g)
    BY <1>6, TookTypes DEF Grows
  <2>2. IsAppend(c, h)
    BY <2>1, AppendOrder
  <2> HIDE DEF c, g
  <2>3. CASE s \in AppendCapable \/ (c # f /\ c # h)
    <3>1. Current(recs, s, h) = Current(recs, s, f) /\ (Same(recs, s, h) = Same(recs, s, f))
      BY <1>6, <2>3 DEF Current, Same, c
    <3> QED
      BY <1>2, <1>3, <1>4, <2>1, <2>2, <3>1 DEF Grows, c, g
  <2>4. CASE s \notin AppendCapable /\ c = f
    <3>1. Current(recs, s, f) = g /\ Current(recs, s, h) = g + 1 /\ ~Same(recs, s, h)
      BY <1>6, <2>4 DEF Current, Same, c, g
    <3>2. /\ EventsOf(recs, s, g + 1) = {} /\ ControlsOf(recs, s, g + 1) = {}
          /\ NoneBeyond(recs, s, g + 1)
      BY <2>1, <3>1, NextIsEmpty DEF Grows
    <3>3. Recorded(recs, s, g + 1, h.lines, 0) /\ 0 \in 0..Completed(h)
      BY <1>1, <3>2, NothingRecorded
    <3> QED
      BY <2>1, <2>2, <3>1, <3>2, <3>3 DEF Grows, c, g
  <2>5. CASE c = h
    <3>1. IsAppend(h, f)
      BY <2>1, <2>5
    <3> QED
      BY <3>1, AppendOrder
  <2> QED
    BY <2>3, <2>4, <2>5
<1> QED
  BY <1>5, <1>6

\* A file that is new to the log.
LEMMA GrowsFirst ==
  ASSUME NEW recs \in Seq(Records), NEW s, NEW f \in Snapshots, NoneOf(recs, s)
  PROVE  Grows(recs, s, f)
<1>1. ~Took(recs, s) /\ EventsOf(recs, s, 1) = {} /\ ControlsOf(recs, s, 1) = {}
      /\ NoneBeyond(recs, s, 1)
  BY NoneThere
<1>2. Recorded(recs, s, 1, f.lines, 0) /\ 0 \in 0..Completed(f)
  BY <1>1, NothingRecorded, SnapshotFacts
<1> QED
  BY <1>1, <1>2 DEF Grows, Current, Same

\* Records of another source keep all of this.
LEMMA ForeignRest ==
  ASSUME NEW t \in Seq(Records), NEW u \in Seq(Records), NEW x, Foreign(u, x)
  PROVE  /\ \A f : GrowsOK(t, x, f) => GrowsOK(t \o u, x, f)
         /\ \A mark : Remembers(t, x, mark) => Remembers(t \o u, x, mark)
         /\ \A f : UpToDate(t, x, f) => UpToDate(t \o u, x, f)
         /\ Took(t \o u, x) <=> Took(t, x)
         /\ AllRetired(t, x) => AllRetired(t \o u, x)
<1> DEFINE w == t \o u
<1>1. /\ \A g, ls, n : Recorded(t, x, g, ls, n) => Recorded(w, x, g, ls, n)
      /\ \A g : ControlsOf(t, x, g) = {} => ControlsOf(w, x, g) = {}
      /\ \A g : OldRetired(t, x, g) => OldRetired(w, x, g)
      /\ AllRetired(t, x) => AllRetired(w, x)
      /\ \A g : NoneBeyond(t, x, g) => NoneBeyond(w, x, g)
      /\ NoneOf(t, x) => NoneOf(w, x)
  BY ForeignKeeps
<1>2. /\ Took(w, x) <=> Took(t, x)
      /\ Took(t, x) => CheckpointsIn(w)[x] = CheckpointsIn(t)[x]
  BY ForeignKeeps DEF Took
<1> HIDE DEF w
<1>3. Took(t, x) => GenOf(w, x) = GenOf(t, x) /\ SnapOf(w, x) = SnapOf(t, x)
  BY <1>2 DEF GenOf, SnapOf
<1>4. ASSUME NEW f, GrowsOK(t, x, f)
      PROVE  GrowsOK(w, x, f)
  <2>1. CASE f = Gone
    BY <1>1, <1>4, <2>1 DEF GrowsOK
  <2>2. CASE f # Gone
    <3>1. Grows(t, x, f)
      BY <1>4, <2>2 DEF GrowsOK
    <3>2. Current(w, x, f) = Current(t, x, f) /\ (Same(w, x, f) <=> Same(t, x, f))
      BY <1>2, <1>3 DEF Current, Same
    <3>3. PICK n \in 0..Completed(f) :
            /\ Recorded(t, x, Current(t, x, f), f.lines, n)
            /\ Same(t, x, f) => Completed(SnapOf(t, x)) <= n
      BY <3>1 DEF Grows
    <3>4. Recorded(w, x, Current(w, x, f), f.lines, n)
          /\ (Same(w, x, f) => Completed(SnapOf(w, x)) <= n)
      BY <1>1, <1>3, <3>2, <3>3 DEF Same
    <3>5. ControlsOf(w, x, Current(w, x, f)) = {} /\ NoneBeyond(w, x, Current(w, x, f))
      BY <1>1, <3>1, <3>2 DEF Grows
    <3>6. Took(w, x) => IsAppend(SnapOf(w, x), f) /\ OldRetired(w, x, GenOf(w, x))
      BY <1>1, <1>2, <1>3, <3>1 DEF Grows
    <3>7. Grows(w, x, f)
      BY <3>4, <3>5, <3>6 DEF Grows
    <3> QED
      BY <2>2, <3>7 DEF GrowsOK
  <2> QED
    BY <2>1, <2>2
<1>5. ASSUME NEW mark, Remembers(t, x, mark)
      PROVE  Remembers(w, x, mark)
  <2>1. CASE Took(t, x)
    BY <1>1, <1>2, <1>3, <1>5, <2>1 DEF Remembers, Stands
  <2>2. CASE ~Took(t, x)
    BY <1>1, <1>2, <1>5, <2>2 DEF Remembers
  <2> QED
    BY <2>1, <2>2
<1>6. \A f : UpToDate(t, x, f) => UpToDate(w, x, f)
  BY <1>2, <1>3 DEF UpToDate
<1> QED
  BY <1>1, <1>2, <1>4, <1>5, <1>6 DEF w

-----------------------------------------------------------------------------
(* What a batch adds.                                                      *)

\* Events carry lines of their source.
OwnLines(recs) == \A i \in OfKind(recs, "event") : recs[i].line \in LinesAt[recs[i].src]

\* They do in a longer log.
LEMMA OwnLinesJoined ==
  ASSUME NEW t \in Seq(Records), NEW u \in Seq(Records), OwnLines(t), OwnLines(u)
  PROVE  OwnLines(t \o u)
<1>1. Joins(t, u, "event")
  BY KindsJoined
<1> DEFINE w == t \o u
<1>2. \A i \in OfKind(w, "event") :
        \/ i \in OfKind(t, "event") /\ w[i] = t[i]
        \/ \E m \in OfKind(u, "event") : w[i] = u[m]
  BY <1>1 DEF Joins
<1> HIDE DEF w
<1>3. OwnLines(w)
  BY <1>2 DEF OwnLines
<1> QED
  BY <1>3 DEF w

\* If the first n lines of the file are in the log, the others are new.
LEMMA FreshInterval ==
  ASSUME TypeOK, Knows, OwnLines(log), SessionsApart,
         NEW s \in Sources, files[s] # Gone, NEW force \in BOOLEAN,
         NEW n \in 0..Completed(files[s]),
         Recorded(log, s, GenerationFor(s, force), files[s].lines, n),
         Grew(s, force) => Completed(sources[s].snap) <= n
  PROVE  Fresh(s, force) = (n + 1)..Completed(files[s])
<1> DEFINE g == GenerationFor(s, force)
           m == Completed(files[s])
           ls == files[s].lines
           from == IF Grew(s, force) THEN Completed(sources[s].snap) ELSE 0
<1>1. files[s] \in ContentOf(s)
  BY DEF TypeOK
<1>2. ls \in Seq(LinesAt[s])
  <2>1. ls \in BoundedSeq(LinesAt[s], MaxLines)
    BY <1>1 DEF ContentOf, Contents
  <2> QED
    BY <2>1, IngestAssumption DEF BoundedSeq, SeqOf
<1>3. m \in 0..Len(ls) /\ m \in Nat /\ n \in Nat /\ Injective(ls)
  BY <1>1, ContentFacts
<1>4. from \in Nat /\ from <= n
  <2>1. ASSUME Grew(s, force)
        PROVE  Completed(sources[s].snap) \in Nat
    <3>1. Known(s)
      BY <2>1 DEF Grew
    <3>2. sources[s].snap \in Snapshots
      BY <3>1, GenerationType
    <3> QED
      BY <3>2, SnapshotFacts
  <2> QED
    BY <1>3, <2>1
<1>5. Fresh(s, force) = {i \in (from + 1)..m : <<g, ls[i]>> \notin eventIds}
  BY DEF Fresh
<1>6. eventIds = IdsIn(log)
  BY DEF Knows
<1>7. \A i, j \in 1..m : ls[i] = ls[j] => i = j
  <2>1. DOMAIN ls = 1..Len(ls)
    BY <1>2
  <2> QED
    BY <1>3, <2>1 DEF Injective
<1>8. \A i \in 1..m : ls[i] \in LinesAt[s]
  BY <1>2, <1>3
<1>9. /\ \A i \in EventsOf(log, s, g) : \E j \in 1..n : log[i].line = ls[j]
      /\ \A j \in 1..n : \E i \in EventsOf(log, s, g) : log[i].line = ls[j]
  BY DEF Recorded
<1>12. n <= m
  BY <1>3
<1> HIDE DEF g, m, ls, from
<1>10. ASSUME NEW i \in 1..m, <<g, ls[i]>> \in IdsIn(log)
       PROVE  i <= n
  <2>1. PICK k \in OfKind(log, "event") : <<g, ls[i]>> = <<log[k].gen, log[k].line>>
    BY <1>10 DEF IdsIn, IdOf
  <2>2. log[k].gen = g /\ log[k].line = ls[i]
    BY <2>1
  <2>3. log[k].line \in LinesAt[log[k].src]
    BY DEF OwnLines
  <2>4. log[k].src \in Sources
    <3>1. log[k] \in Records
      BY DEF OfKind, TypeOK
    <3> QED
      BY <3>1, RecordFields
  <2>5. log[k].src = s
    BY <1>8, <2>2, <2>3, <2>4 DEF SessionsApart
  <2>6. k \in EventsOf(log, s, g)
    BY <2>2, <2>5 DEF EventsOf
  <2>7. PICK j \in 1..n : log[k].line = ls[j]
    BY <1>9, <2>6
  <2>8. j \in 1..m
    BY <1>3, <1>12, <2>7
  <2>9. i = j
    BY <1>7, <2>2, <2>7, <2>8
  <2> QED
    BY <1>3, <2>7, <2>9
<1>11. ASSUME NEW i \in 1..n
       PROVE  <<g, ls[i]>> \in IdsIn(log)
  <2>1. PICK k \in EventsOf(log, s, g) : log[k].line = ls[i]
    BY <1>9
  <2> QED
    BY <2>1 DEF EventsOf, IdsIn, IdOf
<1>13. ASSUME NEW i
       PROVE  i \in Fresh(s, force) <=> i \in (n + 1)..m
  <2>1. i \in Fresh(s, force) <=> i \in (from + 1)..m /\ <<g, ls[i]>> \notin IdsIn(log)
    BY <1>5, <1>6
  <2>2. i \in (n + 1)..m => i \in 1..m /\ i \in (from + 1)..m /\ ~(i <= n)
    BY <1>3, <1>4
  <2>3. i \in (from + 1)..m /\ i \notin (n + 1)..m => i \in 1..n
    BY <1>3, <1>4
  <2> QED
    BY <1>10, <1>11, <2>1, <2>2, <2>3
<1> QED
  BY <1>13 DEF m

\* What any part of a batch keeps, and what a whole one leaves.
LEMMA BatchKeeps ==
  ASSUME TypeOK, Knows, NEW s \in Sources, files[s] # Gone, NEW force \in BOOLEAN,
         NEW m \in 1..Len(Batch(s, force)), NEW u, u = SubSeq(Batch(s, force), 1, m),
         NoneBeyond(log, s, GenerationFor(s, force)), OldRetired(log, s, Before(s))
  PROVE  /\ u \in Seq(Records)
         /\ \A x : x # s => Foreign(u, x)
         /\ OwnLines(u)
         /\ NoneBeyond(log \o u, s, GenerationFor(s, force))
         /\ OldRetired(log \o u, s, Before(s))
         /\ m # Len(Batch(s, force)) => CheckpointsIn(log \o u) = CheckpointsIn(log)
         /\ m = Len(Batch(s, force)) =>
              /\ Took(log \o u, s)
              /\ GenOf(log \o u, s) = GenerationFor(s, force)
              /\ SnapOf(log \o u, s) = files[s]
              /\ OldRetired(log \o u, s, GenerationFor(s, force))
<1> DEFINE g == GenerationFor(s, force)
           old == Before(s)
           new == NewLines(s, force)
           w == log \o u
<1>13. PICK c \in 0..1, q \in 0..Len(NewLines(s, force)) : PartOf(u, m, s, force, c, q)
  BY PieceOfBatch
<1>1. /\ c \in 0..1 /\ q \in 0..Len(new)
      /\ c = IF Known(s) /\ ~Grew(s, force) THEN 1 ELSE 0
      /\ u \in Seq(Records)
      /\ IsPiece(u, s, old, g, new, c, q)
      /\ m # Len(Batch(s, force)) => DOMAIN CheckpointsIn(u) = {}
      /\ m = Len(Batch(s, force)) =>
           /\ q = Len(new)
           /\ DOMAIN CheckpointsIn(u) = {s}
           /\ CheckpointsIn(u)[s] = [gen |-> g, snap |-> files[s]]
  BY <1>13 DEF PartOf
<1>2. /\ g \in Gens /\ old \in Gens /\ old <= g
      /\ IF c = 1 THEN g = old + 1 ELSE g = old
  BY <1>1, GenerationType DEF GenerationFor, Before, Gens
<1>3. log \in Seq(Records) /\ u \in Seq(Records)
  BY <1>1 DEF TypeOK
<1>4. \A x : x # s => Foreign(u, x)
  BY <1>1 DEF IsPiece, Foreign
<1>5. OwnLines(u)
  <2>1. ASSUME NEW i \in OfKind(u, "event")
        PROVE  u[i].line \in LinesAt[u[i].src]
    <3>1. PICK r \in 1..q : u[i].line = new[r]
      BY <1>1 DEF IsPiece
    <3>2. Len(new) \in Nat
      BY NewLinesAre
    <3>3. r \in 1..Len(new)
      BY <1>1, <3>2
    <3>4. new[r] \in LinesAt[s]
      BY <3>3, NewLinesOwn
    <3>5. u[i].src = s
      BY <1>1 DEF IsPiece, OfKind
    <3> QED
      BY <3>1, <3>4, <3>5
  <2> QED
    BY <2>1 DEF OwnLines
<1>6. q \in Nat
  BY <1>1
<1> HIDE DEF g, old, new
<1>7. /\ OldRetired(w, s, old)
      /\ c = 1 /\ g = old + 1 => OldRetired(w, s, g)
      /\ NoneBeyond(w, s, g)
  <2>1. NoneBeyond(log, s, g) /\ OldRetired(log, s, old)
    BY DEF g, old
  <2> QED
    BY <1>1, <1>2, <1>3, <1>6, <2>1, PieceControls
<1>8. OldRetired(w, s, g)
  BY <1>1, <1>2, <1>7
<1>9. CheckpointsIn(w) =
        [x \in DOMAIN CheckpointsIn(log) \cup DOMAIN CheckpointsIn(u) |->
           IF x \in DOMAIN CheckpointsIn(u) THEN CheckpointsIn(u)[x]
           ELSE CheckpointsIn(log)[x]]
  BY <1>3, CheckpointsJoined
<1> HIDE DEF w
<1>10. ASSUME m # Len(Batch(s, force))
       PROVE  CheckpointsIn(w) = CheckpointsIn(log)
  <2> DEFINE K == CheckpointsIn(log)
  <2>1. K = [x \in DOMAIN K |-> K[x]]
    BY DEF CheckpointsIn
  <2>2. DOMAIN CheckpointsIn(u) = {}
    BY <1>1, <1>10
  <2> HIDE DEF K
  <2>3. CheckpointsIn(w) = [x \in DOMAIN K |-> K[x]]
    BY <1>9, <2>2 DEF K
  <2> QED
    BY <2>1, <2>3 DEF K
<1>11. ASSUME m = Len(Batch(s, force))
       PROVE  Took(w, s) /\ GenOf(w, s) = g /\ SnapOf(w, s) = files[s]
  <2>1. DOMAIN CheckpointsIn(u) = {s} /\ CheckpointsIn(u)[s] = [gen |-> g, snap |-> files[s]]
    BY <1>1, <1>11
  <2>2. s \in DOMAIN CheckpointsIn(w) /\ CheckpointsIn(w)[s] = CheckpointsIn(u)[s]
    BY <1>9, <2>1
  <2> QED
    BY <2>1, <2>2 DEF Took, GenOf, SnapOf
<1> QED
  BY <1>3, <1>4, <1>5, <1>7, <1>8, <1>10, <1>11 DEF g, old, w

\* Its events continue what is recorded of the file.
LEMMA BatchRecorded ==
  ASSUME TypeOK, Knows, OwnLines(log), SessionsApart,
         NEW s \in Sources, files[s] # Gone, NEW force \in BOOLEAN,
         NEW m \in 1..Len(Batch(s, force)), NEW u, u = SubSeq(Batch(s, force), 1, m),
         NEW n \in 0..Completed(files[s]),
         Recorded(log, s, GenerationFor(s, force), files[s].lines, n),
         Grew(s, force) => Completed(sources[s].snap) <= n,
         ControlsOf(log, s, GenerationFor(s, force)) = {}
  PROVE  /\ ControlsOf(log \o u, s, GenerationFor(s, force)) = {}
         /\ \E k \in n..Completed(files[s]) :
              /\ Recorded(log \o u, s, GenerationFor(s, force), files[s].lines, k)
              /\ m = Len(Batch(s, force)) => k = Completed(files[s])
<1> DEFINE g == GenerationFor(s, force)
           old == Before(s)
           new == NewLines(s, force)
           f == files[s]
           w == log \o u
<1>13. PICK c \in 0..1, q \in 0..Len(NewLines(s, force)) : PartOf(u, m, s, force, c, q)
  BY PieceOfBatch
<1>1. /\ c \in 0..1 /\ q \in 0..Len(new)
      /\ c = IF Known(s) /\ ~Grew(s, force) THEN 1 ELSE 0
      /\ u \in Seq(Records)
      /\ IsPiece(u, s, old, g, new, c, q)
      /\ m # Len(Batch(s, force)) => DOMAIN CheckpointsIn(u) = {}
      /\ m = Len(Batch(s, force)) =>
           /\ q = Len(new)
           /\ DOMAIN CheckpointsIn(u) = {s}
           /\ CheckpointsIn(u)[s] = [gen |-> g, snap |-> f]
  BY <1>13 DEF PartOf
<1>2. /\ g \in Gens /\ old \in Gens /\ old <= g
      /\ c = 1 => old # g
  BY <1>1, GenerationType DEF GenerationFor, Before, Gens
<1>3. log \in Seq(Records) /\ u \in Seq(Records)
  BY <1>1 DEF TypeOK
<1>4. Fresh(s, force) = (n + 1)..Completed(f)
  BY FreshInterval
<1>5. /\ Len(new) = Completed(f) - n
      /\ \A r \in 1..Len(new) : new[r] = f.lines[n + r]
  BY <1>4, NewLinesInterval
<1>6. Completed(f) \in Nat /\ n \in Nat
  BY NewLinesAre
<1>7. \A i, j \in 1..Completed(f) : f.lines[i] = f.lines[j] => i = j
  <2>1. f \in ContentOf(s)
    BY DEF TypeOK
  <2>2. f.lines \in Seq(Lines) /\ Injective(f.lines) /\ Completed(f) \in 0..Len(f.lines)
    BY <2>1, ContentFacts
  <2>3. DOMAIN f.lines = 1..Len(f.lines)
    BY <2>2
  <2> QED
    BY <2>2, <2>3 DEF Injective
<1>8. Recorded(log, s, g, f.lines, n) /\ ControlsOf(log, s, g) = {}
  OBVIOUS
<1> HIDE DEF g, old, new, f
<1>9. q \in Nat /\ n + q \in n..Completed(f)
  BY <1>1, <1>5, <1>6
<1>10. ControlsOf(w, s, g) = {}
  BY <1>1, <1>2, <1>3, <1>8, <1>9, PieceControls
<1>11. Recorded(w, s, g, f.lines, n + q)
  <2>1. \A r \in 1..q : new[r] = f.lines[n + r]
    BY <1>1, <1>5, <1>6
  <2>2. \A i, j \in 1..(n + q) : f.lines[i] = f.lines[j] => i = j
    <3> DEFINE k == n + q
    <3>1. k \in n..Completed(f)
      BY <1>9
    <3> HIDE DEF k
    <3>2. \A i \in 1..k : i \in 1..Completed(f)
      BY <1>6, <3>1
    <3>3. \A i, j \in 1..k : f.lines[i] = f.lines[j] => i = j
      BY <1>7, <3>2
    <3> QED
      BY <3>3 DEF k
  <2>3. IsPiece(u, s, old, g, new, c, q) /\ c \in 0..1
    BY <1>1
  <2> QED
    BY <1>2, <1>3, <1>6, <1>8, <1>9, <2>1, <2>2, <2>3, RecordedMore
<1>12. m = Len(Batch(s, force)) => n + q = Completed(f)
  BY <1>1, <1>5, <1>6
<1> QED
  BY <1>9, <1>10, <1>11, <1>12 DEF g, f

-----------------------------------------------------------------------------
(* The inductive invariant.                                                *)

\* Harnesses only created files and appended to them.  Whatever was killed or
\* failed, the log holds the first lines of every file.
Growing == past \cap {"rewrite", "delete"} = {}

\* Then nothing is missing, what is settled is up to date, and a round has seen
\* every source of the log that is there.
GrowingOK ==
  /\ \A s \in Sources : /\ GrowsOK(log, s, files[s])
                        /\ missing[s] = "no"
                        /\ s \in settled => UpToDate(log, s, files[s])
  /\ round.kind = "reconcile" =>
       \A s \in Sources : Took(log, s) \/ s \in round.todo => s \in round.seen

\* The writer never lost its memory, and every batch was appended whole.  What
\* is missing is known, and a source that returned was reconciled by force.
Remembering == past \cap {"append", "kill", "torn", "fleeting"} = {}

\* Then a settled source that is gone is retracted, and one that is there is
\* up to date and shown.
SourceOK(s) ==
  /\ Remembers(log, s, missing[s])
  /\ ~Took(log, s) => missing[s] = "no" /\ s \notin settled
  /\ s \in settled /\ files[s] = Gone => AllRetired(log, s) /\ missing[s] = "retracted"
  /\ s \in settled /\ files[s] # Gone =>
       /\ UpToDate(log, s, files[s])
       /\ missing[s] = "no"
       /\ round.kind = "reconcile" => s \in round.seen
  /\ round.kind = "reconcile" /\ s \in round.todo =>
       s \in round.seen /\ (files[s] = Gone => missing[s] # "retracted")

RememberingOK == up /\ \A s \in Sources : SourceOK(s)

\* What makes SearchSurvives inductive, with Inv: two reasons, either of which
\* is enough for a settled source to be shown as it is.
SearchInv ==
  /\ OwnLines(log)
  /\ "flush" \notin past => (Growing => GrowingOK) /\ (Remembering => RememberingOK)

-----------------------------------------------------------------------------
(* What a step does to the log.                                            *)

\* No step forgets what has happened.
LEMMA PastGrows ==
  ASSUME [Next]_vars
  PROVE  past \subseteq past'
<1>1. ASSUME UNCHANGED past
      PROVE  past \subseteq past'
  BY <1>1
<1>2. ASSUME NEW o, Happened(o)
      PROVE  past \subseteq past'
  BY <1>2 DEF Happened
<1>3. ASSUME NEW o, Fault(o)
      PROVE  past \subseteq past'
  BY <1>3 DEF Fault, Happened
<1>4. ASSUME NEW recs, NEW ok, AppendProject(recs, ok)
      PROVE  past \subseteq past'
  BY <1>1, <1>3, <1>4
     DEF AppendProject, Projects, ProjectionFails, FlushFails, AppendFails, trouble
<1>5. ASSUME NEW s, NEW force, NEW ok, ReconcileSource(s, force, ok)
      PROVE  past \subseteq past'
  BY <1>1, <1>4, <1>5 DEF ReconcileSource, trouble
<1>6. CASE UNCHANGED vars
  BY <1>6 DEF vars, bounds, trouble
<1>7. CASE World
  BY <1>1, <1>2, <1>7
     DEF World, HarnessCreates, HarnessAppends, HarnessRewrites, HarnessDeletes, Toggle
<1>8. CASE \E s \in Sources : GraceEnds(s)
  BY <1>8 DEF GraceEnds, bounds, trouble
<1>9. CASE StartReconcile \/ StartTick \/ RepairFails \/ EndRound
  BY <1>3, <1>9 DEF StartReconcile, StartTick, RepairFails, EndRound, bounds, trouble
<1>10. CASE Steps
  BY <1>1, <1>4, <1>5, <1>10
     DEF Steps, ReconcileStep, TickStep, RetractMissing, NoticeMissing, trouble
<1>11. CASE Kill \/ KillInBatch
  BY <1>3, <1>11 DEF Kill, KillInBatch
<1>12. CASE Opens
  BY <1>12 DEF Opens, Restart, RestartRebuilds, bounds, trouble
<1> QED
  BY <1>6, <1>7, <1>8, <1>9, <1>10, <1>11, <1>12 DEF Next

\* A call of append_project that comes back without an error has appended.
LEMMA AppendOutcome ==
  ASSUME NEW recs, NEW ok \in BOOLEAN, AppendProject(recs, ok)
  PROVE  /\ log' = log \o recs \/ log' = log
         /\ log' = log \o recs \/ (~ok /\ "append" \in past')
         /\ "append" \in past' \/ log' = log \o recs
BY DEF AppendProject, Projects, ProjectionFails, FlushFails, AppendFails, Fault, Happened

\* What a running writer does for a source that is there: nothing, because
\* there is nothing new, or it appends the batch or fails to.
LEMMA ReconcileOutcome ==
  ASSUME NEW s, NEW force, NEW ok \in BOOLEAN, ReconcileSource(s, force, ok)
  PROVE  \/ NothingNew(s, force) /\ ok /\ log' = log
         \/ ~NothingNew(s, force) /\ log' = log \o Batch(s, force)
         \/ ~NothingNew(s, force) /\ log' = log /\ ~ok /\ "append" \in past'
BY AppendOutcome DEF ReconcileSource

\* A writer that knows its log.
LEMMA Knowing ==
  ASSUME Inv, up, "flush" \notin past
  PROVE  /\ Knows
         /\ \A s : Known(s) <=> Took(log, s)
         /\ \A s : Known(s) => /\ sources[s].gen = GenOf(log, s)
                               /\ sources[s].snap = SnapOf(log, s)
BY DEF Inv, IInv, ReplayExact, Knows, Known, Took, GenOf, SnapOf

\* The last part of a batch is all of it.
LEMMA WholeBatch ==
  ASSUME TypeOK, NEW s \in Sources, files[s] # Gone, NEW force \in BOOLEAN
  PROVE  /\ Len(Batch(s, force)) \in 1..Len(Batch(s, force))
         /\ SubSeq(Batch(s, force), 1, Len(Batch(s, force))) = Batch(s, force)
<1> DEFINE B == Batch(s, force)
<1>1. B \in Seq(Records) /\ Len(B) \in Nat \ {0}
  BY BatchRecords
<1> HIDE DEF B
<1>2. Len(B) \in 1..Len(B)
  BY <1>1
<1>3. SubSeq(B, 1, Len(B)) = B
  BY <1>1
<1> QED
  BY <1>2, <1>3 DEF B

\* A retraction.
LEMMA ControlIs ==
  ASSUME NEW s \in Sources, NEW g \in Gens, NEW u, u = <<Visibility(s, g)>>
  PROVE  /\ u \in Seq(Records)
         /\ \A x : x # s => Foreign(u, x)
         /\ OwnLines(u)
         /\ DOMAIN CheckpointsIn(u) = {}
         /\ \A new : IsPiece(u, s, g, g, new, 1, 0)
         /\ 1 \in ControlsOf(u, s, g)
<1>1. /\ u \in Seq(Records) /\ DOMAIN u = {1} /\ u[1] = Visibility(s, g)
  BY RecordTypes
<1>2. /\ u[1].kind = "visibility" /\ u[1].src = s /\ u[1].gen = g /\ g <= g
  BY <1>1 DEF Visibility, Gens
<1>3. /\ OfKind(u, "event") = {} /\ OfKind(u, "checkpoint") = {}
      /\ OfKind(u, "visibility") = {1}
  BY <1>1, <1>2 DEF OfKind
<1> QED
  BY <1>1, <1>2, <1>3 DEF Foreign, OwnLines, CheckpointsIn, IsPiece, ControlsOf

-----------------------------------------------------------------------------
(* Where files only grow.                                                  *)

\* Steps that touch neither files nor log.
LEMMA GrowingStill ==
  ASSUME GrowingOK, UNCHANGED <<files, log, settled>>,
         missing' = missing \/ missing' = [s \in Sources |-> "no"],
         round' = round \/ round'.kind # "reconcile"
  PROVE  GrowingOK'
<1>1. \A s \in Sources : missing'[s] = "no"
  BY DEF GrowingOK
<1> QED
  BY <1>1 DEF GrowingOK

\* A part of a batch that is not forced, as far as its source goes.
LEMMA GrowsByBatch ==
  ASSUME TypeOK, Knows, OwnLines(log), SessionsApart,
         NEW s \in Sources, files[s] # Gone, Grows(log, s, files[s]), ~NothingNew(s, FALSE),
         NEW m \in 1..Len(Batch(s, FALSE)), NEW u, u = SubSeq(Batch(s, FALSE), 1, m)
  PROVE  /\ Grows(log \o u, s, files[s])
         /\ UpToDate(log, s, files[s]) \/ m = Len(Batch(s, FALSE)) =>
              UpToDate(log \o u, s, files[s])
         /\ u \in Seq(Records) /\ OwnLines(u) /\ \A x : x # s => Foreign(u, x)
<1> DEFINE f == files[s]
           g == GenerationFor(s, FALSE)
           w == log \o u
           whole == m = Len(Batch(s, FALSE))
<1>1. /\ Known(s) <=> Took(log, s)
      /\ Known(s) => sources[s].gen = GenOf(log, s) /\ sources[s].snap = SnapOf(log, s)
  BY DEF Knows, Known, Took, GenOf, SnapOf
<1>2. log \in Seq(Records) /\ f \in Snapshots
  BY ContentFacts DEF TypeOK
<1>3. ASSUME Known(s)
      PROVE  /\ IsAppend(sources[s].snap, f)
             /\ Grew(s, FALSE) <=> s \in AppendCapable
             /\ Same(log, s, f) <=> s \in AppendCapable
  <2>1. IsAppend(sources[s].snap, f)
    BY <1>1, <1>3 DEF Grows
  <2>2. sources[s].snap # f
    BY <1>3 DEF NothingNew
  <2> QED
    BY <1>1, <1>3, <2>1, <2>2 DEF Grew, Same
<1>4. g = Current(log, s, f)
  BY <1>1, <1>3 DEF GenerationFor, Current
<1>5. g \in Gens
  BY GenerationType
<1>6. NoneBeyond(log, s, g) /\ ControlsOf(log, s, g) = {}
  BY <1>4 DEF Grows
<1>7. OldRetired(log, s, Before(s))
  <2>1. CASE Known(s)
    BY <1>1, <2>1 DEF Grows, Before
  <2>2. CASE ~Known(s)
    <3>1. Before(s) = 1
      BY <2>2 DEF Before
    <3>2. \A i \in OfKind(log, "event") : log[i].gen \in Gens
      <4>1. \A i \in OfKind(log, "event") : log[i] \in Records
        BY <1>2 DEF OfKind
      <4> QED
        BY <4>1, RecordFields
    <3> QED
      BY <3>1, <3>2 DEF OldRetired, Gens
  <2> QED
    BY <2>1, <2>2
<1>8. PICK n \in 0..Completed(f) :
        /\ Recorded(log, s, g, f.lines, n)
        /\ Same(log, s, f) => Completed(SnapOf(log, s)) <= n
  BY <1>4 DEF Grows
<1>9. Grew(s, FALSE) => Completed(sources[s].snap) <= n
  <2>1. Grew(s, FALSE) => Known(s)
    BY DEF Grew
  <2> QED
    BY <1>1, <1>3, <1>8, <2>1
<1>10. /\ u \in Seq(Records) /\ OwnLines(u) /\ \A x : x # s => Foreign(u, x)
       /\ NoneBeyond(w, s, g) /\ OldRetired(w, s, Before(s))
       /\ ~whole => CheckpointsIn(w) = CheckpointsIn(log)
       /\ whole => /\ Took(w, s) /\ GenOf(w, s) = g /\ SnapOf(w, s) = f
                   /\ OldRetired(w, s, g)
  BY <1>6, <1>7, BatchKeeps
<1>11. /\ ControlsOf(w, s, g) = {}
       /\ \E k \in n..Completed(f) : /\ Recorded(w, s, g, f.lines, k)
                                     /\ whole => k = Completed(f)
  BY <1>6, <1>8, <1>9, BatchRecorded
<1>12. Completed(f) \in Nat
  BY <1>2, SnapshotFacts
<1> HIDE DEF f, g, w, whole
<1>13. PICK k \in n..Completed(f) :
         Recorded(w, s, g, f.lines, k) /\ (whole => k = Completed(f))
  BY <1>11
<1>14. k \in 0..Completed(f) /\ n <= k
  BY <1>12, <1>13
<1>15. ASSUME whole
       PROVE  Grows(w, s, f) /\ UpToDate(w, s, f)
  <2>1. Took(w, s) /\ GenOf(w, s) = g /\ SnapOf(w, s) = f
    BY <1>10, <1>15
  <2>2. Same(w, s, f) /\ Current(w, s, f) = g
    BY <2>1 DEF Same, Current
  <2>3. IsAppend(f, f)
    BY <1>2, AppendOrder DEF IsAppend, IsPrefix, f
  <2>4. k = Completed(f) /\ Completed(SnapOf(w, s)) <= k
    BY <1>12, <1>13, <1>15, <2>1
  <2>5. f # Gone
    BY DEF f
  <2> QED
    BY <1>10, <1>11, <1>13, <1>14, <1>15, <2>1, <2>2, <2>3, <2>4, <2>5 DEF Grows, UpToDate
<1>16. ASSUME ~whole
       PROVE  Grows(w, s, f) /\ (UpToDate(log, s, f) => UpToDate(w, s, f))
  <2>1. /\ Took(w, s) <=> Took(log, s)
        /\ GenOf(w, s) = GenOf(log, s) /\ SnapOf(w, s) = SnapOf(log, s)
    BY <1>10, <1>16 DEF Took, GenOf, SnapOf
  <2>2. (Same(w, s, f) <=> Same(log, s, f)) /\ Current(w, s, f) = g
    BY <1>4, <2>1 DEF Same, Current, f, g
  <2>3. Took(w, s) => IsAppend(SnapOf(w, s), f) /\ OldRetired(w, s, GenOf(w, s))
    <3>1. Took(log, s) => Before(s) = GenOf(log, s) /\ IsAppend(SnapOf(log, s), f)
      BY <1>1 DEF Before, Grows, f
    <3> QED
      BY <1>10, <2>1, <3>1
  <2>4. Same(w, s, f) => Completed(SnapOf(w, s)) <= k
    <3>1. ASSUME Same(w, s, f)
          PROVE  Completed(SnapOf(w, s)) <= k
      <4>1. Took(log, s) /\ Completed(SnapOf(log, s)) <= n
        BY <1>8, <2>2, <3>1 DEF Same, f
      <4>2. Completed(SnapOf(log, s)) \in Nat
        <5>1. SnapOf(log, s) \in Snapshots
          BY <1>2, <4>1, TookTypes
        <5> QED
          BY <5>1, SnapshotFacts
      <4> QED
        BY <1>12, <1>14, <2>1, <4>1, <4>2
    <3> QED
      BY <3>1
  <2>5. Grows(w, s, f)
    BY <1>10, <1>11, <1>13, <1>14, <2>2, <2>3, <2>4 DEF Grows
  <2> QED
    BY <2>1, <2>5 DEF UpToDate
<1> QED
  BY <1>10, <1>15, <1>16 DEF f, w, whole

\* The whole of the state.
LEMMA GrowingByBatch ==
  ASSUME TypeOK, Knows, OwnLines(log), SessionsApart, GrowingOK,
         NEW s \in Sources, files[s] # Gone, ~NothingNew(s, FALSE),
         NEW m \in 1..Len(Batch(s, FALSE)), NEW u, u = SubSeq(Batch(s, FALSE), 1, m),
         NEW x \in Sources
  PROVE  /\ GrowsOK(log \o u, x, files[x])
         /\ UpToDate(log, x, files[x]) => UpToDate(log \o u, x, files[x])
         /\ x = s /\ m = Len(Batch(s, FALSE)) => UpToDate(log \o u, x, files[x])
         /\ Took(log \o u, x) => Took(log, x) \/ x = s
<1>1. Grows(log, s, files[s])
  BY DEF GrowingOK, GrowsOK
<1>2. /\ Grows(log \o u, s, files[s])
      /\ UpToDate(log, s, files[s]) \/ m = Len(Batch(s, FALSE)) =>
           UpToDate(log \o u, s, files[s])
      /\ u \in Seq(Records) /\ \A y : y # s => Foreign(u, y)
  BY <1>1, GrowsByBatch
<1>3. CASE x = s
  BY <1>2, <1>3 DEF GrowsOK
<1>4. CASE x # s
  <2>1. log \in Seq(Records) /\ Foreign(u, x)
    BY <1>2, <1>4 DEF TypeOK
  <2>2. GrowsOK(log, x, files[x])
    BY DEF GrowingOK
  <2> QED
    BY <1>2, <1>4, <2>1, <2>2, ForeignRest
<1> QED
  BY <1>3, <1>4

\* Harnesses create files or append to them.
\* Steps of the harness and the user.
LEMMA GrowingWorld ==
  ASSUME Inv, GrowingOK, World, Growing'
  PROVE  GrowingOK'
<1>1. TypeOK /\ log \in Seq(Records) /\ DOMAIN files = Sources
  BY Parts DEF TypeOK
<1>2. ASSUME NEW s \in Sources, NEW c \in Snapshots, c # Gone, Changes(s, c), Grows(log, s, c)
      PROVE  GrowingOK'
  <2>1. /\ files' = [files EXCEPT ![s] = c] /\ settled' = settled \ {s}
        /\ log' = log /\ missing' = missing /\ round' = round
    BY <1>2 DEF Changes, memory
  <2>2. ASSUME NEW x \in Sources
        PROVE  /\ GrowsOK(log, x, files'[x]) /\ missing'[x] = "no"
               /\ x \in settled' => UpToDate(log, x, files'[x])
    <3>1. GrowsOK(log, x, files[x]) /\ missing[x] = "no"
          /\ (x \in settled => UpToDate(log, x, files[x]))
      BY DEF GrowingOK
    <3>2. CASE x = s
      <4>1. files'[x] = c /\ x \notin settled'
        BY <1>1, <2>1, <3>2
      <4> QED
        BY <1>2, <2>1, <3>1, <3>2, <4>1 DEF GrowsOK
    <3>3. CASE x # s
      <4>1. files'[x] = files[x] /\ (x \in settled' <=> x \in settled)
        BY <1>1, <2>1, <3>3
      <4> QED
        BY <2>1, <3>1, <4>1
    <3> QED
      BY <3>2, <3>3
  <2> QED
    BY <2>1, <2>2 DEF GrowingOK
<1>3. ASSUME NEW s \in Sources, HarnessCreates(s)
      PROVE  GrowingOK'
  <2>1. PICK c \in ContentOf(s) : Changes(s, c)
    BY <1>3 DEF HarnessCreates
  <2>3. c # Gone
    BY GoneAssumption
  <2>4. NoneOf(log, s)
    BY <1>3 DEF HarnessCreates, GrowingOK, GrowsOK
  <2>5. c \in Snapshots
    BY ContentFacts
  <2>6. Grows(log, s, c)
    BY <1>1, <2>4, <2>5, GrowsFirst
  <2> QED
    BY <1>2, <2>1, <2>3, <2>5, <2>6
<1>4. ASSUME NEW s \in Sources, HarnessAppends(s)
      PROVE  GrowingOK'
  <2>1. PICK c \in ContentOf(s) : c # files[s] /\ IsAppend(files[s], c) /\ Changes(s, c)
    BY <1>4 DEF HarnessAppends
  <2>2. files[s] # Gone /\ files[s] \in ContentOf(s)
    BY <1>1, <1>4 DEF HarnessAppends, TypeOK
  <2>3. c \in Snapshots /\ files[s] \in Snapshots
    BY <2>2, ContentFacts
  <2>4. Grows(log, s, files[s])
    BY <2>2 DEF GrowingOK, GrowsOK
  <2>5. Grows(log, s, c)
    BY <1>1, <2>1, <2>3, <2>4, GrowsOn
  <2>6. c # Gone
    BY GoneAssumption
  <2> QED
    BY <1>2, <2>1, <2>3, <2>5, <2>6
<1>5. ASSUME NEW s \in Sources, HarnessRewrites(s) \/ HarnessDeletes(s)
      PROVE  GrowingOK'
  <2>1. "rewrite" \in past' \/ "delete" \in past'
    BY <1>5 DEF HarnessRewrites, HarnessDeletes, Happened
  <2> QED
    BY <2>1 DEF Growing
<1>6. ASSUME Toggle
      PROVE  GrowingOK'
  <2>1. UNCHANGED <<files, log, settled, missing, round>>
    BY <1>6 DEF Toggle, memory
  <2> QED
    BY <2>1, GrowingStill
<1> QED
  BY <1>3, <1>4, <1>5, <1>6 DEF World

\* A step that appends some of a batch, or all of it.
LEMMA GrowingAppends ==
  ASSUME TypeOK, Knows, OwnLines(log), SessionsApart, GrowingOK,
         NEW s \in Sources, files[s] # Gone, ~NothingNew(s, FALSE),
         NEW m \in 1..Len(Batch(s, FALSE)), log' = log \o SubSeq(Batch(s, FALSE), 1, m),
         files' = files,
         \A x \in Sources : missing'[x] = "no",
         \A x \in settled' : x \in settled \/ (x = s /\ m = Len(Batch(s, FALSE))),
         \/ round'.kind # "reconcile"
         \/ /\ round.kind = "reconcile" /\ s \in round.todo
            /\ round'.todo \subseteq round.todo /\ round'.seen = round.seen
  PROVE  GrowingOK'
<1> DEFINE u == SubSeq(Batch(s, FALSE), 1, m)
           w == log \o u
<1>1. ASSUME NEW x \in Sources
      PROVE  /\ GrowsOK(w, x, files[x])
             /\ UpToDate(log, x, files[x]) => UpToDate(w, x, files[x])
             /\ x = s /\ m = Len(Batch(s, FALSE)) => UpToDate(w, x, files[x])
             /\ Took(w, x) => Took(log, x) \/ x = s
  BY GrowingByBatch
<1>2. log' = w
  OBVIOUS
<1> HIDE DEF u, w
<1>3. \A x \in Sources : x \in settled' => UpToDate(w, x, files[x])
  BY <1>1 DEF GrowingOK
<1>4. ASSUME round'.kind = "reconcile", NEW x \in Sources, Took(w, x) \/ x \in round'.todo
      PROVE  x \in round'.seen
  <2>1. Took(log, x) \/ x \in round.todo
    BY <1>1, <1>4
  <2> QED
    BY <1>4, <2>1 DEF GrowingOK
<1> QED
  BY <1>1, <1>2, <1>3, <1>4 DEF GrowingOK

\* One source of a round.
LEMMA GrowingVisits ==
  ASSUME Inv, OwnLines(log), SessionsApart, GrowingOK, "flush" \notin past,
         up, NEW s \in Sources, s \in round.todo, NEW ok \in BOOLEAN,
         IF files[s] = Gone THEN ~ok /\ log' = log ELSE ReconcileSource(s, FALSE, ok),
         \A x \in Sources : missing'[x] = "no",
         files' = files, round' = [round EXCEPT !.todo = @ \ {s}],
         \A x \in settled' : x \in settled \/ (x = s /\ ok /\ round.kind = "reconcile")
  PROVE  GrowingOK'
<1>1. TypeOK /\ Knows
  BY Parts, Knowing
<1>2. /\ round'.kind = round.kind /\ round'.seen = round.seen
      /\ round'.todo \subseteq round.todo
  BY <1>1 DEF TypeOK
<1>3. ASSUME log' = log, ok => UpToDate(log, s, files[s])
      PROVE  GrowingOK'
  <2>1. \A x \in Sources : /\ GrowsOK(log, x, files[x])
                           /\ x \in settled' => UpToDate(log, x, files[x])
    BY <1>3 DEF GrowingOK
  <2>2. round'.kind = "reconcile" =>
          \A x \in Sources : Took(log, x) \/ x \in round'.todo => x \in round'.seen
    BY <1>2 DEF GrowingOK
  <2> QED
    BY <1>3, <2>1, <2>2 DEF GrowingOK
<1>4. CASE files[s] = Gone
  BY <1>3, <1>4
<1>5. CASE files[s] # Gone
  <2>1. ReconcileSource(s, FALSE, ok) /\ FALSE \in BOOLEAN
    BY <1>5
  <2>2. CASE NothingNew(s, FALSE) /\ log' = log
    <3>1. UpToDate(log, s, files[s])
      <4>1. Known(s) <=> Took(log, s)
        BY Knowing
      <4>2. Known(s) => sources[s].snap = SnapOf(log, s)
        BY Knowing
      <4> QED
        BY <1>5, <2>2, <4>1, <4>2 DEF NothingNew, Grew, UpToDate
    <3> QED
      BY <1>3, <2>2, <3>1
  <2>3. CASE log' = log /\ ~ok
    BY <1>3, <2>3
  <2>4. CASE ~NothingNew(s, FALSE) /\ log' = log \o Batch(s, FALSE)
    <3> DEFINE m == Len(Batch(s, FALSE))
    <3>1. m \in 1..m /\ SubSeq(Batch(s, FALSE), 1, m) = Batch(s, FALSE)
      BY <1>1, <1>5, WholeBatch
    <3>2. \A x \in settled' : x \in settled \/ (x = s /\ m = Len(Batch(s, FALSE)))
      OBVIOUS
    <3>3. log' = log \o SubSeq(Batch(s, FALSE), 1, m)
      BY <2>4, <3>1
    <3>4. \/ round'.kind # "reconcile"
          \/ /\ round.kind = "reconcile" /\ s \in round.todo
             /\ round'.todo \subseteq round.todo /\ round'.seen = round.seen
      BY <1>2
    <3>5. m = Len(Batch(s, FALSE))
      OBVIOUS
    <3> HIDE DEF m
    <3> QED
      BY <1>1, <1>5, <2>4, <3>1, <3>2, <3>3, <3>4, <3>5, GrowingAppends
  <2> QED
    BY <2>1, <2>2, <2>3, <2>4, ReconcileOutcome
<1> QED
  BY <1>4, <1>5

\* Nothing is missing, and nothing is retracted.
LEMMA GrowingMissesNone ==
  ASSUME Inv, GrowingOK, "flush" \notin past, up, round.kind = "reconcile"
  PROVE  Unseen = {}
<1>1. \A s : Known(s) <=> Took(log, s)
  BY Knowing
<1>2. DOMAIN sources \subseteq Sources
  BY Parts DEF StoreOK
<1>3. \A s \in DOMAIN sources : s \in round.seen
  BY <1>1, <1>2 DEF GrowingOK, Known
<1> QED
  BY <1>3 DEF Unseen

\* Every step of Next.
LEMMA GrowingStep ==
  ASSUME Inv, OwnLines(log), SessionsApart, GrowingOK, [Next]_vars,
         "flush" \notin past', Growing'
  PROVE  GrowingOK'
<1>1. TypeOK /\ "flush" \notin past
  BY Parts, PastGrows
<1>2. \A s \in Sources : missing[s] = "no"
  BY DEF GrowingOK
<1>3. CASE UNCHANGED vars
  BY <1>3, GrowingStill DEF vars, memory
<1>4. CASE World
  BY <1>4, GrowingWorld
<1>5. CASE \E s \in Sources : GraceEnds(s)
  BY <1>2, <1>5 DEF GraceEnds
<1>6. CASE StartReconcile
  <2>1. /\ files' = files /\ log' = log /\ settled' = settled /\ missing' = missing
        /\ round' = [kind |-> "reconcile",
                     todo |-> IF enabled THEN Present ELSE {},
                     seen |-> IF enabled THEN Present ELSE Sources,
                     absent |-> {}]
    BY <1>6 DEF StartReconcile
  <2>2. ASSUME NEW s \in Sources, Took(log, s) \/ s \in round'.todo
        PROVE  s \in round'.seen
    <3>1. CASE files[s] = Gone
      <4>1. NoneOf(log, s)
        BY <3>1 DEF GrowingOK, GrowsOK
      <4>2. ~Took(log, s)
        BY <1>1, <4>1, NoneThere DEF TypeOK
      <4> QED
        BY <2>1, <2>2, <4>2 DEF Present
    <3>2. CASE files[s] # Gone
      BY <2>1, <3>2 DEF Present
    <3> QED
      BY <3>1, <3>2
  <2> QED
    BY <2>1, <2>2 DEF GrowingOK
<1>7. CASE StartTick
  <2>1. UNCHANGED <<files, log, settled>> /\ missing' = missing /\ round'.kind = "tick"
    BY <1>7 DEF StartTick
  <2> QED
    BY <2>1, GrowingStill
<1>8. CASE RepairFails \/ EndRound
  <2>1. UNCHANGED <<files, log, settled>> /\ missing' = missing
        /\ (round' = round \/ round' = Idle)
    BY <1>8 DEF RepairFails, EndRound, memory
  <2>2. round' = round \/ round'.kind # "reconcile"
    BY <2>1 DEF Idle
  <2> QED
    BY <2>1, <2>2, GrowingStill
<1>9. ASSUME NEW s \in Sources, NEW ok \in BOOLEAN, ReconcileStep(s, ok)
      PROVE  GrowingOK'
  <2>1. /\ up /\ round.kind = "reconcile" /\ s \in round.todo
        /\ missing' = [missing EXCEPT ![s] = "no"]
        /\ round' = [round EXCEPT !.todo = @ \ {s}]
        /\ settled' = IF ok THEN settled \cup {s} ELSE settled
        /\ files' = files
        /\ IF files[s] = Gone THEN ~ok /\ log' = log
           ELSE ReconcileSource(s, missing[s] = "retracted", ok)
    BY <1>9 DEF ReconcileStep
  <2>2. (missing[s] = "retracted") = FALSE
    BY <1>2
  <2>3. IF files[s] = Gone THEN ~ok /\ log' = log ELSE ReconcileSource(s, FALSE, ok)
    BY <2>1, <2>2
  <2>4. \A x \in Sources : missing'[x] = "no"
    BY <1>1, <1>2, <2>1 DEF TypeOK
  <2>5. \A x \in settled' : x \in settled \/ (x = s /\ ok /\ round.kind = "reconcile")
    BY <2>1
  <2> QED
    BY <1>1, <2>1, <2>3, <2>4, <2>5, GrowingVisits
<1>10. ASSUME NEW s \in Sources, NEW ok \in BOOLEAN, TickStep(s, ok)
       PROVE  GrowingOK'
  <2>1. /\ up /\ s \in round.todo
        /\ round' = [round EXCEPT !.todo = @ \ {s}]
        /\ missing' = missing /\ settled' = settled /\ files' = files
        /\ IF files[s] = Gone THEN ~ok /\ log' = log ELSE ReconcileSource(s, FALSE, ok)
    BY <1>10 DEF TickStep
  <2>2. \A x \in Sources : missing'[x] = "no"
    BY <1>2, <2>1
  <2>3. \A x \in settled' : x \in settled \/ (x = s /\ ok /\ round.kind = "reconcile")
    BY <2>1
  <2> QED
    BY <1>1, <2>1, <2>2, <2>3, GrowingVisits
<1>11. ASSUME NEW s \in Sources, LooksAt(s)
       PROVE  FALSE
  BY <1>1, <1>11, GrowingMissesNone DEF LooksAt
<1>12. CASE Steps
  BY <1>9, <1>10, <1>11, <1>12 DEF Steps, NoticeMissing, RetractMissing
<1>13. CASE Kill
  <2>1. UNCHANGED <<files, log, settled>> /\ missing' = [s \in Sources |-> "no"]
        /\ round'.kind # "reconcile"
    BY <1>13 DEF Kill, Forgets, Idle
  <2> QED
    BY <2>1, GrowingStill
<1>14. CASE KillInBatch
  <2>1. /\ up /\ files' = files /\ settled' = settled /\ round'.kind # "reconcile"
        /\ missing' = [s \in Sources |-> "no"]
    BY <1>14 DEF KillInBatch, Forgets, Idle
  <2>2. PICK s \in Sources : \E n \in 1..Len(BatchOf(s)) :
               log' = log \o SubSeq(BatchOf(s), 1, n)
    BY <1>14 DEF KillInBatch
  <2>3. PICK n \in 1..Len(BatchOf(s)) : log' = log \o SubSeq(BatchOf(s), 1, n)
    BY <2>2
  <2>4. (round.kind = "reconcile" /\ missing[s] = "retracted") = FALSE
    BY <1>2
  <2>5. CASE s \in round.todo /\ files[s] # Gone /\ ~NothingNew(s, FALSE)
    <3>1. BatchOf(s) = Batch(s, FALSE)
      BY <2>4, <2>5 DEF BatchOf
    <3>2. n \in 1..Len(Batch(s, FALSE)) /\ log' = log \o SubSeq(Batch(s, FALSE), 1, n)
      BY <2>3, <3>1
    <3>3. \A x \in Sources : missing'[x] = "no"
      BY <2>1
    <3>4. \A x \in settled' : x \in settled \/ (x = s /\ n = Len(Batch(s, FALSE)))
      BY <2>1
    <3>5. Knows
      BY <1>1, <2>1, Knowing
    <3> QED
      BY <1>1, <2>1, <2>5, <3>2, <3>3, <3>4, <3>5, GrowingAppends
  <2>6. CASE ~(s \in round.todo /\ files[s] # Gone /\ ~NothingNew(s, FALSE))
    <3>1. ~(round.kind = "reconcile" /\ s \in Unseen)
      BY <1>1, <2>1, GrowingMissesNone
    <3>2. BatchOf(s) = <<>>
      BY <2>4, <2>6, <3>1 DEF BatchOf
    <3>3. n \in 1..0
      BY <2>3, <3>2
    <3> QED
      BY <3>3
  <2> QED
    BY <2>5, <2>6
<1>15. CASE Opens
  <2>1. UNCHANGED <<files, log, settled, missing, round>>
    BY <1>15 DEF Opens, Restart, RestartRebuilds
  <2> QED
    BY <2>1, GrowingStill
<1> QED
  BY <1>3, <1>4, <1>5, <1>6, <1>7, <1>8, <1>12, <1>13, <1>14, <1>15 DEF Next

-----------------------------------------------------------------------------
(* Where the writer remembers.                                             *)

\* A source that the step is not about.
LEMMA OtherSource ==
  ASSUME TypeOK, NEW x \in Sources, SourceOK(x),
         log' = log \/ \E u \in Seq(Records) : Foreign(u, x) /\ log' = log \o u,
         files'[x] = files[x], missing'[x] = missing[x], x \in settled' => x \in settled,
         \/ round'.kind # "reconcile"
         \/ /\ round.kind = "reconcile" /\ x \in round'.todo => x \in round.todo
            /\ round.kind = "reconcile" /\ round'.seen = round.seen
  PROVE  SourceOK(x)'
<1>1. log \in Seq(Records)
  BY DEF TypeOK
<1>2. /\ \A mark : Remembers(log, x, mark) => Remembers(log', x, mark)
      /\ \A f : UpToDate(log, x, f) => UpToDate(log', x, f)
      /\ Took(log', x) <=> Took(log, x)
      /\ AllRetired(log, x) => AllRetired(log', x)
  <2>1. CASE log' = log
    BY <2>1
  <2>2. ASSUME NEW u \in Seq(Records), Foreign(u, x), log' = log \o u
        PROVE  /\ \A mark : Remembers(log, x, mark) => Remembers(log', x, mark)
               /\ \A f : UpToDate(log, x, f) => UpToDate(log', x, f)
               /\ Took(log', x) <=> Took(log, x)
               /\ AllRetired(log, x) => AllRetired(log', x)
    BY <1>1, <2>2, ForeignRest
  <2> QED
    BY <2>1, <2>2
<1>3. Remembers(log', x, missing'[x])
  BY <1>2 DEF SourceOK
<1>4. ~Took(log', x) => missing'[x] = "no" /\ x \notin settled'
  BY <1>2 DEF SourceOK
<1>5. x \in settled' /\ files'[x] = Gone => AllRetired(log', x) /\ missing'[x] = "retracted"
  BY <1>2 DEF SourceOK
<1>6. x \in settled' /\ files'[x] # Gone =>
        UpToDate(log', x, files'[x]) /\ missing'[x] = "no"
        /\ (round'.kind = "reconcile" => x \in round'.seen)
  BY <1>2 DEF SourceOK
<1>7. round'.kind = "reconcile" /\ x \in round'.todo =>
        x \in round'.seen /\ (files'[x] = Gone => missing'[x] # "retracted")
  BY DEF SourceOK
<1> QED
  BY <1>3, <1>4, <1>5, <1>6, <1>7 DEF SourceOK

\* The batch of a source, and what the log then says of it.
LEMMA RemembersByBatch ==
  ASSUME TypeOK, Knows, OwnLines(log), SessionsApart,
         NEW s \in Sources, files[s] # Gone, NEW force \in BOOLEAN,
         NEW mark, Remembers(log, s, mark), NEW u, u = Batch(s, force)
  PROVE  /\ u \in Seq(Records) /\ OwnLines(u) /\ \A x : x # s => Foreign(u, x)
         /\ Took(log \o u, s)
         /\ UpToDate(log \o u, s, files[s])
         /\ NoneBeyond(log \o u, s, GenOf(log \o u, s))
         /\ OldRetired(log \o u, s, GenOf(log \o u, s))
         /\ mark # "retracted" \/ force => Stands(log \o u, s)
<1> DEFINE f == files[s]
           g == GenerationFor(s, force)
           w == log \o u
           m == Len(Batch(s, force))
<1>1. /\ Known(s) <=> Took(log, s)
      /\ Known(s) => sources[s].gen = GenOf(log, s) /\ sources[s].snap = SnapOf(log, s)
  BY DEF Knows, Known, Took, GenOf, SnapOf
<1>2. log \in Seq(Records) /\ f \in Snapshots
  BY ContentFacts DEF TypeOK
<1>3. m \in 1..Len(Batch(s, force)) /\ u = SubSeq(Batch(s, force), 1, m)
      /\ m = Len(Batch(s, force))
  BY WholeBatch
<1>4. Completed(f) \in Nat
  BY <1>2, SnapshotFacts
<1>5. ASSUME Known(s)
      PROVE  /\ GenOf(log, s) \in Gens /\ SnapOf(log, s) \in Snapshots
             /\ NoneBeyond(log, s, GenOf(log, s)) /\ OldRetired(log, s, GenOf(log, s))
             /\ mark # "retracted" => Stands(log, s)
             /\ g = IF Grew(s, force) THEN GenOf(log, s) ELSE GenOf(log, s) + 1
             /\ Before(s) = GenOf(log, s)
  BY <1>1, <1>2, <1>5, TookTypes DEF Remembers, GenerationFor, Before
<1>6. ASSUME ~Known(s)
      PROVE  NoneOf(log, s) /\ g = 1 /\ Before(s) = 1 /\ ~Grew(s, force)
  BY <1>1, <1>6 DEF Remembers, GenerationFor, Before, Grew
<1>7. NoneBeyond(log, s, g) /\ OldRetired(log, s, Before(s))
  <2>1. CASE Known(s) /\ Grew(s, force)
    BY <1>5, <2>1
  <2>2. CASE Known(s) /\ ~Grew(s, force)
    <3>1. g = GenOf(log, s) + 1
      BY <1>5, <2>2
    <3>2. NoneBeyond(log, s, GenOf(log, s) + 1)
      BY <1>2, <1>5, <2>2, NextIsEmpty
    <3> QED
      BY <1>5, <2>2, <3>1, <3>2
  <2>3. CASE ~Known(s)
    BY <1>2, <1>6, <2>3, NoneThere
  <2> QED
    BY <2>1, <2>2, <2>3
<1>8. /\ u \in Seq(Records) /\ OwnLines(u) /\ \A x : x # s => Foreign(u, x)
      /\ NoneBeyond(w, s, g) /\ Took(w, s) /\ GenOf(w, s) = g /\ SnapOf(w, s) = f
      /\ OldRetired(w, s, g)
  BY <1>3, <1>7, BatchKeeps
<1>9. UpToDate(w, s, f)
  BY <1>8 DEF UpToDate
<1>10. ASSUME mark # "retracted" \/ force
       PROVE  Stands(w, s)
  <2>1. \E n \in 0..Completed(f) :
          /\ Recorded(log, s, g, f.lines, n)
          /\ Grew(s, force) => Completed(sources[s].snap) <= n
    <3>1. CASE Grew(s, force)
      <4> DEFINE c == SnapOf(log, s)
      <4>1. Known(s) /\ ~force /\ IsAppend(sources[s].snap, f)
        BY <3>1 DEF Grew
      <4>2. c \in Snapshots /\ IsAppend(c, f) /\ g = GenOf(log, s) /\ Stands(log, s)
        BY <1>1, <1>5, <1>10, <3>1, <4>1
      <4>3. Recorded(log, s, g, c.lines, Completed(c))
        BY <4>2 DEF Stands
      <4> HIDE DEF c, f, g
      <4>4. /\ Completed(c) \in Nat /\ Completed(c) <= Completed(f)
            /\ \A i \in 1..Completed(c) : c.lines[i] = f.lines[i]
        BY <1>2, <4>2, AppendFacts
      <4>5. Recorded(log, s, g, f.lines, Completed(c))
        BY <4>3, <4>4, RecordedOf
      <4>6. Completed(c) \in 0..Completed(f) /\ Completed(c) <= Completed(c)
        BY <1>4, <4>4
      <4>7. sources[s].snap = c
        BY <1>1, <4>1 DEF c
      <4> QED
        BY <4>5, <4>6, <4>7
    <3>2. CASE ~Grew(s, force)
      <4>1. EventsOf(log, s, g) = {}
        <5>1. CASE Known(s)
          <6>1. g = GenOf(log, s) + 1
            BY <1>5, <3>2, <5>1
          <6>2. EventsOf(log, s, GenOf(log, s) + 1) = {}
            BY <1>2, <1>5, <5>1, NextIsEmpty
          <6> QED
            BY <6>1, <6>2
        <5>2. CASE ~Known(s)
          BY <1>2, <1>6, <5>2, NoneThere
        <5> QED
          BY <5>1, <5>2
      <4>2. Recorded(log, s, g, f.lines, 0)
        BY <4>1, NothingRecorded
      <4> QED
        BY <1>4, <3>2, <4>2
    <3> QED
      BY <3>1, <3>2
  <2>2. ControlsOf(log, s, g) = {}
    <3>1. CASE Grew(s, force)
      <4>1. Known(s) /\ ~force
        BY <3>1 DEF Grew
      <4> QED
        BY <1>5, <1>10, <3>1, <4>1 DEF Stands
    <3>2. CASE Known(s) /\ ~Grew(s, force)
      <4>1. g = GenOf(log, s) + 1
        BY <1>5, <3>2
      <4>2. ControlsOf(log, s, GenOf(log, s) + 1) = {}
        BY <1>2, <1>5, <3>2, NextIsEmpty
      <4> QED
        BY <4>1, <4>2
    <3>3. CASE ~Known(s)
      BY <1>2, <1>6, <3>3, NoneThere
    <3> QED
      BY <3>1, <3>2, <3>3
  <2>3. PICK n \in 0..Completed(f) :
          /\ Recorded(log, s, g, f.lines, n)
          /\ Grew(s, force) => Completed(sources[s].snap) <= n
    BY <2>1
  <2>4. /\ ControlsOf(w, s, g) = {}
        /\ \E k \in n..Completed(f) :
             Recorded(w, s, g, f.lines, k) /\ (m = Len(Batch(s, force)) => k = Completed(f))
    BY <1>3, <2>2, <2>3, BatchRecorded
  <2>5. Recorded(w, s, g, f.lines, Completed(f))
    BY <1>3, <2>4
  <2> HIDE DEF w, f, g
  <2> QED
    BY <1>8, <2>4, <2>5 DEF Stands
<1> QED
  BY <1>8, <1>9, <1>10

\* A retraction hides all that its source has.
LEMMA RemembersByControl ==
  ASSUME TypeOK, NEW s \in Sources, NEW mark, Remembers(log, s, mark), Took(log, s),
         NEW u, u = <<Visibility(s, GenOf(log, s))>>
  PROVE  /\ u \in Seq(Records) /\ OwnLines(u) /\ \A x : x # s => Foreign(u, x)
         /\ Took(log \o u, s) /\ Remembers(log \o u, s, "retracted")
         /\ AllRetired(log \o u, s)
<1> DEFINE g == GenOf(log, s)
           w == log \o u
<1>1. log \in Seq(Records)
  BY DEF TypeOK
<1>2. g \in Gens
  BY <1>1, TookTypes
<1>3. /\ u \in Seq(Records) /\ OwnLines(u) /\ \A x : x # s => Foreign(u, x)
      /\ DOMAIN CheckpointsIn(u) = {} /\ \A new : IsPiece(u, s, g, g, new, 1, 0)
      /\ 1 \in ControlsOf(u, s, g)
  BY <1>2, ControlIs
<1>4. NoneBeyond(log, s, g) /\ OldRetired(log, s, g)
  BY DEF Remembers
<1>5. /\ Took(w, s) /\ GenOf(w, s) = g
  <2> DEFINE K == CheckpointsIn(log)
             N == CheckpointsIn(u)
  <2>1. CheckpointsIn(w) =
          [x \in DOMAIN K \cup DOMAIN N |-> IF x \in DOMAIN N THEN N[x] ELSE K[x]]
    BY <1>1, <1>3, CheckpointsJoined
  <2>2. s \in DOMAIN K /\ DOMAIN N = {} /\ g = K[s].gen
    BY <1>3 DEF Took, GenOf
  <2> HIDE DEF K, N, w, g
  <2> QED
    BY <2>1, <2>2 DEF Took, GenOf
<1> HIDE DEF g, w
<1>6. NoneBeyond(w, s, g) /\ OldRetired(w, s, g)
  <2>1. 1 \in 0..1 /\ 0 \in Nat /\ g <= g
    BY <1>2 DEF Gens
  <2>2. IsPiece(u, s, g, g, <<>>, 1, 0)
    BY <1>3
  <2> QED
    BY <1>1, <1>2, <1>3, <1>4, <2>1, <2>2, PieceControls DEF w
<1>7. ASSUME NEW i \in OfKind(w, "event"), w[i].src = s
      PROVE  Retired(w, i)
  <2>1. w \in Seq(Records) /\ i \in 1..Len(w)
    BY <1>1, <1>3, Joined DEF w, OfKind
  <2>2. w[i] \in Records
    BY <2>1
  <2>3. w[i].gen \in Nat /\ g \in Nat
    BY <1>2, <2>2, RecordFields DEF Gens
  <2>4. w[i].gen <= g
    BY <1>6, <1>7 DEF NoneBeyond, OfKind
  <2>5. CASE w[i].gen < g
    BY <1>6, <1>7, <2>5 DEF OldRetired
  <2>6. CASE w[i].gen = g
    <3>1. Behind(log, 1) \in ControlsOf(w, s, g)
      BY <1>1, <1>3, ControlsJoined DEF w
    <3>2. i < Behind(log, 1)
      <4>1. Joins(log, u, "event")
        BY <1>1, <1>3, KindsJoined
      <4>2. OfKind(u, "event") = {}
        <5>1. IsPiece(u, s, g, g, <<>>, 1, 0)
          BY <1>3
        <5> QED
          BY <5>1 DEF IsPiece
      <4>3. i \in OfKind(log, "event")
        BY <1>7, <4>1, <4>2 DEF Joins, w
      <4>4. i \in 1..Len(log) /\ Len(log) \in Nat
        BY <1>1, <4>3 DEF OfKind
      <4> QED
        BY <4>4 DEF Behind
    <3> QED
      BY <1>7, <2>6, <3>1, <3>2 DEF Retired
  <2> QED
    BY <2>3, <2>4, <2>5, <2>6
<1>8. AllRetired(w, s)
  BY <1>7 DEF AllRetired
<1>9. Remembers(w, s, "retracted")
  BY <1>5, <1>6 DEF Remembers
<1> QED
  BY <1>3, <1>5, <1>8, <1>9 DEF w

\* Steps of the harness and the user.
LEMMA RememberingWorld ==
  ASSUME Inv, RememberingOK, World, Remembering'
  PROVE  RememberingOK'
<1>1. TypeOK /\ log \in Seq(Records) /\ DOMAIN files = Sources
  BY Parts DEF TypeOK
<1>2. ASSUME NEW s \in Sources, NEW c, Changes(s, c), c = Gone => missing[s] # "retracted"
      PROVE  RememberingOK'
  <2>1. /\ files' = [files EXCEPT ![s] = c] /\ settled' = settled \ {s}
        /\ log' = log /\ missing' = missing /\ round' = round /\ up' = up
    BY <1>2 DEF Changes, memory
  <2>2. ASSUME NEW x \in Sources
        PROVE  SourceOK(x)'
    <3>1. SourceOK(x)
      BY DEF RememberingOK
    <3>2. CASE x = s
      <4>1. files'[x] = c /\ x \notin settled'
        BY <1>1, <2>1, <3>2
      <4> QED
        BY <1>2, <2>1, <3>1, <3>2, <4>1 DEF SourceOK
    <3>3. CASE x # s
      <4>1. files'[x] = files[x] /\ (x \in settled' <=> x \in settled)
        BY <1>1, <2>1, <3>3
      <4> QED
        BY <1>1, <2>1, <3>1, <4>1 DEF SourceOK
    <3> QED
      BY <3>2, <3>3
  <2> QED
    BY <2>1, <2>2 DEF RememberingOK
<1>3. ASSUME NEW s \in Sources, HarnessCreates(s) \/ HarnessAppends(s) \/ HarnessRewrites(s)
      PROVE  RememberingOK'
  <2>1. PICK c \in ContentOf(s) : Changes(s, c)
    BY <1>3 DEF HarnessCreates, HarnessAppends, HarnessRewrites
  <2>2. c # Gone
    BY GoneAssumption
  <2> QED
    BY <1>2, <2>1, <2>2
<1>4. ASSUME NEW s \in Sources, HarnessDeletes(s)
      PROVE  RememberingOK'
  <2>1. /\ Changes(s, Gone)
        /\ past' = past \cup {"delete"}
                        \cup (IF missing[s] = "retracted" THEN {"fleeting"} ELSE {})
    BY <1>4 DEF HarnessDeletes
  <2>2. missing[s] # "retracted"
    BY <2>1 DEF Remembering
  <2> QED
    BY <1>2, <2>1, <2>2
<1>5. ASSUME Toggle
      PROVE  RememberingOK'
  <2>1. UNCHANGED <<files, log, settled, missing, round, up>>
    BY <1>5 DEF Toggle, memory
  <2> QED
    BY <2>1 DEF RememberingOK, SourceOK
<1> QED
  BY <1>3, <1>4, <1>5 DEF World

\* One source of a round, forced if it was retracted or not.
LEMMA RememberingVisits ==
  ASSUME Inv, OwnLines(log), SessionsApart, RememberingOK, "flush" \notin past,
         up', Remembering',
         NEW s \in Sources, s \in round.todo, NEW ok \in BOOLEAN, NEW force \in BOOLEAN,
         IF files[s] = Gone THEN ~ok /\ log' = log ELSE ReconcileSource(s, force, ok),
         files' = files, round' = [round EXCEPT !.todo = @ \ {s}],
         \/ /\ round.kind = "reconcile" /\ force = (missing[s] = "retracted")
            /\ missing' = [missing EXCEPT ![s] = "no"]
            /\ settled' = IF ok THEN settled \cup {s} ELSE settled
         \/ /\ round.kind # "reconcile" /\ force = FALSE
            /\ missing' = missing /\ settled' = settled
  PROVE  RememberingOK'
<1>1. TypeOK /\ Knows /\ log \in Seq(Records)
  BY Parts, Knowing DEF RememberingOK, TypeOK
<1>2. /\ round'.kind = round.kind /\ round'.seen = round.seen
      /\ round'.todo = round.todo \ {s}
  BY <1>1 DEF TypeOK
<1>3. SourceOK(s) /\ s \notin round'.todo
  BY <1>2 DEF RememberingOK
<1>4. round.kind = "reconcile" => s \in round.seen
  BY <1>3 DEF SourceOK
<1>5. missing[s] \in {"no", "since", "due", "retracted"} /\ DOMAIN missing = Sources
  BY <1>1 DEF TypeOK
<1>6. ASSUME \/ log' = log
             \/ \E u \in Seq(Records) : log' = log \o u /\ \A x : x # s => Foreign(u, x)
      PROVE  \A x \in Sources : x # s => SourceOK(x)'
  <2> SUFFICES ASSUME NEW x \in Sources, x # s
               PROVE  SourceOK(x)'
    OBVIOUS
  <2>1. SourceOK(x)
    BY DEF RememberingOK
  <2>2. log' = log \/ \E u \in Seq(Records) : Foreign(u, x) /\ log' = log \o u
    BY <1>6
  <2>3. files'[x] = files[x] /\ missing'[x] = missing[x] /\ (x \in settled' => x \in settled)
    BY <1>5
  <2>4. \/ round'.kind # "reconcile"
        \/ /\ round.kind = "reconcile" /\ x \in round'.todo => x \in round.todo
           /\ round.kind = "reconcile" /\ round'.seen = round.seen
    BY <1>2
  <2> QED
    BY <1>1, <2>1, <2>2, <2>3, <2>4, OtherSource
<1>7. ASSUME SourceOK(s)', \A x \in Sources : x # s => SourceOK(x)'
      PROVE  RememberingOK'
  BY <1>7 DEF RememberingOK
<1>8. CASE files[s] = Gone
  <2>1. ~ok /\ log' = log
    BY <1>8
  <2>2. SourceOK(s)'
    <3>1. CASE round.kind = "reconcile"
      <4>1. missing[s] # "retracted" /\ missing'[s] = "no" /\ settled' = settled
        BY <1>3, <1>5, <1>8, <2>1, <3>1 DEF SourceOK
      <4>2. s \notin settled
        BY <1>3, <1>8, <4>1 DEF SourceOK
      <4>3. Remembers(log, s, "no")
        BY <1>3, <4>1 DEF SourceOK, Remembers
      <4> QED
        BY <1>3, <1>8, <2>1, <4>1, <4>2, <4>3 DEF SourceOK
    <3>2. CASE round.kind # "reconcile"
      BY <1>2, <1>3, <1>8, <2>1, <3>2 DEF SourceOK
    <3> QED
      BY <3>1, <3>2
  <2> QED
    BY <1>6, <1>7, <2>1, <2>2
<1>9. CASE files[s] # Gone
  <2>1. ReconcileSource(s, force, ok)
    BY <1>9
  <2>2. CASE NothingNew(s, force) /\ log' = log
    <3>1. ~force /\ UpToDate(log, s, files[s]) /\ Took(log, s)
      <4>1. Known(s) <=> Took(log, s)
        BY Knowing DEF RememberingOK
      <4>2. Known(s) => sources[s].snap = SnapOf(log, s)
        BY Knowing DEF RememberingOK
      <4> QED
        BY <1>9, <2>2, <4>1, <4>2 DEF NothingNew, Grew, UpToDate
    <3>2. SourceOK(s)'
      <4>1. CASE round.kind = "reconcile"
        <5>1. missing[s] # "retracted" /\ missing'[s] = "no"
          BY <1>5, <3>1, <4>1
        <5>2. Remembers(log, s, "no")
          BY <1>3, <5>1 DEF SourceOK, Remembers
        <5> QED
          BY <1>2, <1>3, <1>4, <1>9, <2>2, <3>1, <4>1, <5>1, <5>2 DEF SourceOK
      <4>2. CASE round.kind # "reconcile"
        BY <1>2, <1>3, <1>9, <2>2, <4>2 DEF SourceOK
      <4> QED
        BY <4>1, <4>2
    <3> QED
      BY <1>6, <1>7, <2>2, <3>2
  <2>3. CASE log' = log /\ "append" \in past'
    BY <2>3 DEF Remembering
  <2>4. CASE log' = log \o Batch(s, force)
    <3> DEFINE u == Batch(s, force)
               w == log \o u
    <3>1. Remembers(log, s, missing[s])
      BY <1>3 DEF SourceOK
    <3>2. /\ u \in Seq(Records) /\ \A x : x # s => Foreign(u, x)
          /\ Took(w, s) /\ UpToDate(w, s, files[s])
          /\ NoneBeyond(w, s, GenOf(w, s)) /\ OldRetired(w, s, GenOf(w, s))
          /\ missing[s] # "retracted" \/ force => Stands(w, s)
      BY <1>1, <1>9, <3>1, RemembersByBatch
    <3>3. log' = w
      BY <2>4
    <3> HIDE DEF w
    <3>4. SourceOK(s)'
      <4>1. CASE round.kind = "reconcile"
        <5>1. missing'[s] = "no" /\ Stands(w, s)
          BY <1>5, <3>2, <4>1
        <5>2. Remembers(w, s, "no")
          BY <3>2, <5>1 DEF Remembers
        <5> QED
          BY <1>2, <1>3, <1>4, <1>9, <3>2, <3>3, <4>1, <5>1, <5>2 DEF SourceOK
      <4>2. CASE round.kind # "reconcile"
        <5>1. missing' = missing /\ settled' = settled
          BY <4>2
        <5>2. Remembers(w, s, missing[s])
          BY <3>2 DEF Remembers
        <5> QED
          BY <1>2, <1>3, <1>9, <3>2, <3>3, <4>2, <5>1, <5>2 DEF SourceOK
      <4> QED
        BY <4>1, <4>2
    <3>5. log' = log \o u /\ u \in Seq(Records) /\ \A x : x # s => Foreign(u, x)
      BY <2>4, <3>2
    <3> QED
      BY <1>6, <1>7, <3>4, <3>5
  <2> QED
    BY <2>1, <2>2, <2>3, <2>4, ReconcileOutcome
<1> QED
  BY <1>8, <1>9

\* A source that is missing.
LEMMA RememberingLooks ==
  ASSUME Inv, OwnLines(log), RememberingOK, "flush" \notin past,
         up', Remembering',
         NEW s \in Sources, NoticeMissing(s) \/ \E ok \in BOOLEAN : RetractMissing(s, ok)
  PROVE  RememberingOK'
<1>1. TypeOK /\ Knows /\ log \in Seq(Records)
  BY Parts, Knowing DEF RememberingOK, TypeOK
<1>2. LooksAt(s)
  BY DEF NoticeMissing, RetractMissing
<1>3. /\ round.kind = "reconcile" /\ files' = files
      /\ round' = [round EXCEPT !.absent = @ \cup {s}]
  BY <1>2 DEF LooksAt
<1>4. round'.kind = round.kind /\ round'.todo = round.todo /\ round'.seen = round.seen
  BY <1>1, <1>3 DEF TypeOK
<1>5. Known(s) /\ Took(log, s) /\ s \notin round.seen /\ sources[s].gen = GenOf(log, s)
  BY <1>2, Knowing DEF LooksAt, Unseen, Known, RememberingOK
<1>6. /\ SourceOK(s) /\ DOMAIN missing = Sources
      /\ missing[s] \in {"no", "since", "due", "retracted"}
  BY <1>1 DEF RememberingOK, TypeOK
<1>7. s \notin round.todo /\ (s \in settled => files[s] = Gone /\ missing[s] = "retracted")
  BY <1>3, <1>5, <1>6 DEF SourceOK
<1>8. ASSUME \/ log' = log
             \/ \E u \in Seq(Records) : log' = log \o u /\ \A x : x # s => Foreign(u, x),
             \A x \in Sources : x # s => missing'[x] = missing[x]
                                         /\ (x \in settled' => x \in settled)
      PROVE  \A x \in Sources : x # s => SourceOK(x)'
  <2> SUFFICES ASSUME NEW x \in Sources, x # s
               PROVE  SourceOK(x)'
    OBVIOUS
  <2>1. SourceOK(x)
    BY DEF RememberingOK
  <2>2. log' = log \/ \E u \in Seq(Records) : Foreign(u, x) /\ log' = log \o u
    BY <1>8
  <2> QED
    BY <1>1, <1>3, <1>4, <1>8, <2>1, <2>2, OtherSource
<1>9. CASE NoticeMissing(s)
  <2>1. /\ log' = log /\ settled' = settled
        /\ missing' = IF missing[s] = "no" THEN [missing EXCEPT ![s] = "since"] ELSE missing
    BY <1>9 DEF NoticeMissing
  <2>2. /\ missing'[s] = IF missing[s] = "no" THEN "since" ELSE missing[s]
        /\ \A x \in Sources : x # s => missing'[x] = missing[x]
    BY <1>6, <2>1
  <2>3. Remembers(log, s, missing'[s])
    BY <1>5, <1>6, <2>2 DEF SourceOK, Remembers
  <2>4. SourceOK(s)'
    BY <1>3, <1>4, <1>5, <1>6, <1>7, <2>1, <2>2, <2>3 DEF SourceOK
  <2>5. \A x \in Sources : x # s => SourceOK(x)'
    BY <1>8, <2>1, <2>2
  <2> QED
    BY <2>4, <2>5 DEF RememberingOK
<1>10. ASSUME NEW ok \in BOOLEAN, RetractMissing(s, ok)
       PROVE  RememberingOK'
  <2> DEFINE u == <<Visibility(s, GenOf(log, s))>>
             w == log \o u
  <2>1. /\ AppendProject(<<Visibility(s, sources[s].gen)>>, ok)
        /\ missing[s] = "due" /\ missing' = [missing EXCEPT ![s] = "retracted"]
        /\ settled' = IF ok /\ files[s] = Gone THEN settled \cup {s} ELSE settled
    BY <1>10 DEF RetractMissing
  <2>2. AppendProject(u, ok)
    BY <1>5, <2>1
  <2>3. log' = w
    BY <2>2, AppendOutcome DEF Remembering
  <2>4. /\ u \in Seq(Records) /\ \A x : x # s => Foreign(u, x)
        /\ Took(w, s) /\ Remembers(w, s, "retracted") /\ AllRetired(w, s)
    BY <1>1, <1>5, <1>6, RemembersByControl DEF SourceOK
  <2>5. s \notin settled
    BY <1>7, <2>1
  <2>6. /\ missing'[s] = "retracted" /\ (s \in settled' => files[s] = Gone)
        /\ \A x \in Sources : x # s => missing'[x] = missing[x]
                                       /\ (x \in settled' => x \in settled)
    BY <1>6, <2>1, <2>5
  <2>7. \A x \in Sources : x # s => SourceOK(x)'
    <3>1. \E v \in Seq(Records) : log' = log \o v /\ \A x : x # s => Foreign(v, x)
      BY <2>3, <2>4
    <3> QED
      BY <1>8, <2>6, <3>1
  <2> HIDE DEF u, w
  <2>8. SourceOK(s)'
    BY <1>3, <1>4, <1>7, <2>3, <2>4, <2>6 DEF SourceOK
  <2> QED
    BY <2>7, <2>8 DEF RememberingOK
<1> QED
  BY <1>9, <1>10

\* Every step of Next.
LEMMA RememberingStep ==
  ASSUME Inv, OwnLines(log), SessionsApart, RememberingOK, [Next]_vars,
         "flush" \notin past', Remembering'
  PROVE  RememberingOK'
<1>1. TypeOK /\ "flush" \notin past /\ up
  BY Parts, PastGrows DEF RememberingOK
<1>2. ASSUME UNCHANGED <<files, log, settled, missing>>, up',
             round' = round \/ round'.kind # "reconcile"
      PROVE  RememberingOK'
  <2>1. ASSUME NEW s \in Sources
        PROVE  SourceOK(s)'
    BY <1>2 DEF RememberingOK, SourceOK
  <2> QED
    BY <1>2, <2>1 DEF RememberingOK
<1>3. CASE UNCHANGED vars
  BY <1>1, <1>2, <1>3 DEF vars, memory
<1>4. CASE World
  BY <1>4, RememberingWorld
<1>5. ASSUME NEW s \in Sources, GraceEnds(s)
      PROVE  RememberingOK'
  <2>1. /\ missing[s] = "since" /\ missing' = [missing EXCEPT ![s] = "due"] /\ up' = up
        /\ UNCHANGED <<files, log, settled, round>>
    BY <1>5 DEF GraceEnds
  <2>2. ASSUME NEW x \in Sources
        PROVE  SourceOK(x)'
    <3>1. SourceOK(x)
      BY DEF RememberingOK
    <3>2. CASE x = s
      <4>1. missing[x] = "since" /\ missing'[x] = "due"
        BY <1>1, <2>1, <3>2 DEF TypeOK
      <4>2. Remembers(log, x, "due") /\ x \notin settled /\ Took(log, x)
        BY <3>1, <4>1 DEF SourceOK, Remembers
      <4> QED
        BY <2>1, <3>1, <4>1, <4>2 DEF SourceOK
    <3>3. CASE x # s
      <4>1. missing'[x] = missing[x]
        BY <1>1, <2>1, <3>3 DEF TypeOK
      <4> QED
        BY <2>1, <3>1, <4>1 DEF SourceOK
    <3> QED
      BY <3>2, <3>3
  <2> QED
    BY <1>1, <2>1, <2>2 DEF RememberingOK
<1>6. CASE StartReconcile
  <2>1. /\ files' = files /\ log' = log /\ settled' = settled /\ missing' = missing /\ up' = up
        /\ round' = [kind |-> "reconcile",
                     todo |-> IF enabled THEN Present ELSE {},
                     seen |-> IF enabled THEN Present ELSE Sources,
                     absent |-> {}]
    BY <1>6 DEF StartReconcile
  <2>2. ASSUME NEW s \in Sources
        PROVE  /\ files[s] # Gone => s \in round'.seen
               /\ s \in round'.todo => s \in round'.seen /\ files[s] # Gone
    BY <2>1 DEF Present
  <2>3. ASSUME NEW s \in Sources
        PROVE  SourceOK(s)'
    BY <2>1, <2>2 DEF RememberingOK, SourceOK
  <2> QED
    BY <1>1, <2>1, <2>3 DEF RememberingOK
<1>7. CASE StartTick
  <2>1. UNCHANGED <<files, log, settled, missing>> /\ up' = up /\ round'.kind = "tick"
    BY <1>7 DEF StartTick
  <2> QED
    BY <1>1, <1>2, <2>1
<1>8. CASE RepairFails \/ EndRound
  <2>1. UNCHANGED <<files, log, settled, missing>> /\ up' = up
        /\ (round' = round \/ round' = Idle)
    BY <1>8 DEF RepairFails, EndRound, memory
  <2>2. round' = round \/ round'.kind # "reconcile"
    BY <2>1 DEF Idle
  <2> QED
    BY <1>1, <1>2, <2>1, <2>2
<1>9. ASSUME NEW s \in Sources, NEW ok \in BOOLEAN, ReconcileStep(s, ok)
      PROVE  RememberingOK'
  <2> DEFINE force == missing[s] = "retracted"
  <2>1. /\ round.kind = "reconcile" /\ s \in round.todo /\ up' = up
        /\ missing' = [missing EXCEPT ![s] = "no"]
        /\ round' = [round EXCEPT !.todo = @ \ {s}]
        /\ settled' = IF ok THEN settled \cup {s} ELSE settled
        /\ files' = files
        /\ IF files[s] = Gone THEN ~ok /\ log' = log
           ELSE ReconcileSource(s, force, ok)
    BY <1>9 DEF ReconcileStep
  <2>2. force \in BOOLEAN /\ force = (missing[s] = "retracted")
    OBVIOUS
  <2> HIDE DEF force
  <2> QED
    BY <1>1, <2>1, <2>2, RememberingVisits
<1>10. ASSUME NEW s \in Sources, NEW ok \in BOOLEAN, TickStep(s, ok)
       PROVE  RememberingOK'
  <2>1. /\ round.kind # "reconcile" /\ s \in round.todo /\ up' = up
        /\ round' = [round EXCEPT !.todo = @ \ {s}]
        /\ missing' = missing /\ settled' = settled /\ files' = files
        /\ IF files[s] = Gone THEN ~ok /\ log' = log ELSE ReconcileSource(s, FALSE, ok)
    BY <1>10 DEF TickStep
  <2>2. FALSE \in BOOLEAN
    OBVIOUS
  <2> QED
    BY <1>1, <2>1, <2>2, RememberingVisits
<1>11. ASSUME NEW s \in Sources, NoticeMissing(s) \/ \E ok \in BOOLEAN : RetractMissing(s, ok)
       PROVE  RememberingOK'
  <2>1. up' = up
    BY <1>11 DEF NoticeMissing, RetractMissing, LooksAt
  <2> QED
    BY <1>1, <1>11, <2>1, RememberingLooks
<1>12. CASE Steps
  BY <1>9, <1>10, <1>11, <1>12 DEF Steps
<1>13. CASE Kill \/ KillInBatch
  <2>1. "kill" \in past' \/ "torn" \in past'
    BY <1>13 DEF Kill, KillInBatch, Fault, Happened
  <2> QED
    BY <2>1 DEF Remembering
<1>14. CASE Opens
  BY <1>1, <1>14 DEF Opens, Restart, RestartRebuilds
<1> QED
  BY <1>3, <1>4, <1>5, <1>6, <1>7, <1>8, <1>12, <1>13, <1>14 DEF Next

-----------------------------------------------------------------------------
(* Lines stay with their sources.                                          *)

\* Every part of a batch keeps to the lines of its source,
LEMMA BatchOwnLines ==
  ASSUME TypeOK, NEW s \in Sources, files[s] # Gone, NEW force \in BOOLEAN,
         NEW m \in 1..Len(Batch(s, force))
  PROVE  OwnLines(SubSeq(Batch(s, force), 1, m))
<1> DEFINE u == SubSeq(Batch(s, force), 1, m)
<1>1. PICK c \in 0..1, q \in 0..Len(NewLines(s, force)) : PartOf(u, m, s, force, c, q)
  BY PieceOfBatch
<1>2. ASSUME NEW i \in OfKind(u, "event")
      PROVE  u[i].line \in LinesAt[u[i].src]
  <2>1. IsPiece(u, s, Before(s), GenerationFor(s, force), NewLines(s, force), c, q)
    BY <1>1 DEF PartOf
  <2> HIDE DEF u
  <2>2. PICK r \in 1..q : u[i].line = NewLines(s, force)[r]
    BY <2>1 DEF IsPiece
  <2>3. Len(NewLines(s, force)) \in Nat
    BY NewLinesAre
  <2>4. r \in 1..Len(NewLines(s, force))
    BY <2>3
  <2>5. NewLines(s, force)[r] \in LinesAt[s]
    BY <2>4, NewLinesOwn
  <2>6. u[i].src = s
    BY <2>1 DEF IsPiece, OfKind
  <2> QED
    BY <2>2, <2>5, <2>6
<1> QED
  BY <1>2 DEF OwnLines

\* a control has none,
LEMMA ControlOwnLines ==
  ASSUME NEW s, NEW g
  PROVE  OwnLines(<<Visibility(s, g)>>)
BY DEF OwnLines, OfKind, Visibility

\* and so no step mixes the lines of sources.
LEMMA OwnLinesStep ==
  ASSUME Inv, OwnLines(log), [Next]_vars
  PROVE  OwnLines(log)'
<1>1. TypeOK /\ StoreOK /\ log \in Seq(Records)
  BY Parts DEF TypeOK
<1>2. ASSUME log' = log
      PROVE  OwnLines(log)'
  BY <1>2
<1>3. ASSUME NEW u, Acceptable(u), OwnLines(u), log' = log \o u \/ log' = log
      PROVE  OwnLines(log)'
  <2>1. u \in Seq(Records)
    BY <1>3 DEF Acceptable
  <2>2. OwnLines(log \o u)
    BY <1>1, <1>3, <2>1, OwnLinesJoined
  <2> QED
    BY <1>3, <2>2
<1>4. ASSUME NEW s \in Sources, files[s] # Gone, NEW force \in BOOLEAN, NEW ok \in BOOLEAN,
             ReconcileSource(s, force, ok)
      PROVE  OwnLines(log)'
  <2>1. log' = log \/ log' = log \o Batch(s, force)
    BY <1>4, ReconcileOutcome
  <2>2. OwnLines(Batch(s, force))
    <3>1. /\ Len(Batch(s, force)) \in 1..Len(Batch(s, force))
          /\ SubSeq(Batch(s, force), 1, Len(Batch(s, force))) = Batch(s, force)
      BY <1>1, <1>4, WholeBatch
    <3>2. OwnLines(SubSeq(Batch(s, force), 1, Len(Batch(s, force))))
      BY <1>1, <1>4, <3>1, BatchOwnLines
    <3> QED
      BY <3>1, <3>2
  <2> QED
    BY <1>1, <1>3, <1>4, <2>1, <2>2, BatchAcceptable
<1>5. CASE UNCHANGED vars
  BY <1>2, <1>5 DEF vars
<1>6. CASE World
  <2>1. ASSUME NEW s \in Sources, NEW c, Changes(s, c)
        PROVE  log' = log
    BY <2>1 DEF Changes
  <2> QED
    BY <1>2, <1>6, <2>1
       DEF World, HarnessCreates, HarnessAppends, HarnessRewrites, HarnessDeletes, Toggle
<1>7. CASE \E s \in Sources : GraceEnds(s)
  BY <1>2, <1>7 DEF GraceEnds
<1>8. CASE StartReconcile \/ StartTick \/ RepairFails \/ EndRound
  BY <1>2, <1>8 DEF StartReconcile, StartTick, RepairFails, EndRound
<1>9. CASE Steps
  <2>1. ASSUME NEW s \in Sources, NEW ok \in BOOLEAN, ReconcileStep(s, ok)
        PROVE  OwnLines(log)'
    <3>1. CASE files[s] = Gone
      BY <1>2, <2>1, <3>1 DEF ReconcileStep
    <3>2. CASE files[s] # Gone
      <4>1. ReconcileSource(s, missing[s] = "retracted", ok)
        BY <2>1, <3>2 DEF ReconcileStep
      <4>2. (missing[s] = "retracted") \in BOOLEAN
        OBVIOUS
      <4> QED
        BY <1>4, <3>2, <4>1, <4>2
    <3> QED
      BY <3>1, <3>2
  <2>2. ASSUME NEW s \in Sources, NEW ok \in BOOLEAN, TickStep(s, ok)
        PROVE  OwnLines(log)'
    <3>1. CASE files[s] = Gone
      BY <1>2, <2>2, <3>1 DEF TickStep
    <3>2. CASE files[s] # Gone
      <4>1. ReconcileSource(s, FALSE, ok) /\ FALSE \in BOOLEAN
        BY <2>2, <3>2 DEF TickStep
      <4> QED
        BY <1>4, <3>2, <4>1
    <3> QED
      BY <3>1, <3>2
  <2>3. ASSUME NEW s \in Sources, NEW ok \in BOOLEAN, RetractMissing(s, ok)
        PROVE  OwnLines(log)'
    <3> DEFINE u == <<Visibility(s, sources[s].gen)>>
    <3>1. LooksAt(s) /\ AppendProject(u, ok)
      BY <2>3 DEF RetractMissing
    <3>2. Known(s)
      BY <3>1 DEF LooksAt, Unseen, Known
    <3>3. sources[s].gen \in Gens
      BY <1>1, <3>2, GenerationType
    <3>4. Acceptable(u) /\ OwnLines(u)
      BY <3>3, ControlAcceptable, ControlOwnLines
    <3>5. log' = log \o u \/ log' = log
      BY <3>1, AppendOutcome
    <3> QED
      BY <1>3, <3>4, <3>5
  <2>4. ASSUME NEW s \in Sources, NoticeMissing(s)
        PROVE  OwnLines(log)'
    BY <1>2, <2>4 DEF NoticeMissing
  <2> QED
    BY <1>9, <2>1, <2>2, <2>3, <2>4 DEF Steps
<1>10. CASE Kill
  BY <1>2, <1>10 DEF Kill
<1>11. CASE KillInBatch
  <2>1. PICK s \in Sources : \E n \in 1..Len(BatchOf(s)) :
               log' = log \o SubSeq(BatchOf(s), 1, n)
    BY <1>11 DEF KillInBatch
  <2>2. PICK n \in 1..Len(BatchOf(s)) : log' = log \o SubSeq(BatchOf(s), 1, n)
    BY <2>1
  <2>3. Acceptable(SubSeq(BatchOf(s), 1, n))
    BY <1>1, BatchOfAcceptable, PrefixAcceptable
  <2> DEFINE force == round.kind = "reconcile" /\ missing[s] = "retracted"
  <2>4. CASE s \in round.todo /\ files[s] # Gone /\ ~NothingNew(s, force)
    <3>1. BatchOf(s) = Batch(s, force) /\ force \in BOOLEAN
      BY <2>4 DEF BatchOf
    <3> HIDE DEF force
    <3>2. OwnLines(SubSeq(BatchOf(s), 1, n))
      BY <1>1, <2>2, <2>4, <3>1, BatchOwnLines
    <3> QED
      BY <1>3, <2>2, <2>3, <3>2
  <2>5. CASE /\ ~(s \in round.todo /\ files[s] # Gone /\ ~NothingNew(s, force))
             /\ round.kind = "reconcile" /\ round.todo = {}
             /\ s \in Unseen /\ missing[s] = "due"
    <3> DEFINE u == <<Visibility(s, sources[s].gen)>>
    <3>1. BatchOf(s) = u
      BY <2>5 DEF BatchOf
    <3>2. OwnLines(u) /\ Len(u) = 1
      BY ControlOwnLines
    <3>3. u \in Seq(Records)
      BY <1>1, <3>1, BatchOfAcceptable DEF Acceptable
    <3> HIDE DEF u
    <3>4. n = 1
      BY <2>2, <3>1, <3>2
    <3>5. SubSeq(u, 1, n) = u
      BY <3>2, <3>3, <3>4
    <3> QED
      BY <1>3, <2>2, <2>3, <3>1, <3>2, <3>5
  <2>6. CASE /\ ~(s \in round.todo /\ files[s] # Gone /\ ~NothingNew(s, force))
             /\ ~(/\ round.kind = "reconcile" /\ round.todo = {}
                  /\ s \in Unseen /\ missing[s] = "due")
    <3>1. BatchOf(s) = <<>>
      BY <2>6 DEF BatchOf
    <3>2. n \in 1..0
      BY <2>2, <3>1
    <3> QED
      BY <3>2
  <2> QED
    BY <2>4, <2>5, <2>6
<1>12. CASE Opens
  BY <1>2, <1>12 DEF Opens, Restart, RestartRebuilds
<1> QED
  BY <1>5, <1>6, <1>7, <1>8, <1>9, <1>10, <1>11, <1>12 DEF Next

-----------------------------------------------------------------------------
(* The theorem.                                                            *)

\* An empty log records what is in no file.
LEMMA SearchBegins == Init => SearchInv
<1> SUFFICES ASSUME Init
             PROVE  SearchInv
  OBVIOUS
<1>1. log = <<>> /\ log \in Seq(Records) /\ DOMAIN log = {}
  BY DEF Init
<1>2. OwnLines(log)
  BY <1>1 DEF OwnLines, OfKind
<1>3. /\ \A s \in Sources : files[s] = Gone /\ missing[s] = "no"
      /\ settled = {} /\ up /\ round.kind # "reconcile"
  BY DEF Init, Idle
<1>4. \A s : NoneOf(log, s)
  BY <1>1 DEF NoneOf
<1>5. \A s : ~Took(log, s)
  BY <1>1, <1>4, NoneThere
<1>6. GrowingOK
  BY <1>3, <1>4 DEF GrowingOK, GrowsOK
<1>7. RememberingOK
  BY <1>3, <1>4, <1>5 DEF RememberingOK, SourceOK, Remembers
<1> QED
  BY <1>2, <1>6, <1>7 DEF SearchInv

\* The invariant is inductive, together with Inv.
LEMMA SearchContinues ==
  ASSUME SessionsApart, Inv, SearchInv, [Next]_vars
  PROVE  SearchInv'
<1>1. OwnLines(log) /\ OwnLines(log)'
  BY OwnLinesStep DEF SearchInv
<1>2. past \subseteq past'
  BY PastGrows
<1>3. ASSUME "flush" \notin past', Growing'
      PROVE  GrowingOK'
  <2>1. "flush" \notin past /\ Growing
    BY <1>2, <1>3 DEF Growing
  <2>2. GrowingOK
    BY <2>1 DEF SearchInv
  <2> QED
    BY <1>1, <1>3, <2>2, GrowingStep
<1>4. ASSUME "flush" \notin past', Remembering'
      PROVE  RememberingOK'
  <2>1. "flush" \notin past /\ Remembering
    BY <1>2, <1>4 DEF Remembering
  <2>2. RememberingOK
    BY <2>1 DEF SearchInv
  <2> QED
    BY <1>1, <1>4, <2>2, RememberingStep
<1> QED
  BY <1>1, <1>3, <1>4 DEF SearchInv

\* What a search finds is what the log shows of each source.
LEMMA FoundIsShown ==
  ASSUME Inv, SidecarExact, NoDuplicateEvents, sidecar.built = Len(log)
  PROVE  Found = UNION {Shown(log, s) : s \in Sources}
<1>1. log \in Seq(Records)
  BY Parts DEF StoreOK
<1>2. SubSeq(log, 1, Len(log)) = log
  BY <1>1
<1>3. sidecar.rows = Projection(log)
  BY <1>2 DEF SidecarExact
<1>4. Distinct(log)
  BY DEF Distinct, NoDuplicateEvents
<1>5. Found = {log[i].line : i \in Showing(log)}
  BY <1>1, <1>3, <1>4, ActiveRows DEF Found
<1>6. \A i \in Showing(log) : log[i].src \in Sources
  <2>1. \A i \in Showing(log) : log[i] \in Records
    BY <1>1 DEF Showing, OfKind
  <2> QED
    BY <2>1, RecordFields
<1>7. ASSUME NEW l
      PROVE  l \in {log[i].line : i \in Showing(log)}
             <=> \E s \in Sources : l \in Shown(log, s)
  BY <1>6 DEF Shown
<1> QED
  BY <1>5, <1>7

\* It gives the property: a search that rests on the whole log finds, of each
\* source, the last revisions in its file.
LEMMA SearchShows ==
  ASSUME Inv, SearchInv, SidecarExact
  PROVE  SearchSurvives
<1> SUFFICES ASSUME SessionsApart, Undamaged, up, round = Idle, ~degraded,
                    sidecar.built = Len(log), \A s \in Sources : Settled(s)
             PROVE  Found = Expected
  BY DEF SearchSurvives, SearchMatchesSources
<1>1. "flush" \notin past /\ (Growing \/ Remembering)
  BY DEF Undamaged, Growing, Remembering
<1>2. TypeOK /\ log \in Seq(Records) /\ NoDuplicateEvents
  BY <1>1, Parts DEF Inv, NoDuplicatesUnlessFlushFails, TypeOK
<1>3. \A s : Known(s) <=> Took(log, s)
  BY <1>1, Knowing
<1>4. ASSUME NEW s \in Sources
      PROVE  Shown(log, s) = IF files[s] = Gone THEN {} ELSE Latest(files[s])
  <2> DEFINE f == files[s]
             g == GenOf(log, s)
  <2>1. Settled(s)
    OBVIOUS
  <2>2. ASSUME AllRetired(log, s)
        PROVE  Shown(log, s) = {}
    BY <1>2, <2>2, ShowsNothing
  <2>3. ASSUME f # Gone, Took(log, s), Recorded(log, s, g, f.lines, Completed(f)),
               ControlsOf(log, s, g) = {}, NoneBeyond(log, s, g), OldRetired(log, s, g)
        PROVE  Shown(log, s) = Latest(f)
    <3>1. f \in ContentOf(s)
      BY <1>2, <2>3 DEF TypeOK
    <3>2. f.lines \in Seq(Lines) /\ Injective(f.lines) /\ Completed(f) \in 0..Len(f.lines)
      BY <3>1, ContentFacts
    <3>3. g \in Nat
      BY <1>2, <2>3, TookTypes
    <3>4. \A i, j \in 1..Completed(f) : f.lines[i] = f.lines[j] => i = j
      <4>1. DOMAIN f.lines = 1..Len(f.lines)
        BY <3>2
      <4> QED
        BY <3>2, <4>1 DEF Injective
    <3>5. ASSUME NEW i \in OfKind(log, "event"), log[i].src = s, log[i].gen # g
          PROVE  Retired(log, i)
      <4>1. log[i] \in Records
        BY <1>2 DEF OfKind
      <4>2. log[i].gen \in Nat
        BY <4>1, RecordFields DEF Gens
      <4>3. log[i].gen <= g
        BY <2>3, <3>5 DEF NoneBeyond, OfKind
      <4>4. log[i].gen < g
        BY <3>3, <3>5, <4>2, <4>3
      <4> QED
        BY <2>3, <3>5, <4>4 DEF OldRetired
    <3>6. Completed(f) \in Nat
      BY <3>2
    <3>7. Shown(log, s) = LatestOf(f.lines, Completed(f))
      BY <1>2, <2>3, <3>4, <3>5, <3>6, ShowsLatest
    <3> QED
      BY <3>7 DEF LatestOf, Latest
  <2>4. CASE Growing
    <3>1. GrowsOK(log, s, f) /\ (s \in settled => UpToDate(log, s, f))
      BY <1>1, <2>4 DEF SearchInv, GrowingOK
    <3>2. CASE f = Gone
      BY <1>2, <2>2, <3>1, <3>2, NoneThere DEF GrowsOK
    <3>3. CASE f # Gone
      <4>1. Grows(log, s, f) /\ UpToDate(log, s, f)
        BY <2>1, <3>1, <3>3 DEF GrowsOK, Settled
      <4>2. Took(log, s) /\ Same(log, s, f) /\ Current(log, s, f) = g
        BY <4>1 DEF UpToDate, Same, Current
      <4>3. PICK n \in 0..Completed(f) :
              Recorded(log, s, g, f.lines, n) /\ Completed(SnapOf(log, s)) <= n
        BY <4>1, <4>2 DEF Grows
      <4>4. n = Completed(f)
        <5>1. f \in ContentOf(s)
          BY <1>2, <3>3 DEF TypeOK
        <5>2. Completed(f) \in Nat
          BY <5>1, ContentFacts
        <5>3. SnapOf(log, s) \in Snapshots
          BY <1>2, <4>2, TookTypes
        <5>4. Completed(SnapOf(log, s)) \in Nat
          BY <5>3, SnapshotFacts
        <5>5. Completed(f) <= Completed(SnapOf(log, s))
          BY <4>1, <5>2 DEF UpToDate
        <5> HIDE DEF f
        <5> QED
          BY <4>3, <5>2, <5>4, <5>5
      <4> QED
        BY <2>3, <3>3, <4>1, <4>2, <4>3, <4>4 DEF Grows
    <3> QED
      BY <3>2, <3>3
  <2>5. CASE Remembering
    <3>1. SourceOK(s)
      BY <1>1, <2>5 DEF SearchInv, RememberingOK
    <3>2. CASE f = Gone
      <4>1. AllRetired(log, s)
        <5>1. CASE s \in settled
          BY <3>1, <3>2, <5>1 DEF SourceOK
        <5>2. CASE s \notin settled
          <6>1. ~Took(log, s)
            BY <1>3, <2>1, <5>2 DEF Settled
          <6>2. NoneOf(log, s)
            BY <3>1, <6>1 DEF SourceOK, Remembers
          <6> QED
            BY <1>2, <6>2, NoneThere
        <5> QED
          BY <5>1, <5>2
      <4> QED
        BY <2>2, <3>2, <4>1
    <3>3. CASE f # Gone
      <4>1. s \in settled /\ UpToDate(log, s, f) /\ missing[s] = "no"
        BY <2>1, <3>1, <3>3 DEF SourceOK, Settled
      <4>2. /\ Took(log, s) /\ NoneBeyond(log, s, g) /\ OldRetired(log, s, g)
            /\ ControlsOf(log, s, g) = {}
            /\ Recorded(log, s, g, SnapOf(log, s).lines, Completed(SnapOf(log, s)))
        BY <3>1, <4>1 DEF SourceOK, Remembers, UpToDate, Stands
      <4>3. Recorded(log, s, g, f.lines, Completed(f))
        <5>1. CASE SnapOf(log, s) = f
          BY <4>2, <5>1
        <5>2. CASE /\ IsAppend(SnapOf(log, s), f)
                   /\ Completed(f) <= Completed(SnapOf(log, s))
          <6> DEFINE c == SnapOf(log, s)
          <6>1. f \in Snapshots
            BY <1>2, <3>3, ContentFacts DEF TypeOK
          <6>2. c \in Snapshots
            BY <1>2, <4>2, TookTypes
          <6>3. Recorded(log, s, g, c.lines, Completed(c)) /\ IsAppend(c, f)
                /\ Completed(f) <= Completed(c)
            BY <4>2, <5>2
          <6> HIDE DEF c, f, g
          <6>4. /\ Completed(c) \in Nat /\ Completed(f) = Completed(c)
                /\ \A i \in 1..Completed(c) : c.lines[i] = f.lines[i]
            BY <6>1, <6>2, <6>3, AppendFacts
          <6>5. Recorded(log, s, g, f.lines, Completed(c))
            BY <6>3, <6>4, RecordedOf
          <6> QED
            BY <6>4, <6>5
        <5> QED
          BY <4>1, <5>1, <5>2 DEF UpToDate
      <4> QED
        BY <2>3, <3>3, <4>2, <4>3
    <3> QED
      BY <3>2, <3>3
  <2> QED
    BY <1>1, <2>4, <2>5
<1>5. Found = UNION {Shown(log, s) : s \in Sources}
  BY <1>2, FoundIsShown
<1>6. Expected = UNION {Latest(files[s]) : s \in Present}
  BY DEF Expected
<1>7. ASSUME NEW l
      PROVE  (\E s \in Sources : l \in Shown(log, s))
             <=> \E s \in Present : l \in Latest(files[s])
  BY <1>4 DEF Present
<1> QED
  BY <1>5, <1>6, <1>7

\* When the writer rests and every source was taken in, a search finds what
\* the files hold.
THEOREM Survival == Spec => []SearchSurvives
<1>1. CASE SessionsApart
  <2>1. Init => Inv /\ SidecarExact /\ SearchInv
    BY Begins, SearchBegins, SidecarBegins
  <2>2. Inv /\ SidecarExact /\ SearchInv /\ [Next]_vars => (Inv /\ SidecarExact /\ SearchInv)'
    BY <1>1, Continues, StaysExact, SearchContinues
  <2>3. Inv /\ SidecarExact /\ SearchInv => SearchSurvives
    BY SearchShows
  <2> QED
    BY <2>1, <2>2, <2>3, PTL DEF Spec
<1>2. CASE ~SessionsApart
  <2>1. SearchSurvives
    BY <1>2 DEF SearchSurvives
  <2> QED
    BY <2>1, PTL
<1> QED
  BY <1>1, <1>2
=============================================================================
