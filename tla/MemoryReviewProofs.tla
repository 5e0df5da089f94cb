------------------------- MODULE MemoryReviewProofs --------------------------
(***************************************************************************)
(* Proofs about MemoryReview for any memories, every choice of failures    *)
(* and every bound: the sidecar's table is the projection of the records   *)
(* it claims to have, L1 tells of no decision that was not due, and a      *)
(* decision taken with success stands.  What a table tells of the log it   *)
(* is the projection of is Reflects.                                       *)
(***************************************************************************)
EXTENDS MemoryReview, Numbers, SequenceTheorems, TLAPS

-----------------------------------------------------------------------------
(* Records and rows.                                                       *)

LEMMA RecordFacts ==
  ASSUME NEW r \in Records
  PROVE  /\ r.action \in Actions <=> r \in MemoryRecords
         /\ r \in MemoryRecords =>
              /\ r.memory \in Memories /\ r.revision \in {1, 2, 3}
              /\ r = MemoryRecord(r.memory, r.action, r.revision)
              /\ [revision |-> r.revision, status |-> StatusOf[r.action]] \in Rows
              /\ r.action = "candidate" <=> r.revision = 1
              /\ r.action = "approve" <=> r.revision = 2
              /\ r.action = "revoke" <=> r.revision = 3
<1>1. CASE r = Collected
  <2>1. r.action = "collect"
    BY <1>1 DEF Collected
  <2>2. r \notin MemoryRecords
    BY <2>1 DEF MemoryRecords, MemoryRecord
  <2> QED
    BY <2>1, <2>2 DEF Actions
<1>2. ASSUME NEW m \in Memories, r = MemoryRecord(m, "candidate", 1)
      PROVE  r.memory = m /\ r.action = "candidate" /\ r.revision = 1
  BY <1>2 DEF MemoryRecord
<1>3. ASSUME NEW m \in Memories, r = MemoryRecord(m, "approve", 2)
      PROVE  r.memory = m /\ r.action = "approve" /\ r.revision = 2
  BY <1>3 DEF MemoryRecord
<1>4. ASSUME NEW m \in Memories, r = MemoryRecord(m, "revoke", 3)
      PROVE  r.memory = m /\ r.action = "revoke" /\ r.revision = 3
  BY <1>4 DEF MemoryRecord
<1>5. /\ StatusOf["candidate"] = "candidate"
      /\ StatusOf["approve"] = "approved"
      /\ StatusOf["revoke"] = "revoked"
  BY DEF StatusOf
<1>6. CASE r \in MemoryRecords
  BY <1>2, <1>3, <1>4, <1>5, <1>6 DEF MemoryRecords, Rows, Actions
<1> QED
  BY <1>1, <1>6 DEF Records

\* The revision of a row tells its status.
LEMMA RowFacts ==
  /\ NoRow \in Rows /\ NoRow.revision = 0
  /\ \A row \in Rows : row.revision \in 0..3
  /\ \A row, other \in Rows : row.revision = other.revision => row = other
  /\ \A row \in Rows : row.status = "candidate" => row.revision = 1
  /\ \A row \in Rows : row.status = "approved" => row.revision = 2
BY DEF Rows, NoRow

-----------------------------------------------------------------------------
(* Projecting record by record.                                            *)

\* after is the table of ProjectAll's states up to n.
Table(rows, records, n, after) ==
  after = [i \in 0..n |->
             IF i = 0 THEN rows ELSE ProjectRecord(after[i - 1], records[i])]

LEMMA TableExists ==
  ASSUME NEW rows, NEW records
  PROVE  \A n \in Nat : \E after : Table(rows, records, n, after)
<1> DEFINE T == {n \in Nat : ~\E after : Table(rows, records, n, after)}
<1> SUFFICES ASSUME T # {}
             PROVE  FALSE
  OBVIOUS
<1>1. PICK n \in T : \A m \in T : n <= m
  BY LeastNumber
<1>2. n # 0
  <2>1. Table(rows, records, 0, [i \in 0..0 |-> rows])
    BY DEF Table
  <2> QED
    BY <2>1
<1>3. n - 1 \in Nat /\ n - 1 \notin T /\ n \in Nat
  BY <1>1, <1>2
<1>4. PICK g : Table(rows, records, n - 1, g)
  BY <1>3
<1> DEFINE h == [i \in 0..n |-> IF i = n THEN ProjectRecord(g[n - 1], records[n]) ELSE g[i]]
<1>5. ASSUME NEW i \in 0..n
      PROVE  h[i] = IF i = 0 THEN rows ELSE ProjectRecord(h[i - 1], records[i])
  <2>1. CASE i = n
    BY <1>2, <1>3, <2>1
  <2>2. CASE i # n
    <3>1. i \in 0..n - 1
      BY <1>3, <2>2
    <3>2. g[i] = IF i = 0 THEN rows ELSE ProjectRecord(g[i - 1], records[i])
      BY <1>4, <3>1 DEF Table
    <3>3. i # 0 => h[i - 1] = g[i - 1]
      BY <1>3, <3>1
    <3> QED
      BY <2>2, <3>2, <3>3
  <2> QED
    BY <2>1, <2>2
<1>6. Table(rows, records, n, h)
  BY <1>5 DEF Table
<1> QED
  BY <1>1, <1>6

\* Two tables agree as far as their records do.
LEMMA TablesAgree ==
  ASSUME NEW rows, NEW t, NEW u, NEW m \in Nat, NEW n \in Nat, NEW k \in Nat, k <= m, k <= n,
         \A i \in 1..k : t[i] = u[i],
         NEW g, Table(rows, t, m, g), NEW h, Table(rows, u, n, h)
  PROVE  g[k] = h[k]
<1> DEFINE T == {i \in 0..k : g[i] # h[i]}
<1> SUFFICES ASSUME T # {}
             PROVE  FALSE
  OBVIOUS
<1>1. T \subseteq Nat
  OBVIOUS
<1>2. PICK i \in T : \A j \in T : i <= j
  <2> HIDE DEF T
  <2> QED
    BY <1>1, LeastNumber
<1>3. i \in 0..k /\ i \in 0..m /\ i \in 0..n
  BY <1>2
<1>4. /\ g[i] = IF i = 0 THEN rows ELSE ProjectRecord(g[i - 1], t[i])
      /\ h[i] = IF i = 0 THEN rows ELSE ProjectRecord(h[i - 1], u[i])
  BY <1>3 DEF Table
<1>5. i # 0
  BY <1>2, <1>4
<1>6. i - 1 \in 0..k /\ i - 1 \notin T /\ i \in 1..k
  BY <1>2, <1>3, <1>5
<1>7. g[i - 1] = h[i - 1] /\ t[i] = u[i]
  BY <1>6
<1> QED
  BY <1>2, <1>4, <1>5, <1>7

LEMMA ProjectionTable ==
  ASSUME NEW rows, NEW records \in Seq(Records)
  PROVE  \E after : /\ Table(rows, records, Len(records), after)
                    /\ ProjectAll(rows, records) = after[Len(records)]
<1>1. \E after : Table(rows, records, Len(records), after)
  <2>1. Len(records) \in Nat
    OBVIOUS
  <2> QED
    BY <2>1, TableExists
<1> QED
  BY <1>1 DEF ProjectAll, Table

LEMMA ProjectNone ==
  ASSUME NEW rows
  PROVE  ProjectAll(rows, <<>>) = rows
<1>1. <<>> \in Seq(Records) /\ Len(<<>>) = 0
  OBVIOUS
<1>2. PICK after : Table(rows, <<>>, 0, after) /\ ProjectAll(rows, <<>>) = after[0]
  BY <1>1, ProjectionTable
<1> QED
  BY <1>2 DEF Table

LEMMA ProjectAppend ==
  ASSUME NEW rows, NEW records \in Seq(Records), NEW r \in Records
  PROVE  ProjectAll(rows, Append(records, r)) = ProjectRecord(ProjectAll(rows, records), r)
<1> DEFINE more == Append(records, r)
           n == Len(records)
<1>1. /\ n \in Nat /\ more \in Seq(Records) /\ Len(more) = n + 1
      /\ \A i \in 1..n : more[i] = records[i]
      /\ more[n + 1] = r
  BY AppendProperties
<1> HIDE DEF more, n
<1>2. PICK g : Table(rows, records, n, g) /\ ProjectAll(rows, records) = g[n]
  BY ProjectionTable DEF n
<1>3. PICK h : Table(rows, more, n + 1, h) /\ ProjectAll(rows, more) = h[n + 1]
  BY <1>1, ProjectionTable
<1>4. g[n] = h[n]
  <2>1. n <= n /\ n <= n + 1 /\ n + 1 \in Nat /\ \A i \in 1..n : records[i] = more[i]
    BY <1>1
  <2> QED
    BY <1>1, <1>2, <1>3, <2>1, TablesAgree
<1>5. h[n + 1] = ProjectRecord(h[n], more[n + 1])
  <2>1. n + 1 \in 0..(n + 1) /\ n + 1 # 0 /\ (n + 1) - 1 = n
    BY <1>1
  <2> QED
    BY <1>3, <2>1 DEF Table
<1> QED
  BY <1>1, <1>2, <1>3, <1>4, <1>5 DEF more

-----------------------------------------------------------------------------
(* What a table tells of the log it is the projection of.                  *)

\* Each of its rows is that of a record, and no record has a later revision.
Reflects(rows, records) ==
  /\ rows \in [Memories -> Rows]
  /\ \A m \in Memories : rows[m] # NoRow =>
       \E i \in 1..Len(records) :
         /\ records[i] \in MemoryRecords
         /\ records[i].memory = m /\ records[i].revision = rows[m].revision
  /\ \A i \in 1..Len(records) : records[i] \in MemoryRecords =>
       records[i].revision <= rows[records[i].memory].revision

LEMMA RecordReflected ==
  ASSUME NEW rows, NEW records \in Seq(Records), NEW r \in Records, Reflects(rows, records)
  PROVE  Reflects(ProjectRecord(rows, r), Append(records, r))
<1> DEFINE more == Append(records, r)
           n == Len(records)
           next == ProjectRecord(rows, r)
<1>1. /\ n \in Nat /\ Len(more) = n + 1
      /\ \A i \in 1..n : more[i] = records[i]
      /\ more[n + 1] = r
  BY AppendProperties
<1>2. \A i \in 1..(n + 1) : i \in 1..n \/ i = n + 1
  BY <1>1
<1>3. \A i \in 1..n : i \in 1..(n + 1)
  BY <1>1
<1>4. n + 1 \in 1..(n + 1)
  BY <1>1
<1>5. /\ rows \in [Memories -> Rows]
      /\ \A m \in Memories : rows[m].revision \in 0..3
  BY RowFacts DEF Reflects
<1>6. CASE r.action \in Actions /\ r.revision > rows[r.memory].revision
  <2>1. /\ r \in MemoryRecords /\ r.memory \in Memories /\ r.revision \in {1, 2, 3}
        /\ [revision |-> r.revision, status |-> StatusOf[r.action]] \in Rows
    BY <1>6, RecordFacts
  <2>2. /\ next \in [Memories -> Rows]
        /\ next[r.memory].revision = r.revision
        /\ next[r.memory] # rows[r.memory]
        /\ \A m \in Memories : m # r.memory => next[m] = rows[m]
    BY <1>5, <1>6, <2>1 DEF ProjectRecord
  <2> HIDE DEF more, n, next
  <2>3. ASSUME NEW m \in Memories, next[m] # NoRow
        PROVE  \E i \in 1..(n + 1) : /\ more[i] \in MemoryRecords
                                     /\ more[i].memory = m /\ more[i].revision = next[m].revision
    <3>1. CASE m = r.memory
      BY <1>1, <1>4, <2>1, <2>2, <3>1
    <3>2. CASE m # r.memory
      BY <1>1, <1>3, <2>2, <2>3, <3>2 DEF Reflects, n
    <3> QED
      BY <3>1, <3>2
  <2>4. ASSUME NEW i \in 1..(n + 1), more[i] \in MemoryRecords
        PROVE  more[i].revision <= next[more[i].memory].revision
    <3>1. CASE i = n + 1
      BY <1>1, <2>1, <2>2, <3>1
    <3>2. CASE i \in 1..n
      <4>1. more[i] = records[i] /\ records[i] \in Records
        BY <1>1, <3>2 DEF n
      <4>2. more[i].revision <= rows[more[i].memory].revision
        BY <2>4, <3>2, <4>1 DEF Reflects, n
      <4>3. more[i].memory \in Memories /\ more[i].revision \in {1, 2, 3}
        BY <2>4, <4>1, RecordFacts
      <4>4. CASE more[i].memory = r.memory
        <5>1. rows[r.memory].revision \in 0..3 /\ r.revision > rows[r.memory].revision
          BY <1>5, <1>6, <2>1
        <5> QED
          BY <2>1, <2>2, <4>2, <4>3, <4>4, <5>1
      <4>5. CASE more[i].memory # r.memory
        BY <2>2, <4>2, <4>3, <4>5
      <4> QED
        BY <4>4, <4>5
    <3> QED
      BY <1>2, <3>1, <3>2
  <2> QED
    BY <1>1, <2>2, <2>3, <2>4 DEF Reflects, more, next
<1>7. CASE ~(r.action \in Actions /\ r.revision > rows[r.memory].revision)
  <2>1. next = rows
    BY <1>7 DEF ProjectRecord
  <2>2. r \in MemoryRecords => r.revision <= rows[r.memory].revision
    <3> SUFFICES ASSUME r \in MemoryRecords
                 PROVE  r.revision <= rows[r.memory].revision
      OBVIOUS
    <3>1. r.action \in Actions /\ r.memory \in Memories /\ r.revision \in {1, 2, 3}
      BY RecordFacts
    <3> QED
      BY <1>5, <1>7, <3>1
  <2> HIDE DEF more, n, next
  <2>3. ASSUME NEW m \in Memories, rows[m] # NoRow
        PROVE  \E i \in 1..(n + 1) : /\ more[i] \in MemoryRecords
                                     /\ more[i].memory = m /\ more[i].revision = rows[m].revision
    BY <1>1, <1>3, <2>3 DEF Reflects, n
  <2>4. ASSUME NEW i \in 1..(n + 1), more[i] \in MemoryRecords
        PROVE  more[i].revision <= rows[more[i].memory].revision
    <3>1. CASE i = n + 1
      BY <1>1, <2>2, <2>4, <3>1
    <3>2. CASE i \in 1..n
      BY <1>1, <2>4, <3>2 DEF Reflects, n
    <3> QED
      BY <1>2, <3>1, <3>2
  <2> QED
    BY <1>1, <1>5, <2>1, <2>3, <2>4 DEF Reflects, more, next
<1> QED
  BY <1>6, <1>7

\* The projection of a log tells what the log does.
LEMMA ProjectionReflects ==
  ASSUME NEW records \in Seq(Records)
  PROVE  Reflects(ProjectAll(NoRows, records), records)
<1> DEFINE T == {n \in Nat : \E s \in Seq(Records) :
                   Len(s) = n /\ ~Reflects(ProjectAll(NoRows, s), s)}
<1>1. T = {}
  <2> SUFFICES ASSUME T # {}
               PROVE  FALSE
    OBVIOUS
  <2>1. PICK n \in T : \A k \in T : n <= k
    <3>1. T \subseteq Nat
      OBVIOUS
    <3> HIDE DEF T
    <3> QED
      BY <3>1, LeastNumber
  <2>2. PICK s \in Seq(Records) : Len(s) = n /\ ~Reflects(ProjectAll(NoRows, s), s)
    BY <2>1
  <2>3. s # <<>>
    <3>1. Reflects(NoRows, <<>>)
      <4>1. NoRows \in [Memories -> Rows] /\ \A m \in Memories : NoRows[m] = NoRow
        BY RowFacts DEF NoRows
      <4>2. 1..Len(<<>>) = {}
        OBVIOUS
      <4> QED
        BY <4>1, <4>2 DEF Reflects
    <3> QED
      BY <2>2, <3>1, ProjectNone
  <2>4. PICK t \in Seq(Records), r \in Records : s = Append(t, r)
    BY <2>3, SequenceEmptyOrAppend
  <2>5. Len(t) \in Nat /\ Len(t) < n
    BY <2>2, <2>4, AppendProperties
  <2>6. Reflects(ProjectAll(NoRows, t), t)
    <3>1. Len(t) \notin T
      BY <2>1, <2>5
    <3> QED
      BY <2>5, <3>1
  <2> QED
    BY <2>2, <2>4, <2>6, ProjectAppend, RecordReflected
<1> QED
  BY <1>1, LenProperties

\* Projecting what follows a prefix on top of its projection.
LEMMA ProjectRest ==
  ASSUME NEW records \in Seq(Records), NEW b \in 0..Len(records)
  PROVE  ProjectAll(ProjectAll(NoRows, SubSeq(records, 1, b)),
                    SubSeq(records, b + 1, Len(records)))
           = ProjectAll(NoRows, records)
<1> DEFINE base == ProjectAll(NoRows, SubSeq(records, 1, b))
           Wrong(k) == ProjectAll(base, SubSeq(records, b + 1, k))
                         # ProjectAll(NoRows, SubSeq(records, 1, k))
           T == {k \in b..Len(records) : Wrong(k)}
<1>1. Len(records) \in Nat /\ b \in Nat /\ b <= Len(records)
  OBVIOUS
<1>2. T = {}
  <2> SUFFICES ASSUME T # {}
               PROVE  FALSE
    OBVIOUS
  <2>1. PICK k \in T : \A j \in T : k <= j
    <3>1. T \subseteq Nat
      BY <1>1
    <3> HIDE DEF T
    <3> QED
      BY <3>1, LeastNumber
  <2>2. k \in Nat /\ b <= k /\ k <= Len(records) /\ Wrong(k)
    BY <1>1, <2>1
  <2>3. k # b
    <3>1. SubSeq(records, b + 1, b) = <<>>
      BY <1>1, SubSeqEmpty
    <3>2. ProjectAll(base, <<>>) = base
      BY ProjectNone
    <3> QED
      BY <2>2, <3>1, <3>2
  <2> DEFINE j == k - 1
  <2>4. j \in Nat /\ b <= j /\ j <= Len(records) /\ j + 1 = k /\ k \in 1..Len(records)
    BY <1>1, <2>2, <2>3
  <2>5. ~Wrong(j)
    <3>1. j \in b..Len(records) /\ ~(k <= j)
      BY <1>1, <2>2, <2>4
    <3> QED
      BY <2>1, <3>1
  <2>6. records[k] \in Records
    BY <2>4
  <2>7. /\ SubSeq(records, 1, k) = Append(SubSeq(records, 1, j), records[k])
        /\ SubSeq(records, 1, j) \in Seq(Records)
    BY <1>1, <2>4, SubSeqRecursiveSecond, SubSeqProperties
  <2>8. /\ SubSeq(records, b + 1, k) = Append(SubSeq(records, b + 1, j), records[k])
        /\ SubSeq(records, b + 1, j) \in Seq(Records)
    BY <1>1, <2>4, SubSeqRecursiveSecond, SubSeqProperties
  <2> DEFINE all == SubSeq(records, 1, j)
             rest == SubSeq(records, b + 1, j)
  <2>9. ProjectAll(base, rest) = ProjectAll(NoRows, all)
    BY <2>5
  <2>10. ProjectAll(base, Append(rest, records[k])) # ProjectAll(NoRows, Append(all, records[k]))
    BY <2>2, <2>7, <2>8
  <2> HIDE DEF base, j, all, rest
  <2>11. all \in Seq(Records) /\ rest \in Seq(Records)
    BY <2>7, <2>8 DEF all, rest
  <2>12. /\ ProjectAll(base, Append(rest, records[k]))
              = ProjectRecord(ProjectAll(base, rest), records[k])
         /\ ProjectAll(NoRows, Append(all, records[k]))
              = ProjectRecord(ProjectAll(NoRows, all), records[k])
    BY <2>6, <2>11, ProjectAppend
  <2> QED
    BY <2>9, <2>10, <2>12
<1>3. ~Wrong(Len(records))
  <2>1. Len(records) \in b..Len(records)
    BY <1>1
  <2> HIDE DEF Wrong
  <2> QED
    BY <1>2, <2>1
<1>4. SubSeq(records, 1, Len(records)) = records
  BY SubSeqFull
<1> QED
  BY <1>3, <1>4

-----------------------------------------------------------------------------
(* The sidecar.                                                            *)

Sidecars == [rows : [Memories -> Rows], built : Nat, live : BOOLEAN]

\* s is what it claims to be for the log l.
Exact(s, l) == s.built <= Len(l) => s.rows = ProjectAll(NoRows, SubSeq(l, 1, s.built))

LEMMA PrefixesAgree ==
  ASSUME NEW t \in Seq(Records), NEW u \in Seq(Records),
         NEW b \in Nat, b <= Len(t), b <= Len(u), \A i \in 1..b : t[i] = u[i]
  PROVE  SubSeq(t, 1, b) = SubSeq(u, 1, b)
<1>1. \A i \in 1..b : t[i] \in Records /\ u[i] \in Records
  OBVIOUS
<1>2. /\ SubSeq(t, 1, b) \in Seq(Records) /\ SubSeq(u, 1, b) \in Seq(Records)
      /\ Len(SubSeq(t, 1, b)) = b /\ Len(SubSeq(u, 1, b)) = b
      /\ \A i \in 1..b : SubSeq(t, 1, b)[i] = t[i]
      /\ \A i \in 1..b : SubSeq(u, 1, b)[i] = u[i]
  BY <1>1, SubSeqProperties
<1> QED
  BY <1>2, SeqEqual

LEMMA ExactKept ==
  ASSUME NEW s \in Sidecars, NEW l \in Seq(Records), NEW k \in Seq(Records),
         Exact(s, l), s.built <= Len(k) => s.built <= Len(l),
         \A i \in 1..Len(k) : i <= Len(l) => k[i] = l[i]
  PROVE  Exact(s, k)
<1> SUFFICES ASSUME s.built <= Len(k)
             PROVE  s.rows = ProjectAll(NoRows, SubSeq(k, 1, s.built))
  BY DEF Exact
<1>1. s.built \in Nat /\ Len(k) \in Nat /\ Len(l) \in Nat /\ s.built <= Len(l)
  BY DEF Sidecars
<1>2. \A i \in 1..s.built : l[i] = k[i]
  BY <1>1
<1>3. SubSeq(l, 1, s.built) = SubSeq(k, 1, s.built)
  BY <1>1, <1>2, PrefixesAgree
<1> QED
  BY <1>1, <1>3 DEF Exact

LEMMA CatchUpExact ==
  ASSUME NEW s \in Sidecars, NEW l \in Seq(Records), Exact(s, l), s.built <= Len(l)
  PROVE  /\ CaughtUp(s, l) \in Sidecars
         /\ CaughtUp(s, l).built = Len(l)
         /\ CaughtUp(s, l).live = s.live
         /\ Exact(CaughtUp(s, l), l)
<1>1. s.built \in 0..Len(l) /\ Len(l) \in Nat
  BY DEF Sidecars
<1>2. ProjectAll(s.rows, SubSeq(l, s.built + 1, Len(l))) = ProjectAll(NoRows, l)
  BY <1>1, ProjectRest DEF Exact
<1>3. CaughtUp(s, l) = [s EXCEPT !.rows = ProjectAll(NoRows, l), !.built = Len(l)]
  BY <1>2 DEF CaughtUp
<1>4. ProjectAll(NoRows, l) \in [Memories -> Rows]
  BY ProjectionReflects DEF Reflects
<1>5. CaughtUp(s, l) = [rows |-> ProjectAll(NoRows, l), built |-> Len(l), live |-> s.live]
  BY <1>3 DEF Sidecars
<1>6. SubSeq(l, 1, Len(l)) = l
  BY SubSeqFull
<1>7. /\ CaughtUp(s, l).rows = ProjectAll(NoRows, l)
      /\ CaughtUp(s, l).built = Len(l)
      /\ CaughtUp(s, l).live = s.live
  BY <1>5
<1>8. CaughtUp(s, l) \in Sidecars
  BY <1>1, <1>4, <1>5 DEF Sidecars
<1> QED
  BY <1>6, <1>7, <1>8 DEF Exact

LEMMA RebuiltExact ==
  ASSUME NEW l \in Seq(Records)
  PROVE  /\ Rebuilt(l) \in Sidecars
         /\ Rebuilt(l).built = Len(l)
         /\ Exact(Rebuilt(l), l)
<1>1. ProjectAll(NoRows, l) \in [Memories -> Rows] /\ Len(l) \in Nat
  BY ProjectionReflects DEF Reflects
<1>2. SubSeq(l, 1, Len(l)) = l
  BY SubSeqFull
<1> QED
  BY <1>1, <1>2 DEF Rebuilt, Sidecars, Exact

-----------------------------------------------------------------------------
(* The inductive invariant.                                                *)

StoreOK ==
  /\ log \in Seq(Records)
  /\ synced \in 0..Len(log)
  /\ sidecar \in Sidecars
  /\ degraded \in BOOLEAN /\ up \in BOOLEAN
  /\ failures \in 0..MaxFailures
  /\ up => sidecar.built <= Len(log)
  /\ Exact(sidecar, log)
  /\ ReviewedInOrder

\* No revision is decided with success twice.
Once ==
  \A i, j \in DOMAIN acked :
    acked[i].memory = acked[j].memory /\ acked[i].revision = acked[j].revision => i = j

CallersOK ==
  /\ proposed \subseteq Memories
  /\ acked \in Seq(MemoryRecords)
  /\ GivenOut /\ AckedKept /\ Once

Inv == StoreOK /\ CallersOK

LEMMA InvParts == Inv <=> IInv /\ ReviewedInOrder /\ Once
BY DEF Inv, StoreOK, CallersOK, IInv, TypeOK, ProjectionExact, Exact, Sidecars

LEMMA LogFacts ==
  ASSUME StoreOK
  PROVE  /\ Len(log) \in Nat /\ synced \in Nat /\ synced <= Len(log)
         /\ \A i \in 1..Len(log) : log[i] \in Records
         /\ sidecar.built \in Nat
         /\ DOMAIN log = 1..Len(log)
BY DEF StoreOK, Sidecars

\* What the table tells of L1.
LEMMA TableFacts ==
  ASSUME StoreOK, up
  PROVE  /\ sidecar.rows \in [Memories -> Rows]
         /\ \A m \in Memories : sidecar.rows[m] # NoRow =>
              \E i \in 1..Len(log) :
                /\ log[i] \in MemoryRecords
                /\ log[i].memory = m /\ log[i].revision = sidecar.rows[m].revision
         /\ \A i \in 1..Len(log) : i <= sidecar.built /\ log[i] \in MemoryRecords =>
              log[i].revision <= sidecar.rows[log[i].memory].revision
<1> DEFINE b == sidecar.built
           p == SubSeq(log, 1, b)
<1>1. /\ b \in Nat /\ b <= Len(log) /\ Len(log) \in Nat /\ log \in Seq(Records)
      /\ sidecar.rows = ProjectAll(NoRows, p)
  BY LogFacts DEF StoreOK, Exact
<1>2. \A i \in 1..b : log[i] \in Records /\ i \in 1..Len(log)
  BY <1>1
<1>3. /\ p \in Seq(Records) /\ Len(p) = b
      /\ \A i \in 1..b : p[i] = log[i]
  BY <1>1, <1>2, SubSeqProperties
<1> HIDE DEF b, p
<1>4. Reflects(sidecar.rows, p)
  BY <1>1, <1>3, ProjectionReflects
<1>5. \A i \in 1..Len(log) : i <= b => i \in 1..b
  BY <1>1
<1> QED
  BY <1>1, <1>2, <1>3, <1>4, <1>5 DEF Reflects, b

\* A decision that was taken with success stands in the table.
LEMMA DecisionStands == Inv => DecisionsStand
<1> SUFFICES ASSUME Inv
             PROVE  DecisionsStand
  OBVIOUS
<1>1. \A i, j \in DOMAIN acked :
        acked[j].memory = acked[i].memory /\ acked[j].revision = acked[i].revision => j = i
  BY DEF Inv, CallersOK, Once
<1>2. ASSUME NEW i \in DOMAIN acked, up
      PROVE  \/ sidecar.rows[acked[i].memory].revision > acked[i].revision
             \/ sidecar.rows[acked[i].memory]
                  = [revision |-> acked[i].revision, status |-> StatusOf[acked[i].action]]
  <2> DEFINE r == acked[i]
             row == sidecar.rows[r.memory]
  <2>1. r \in MemoryRecords
    BY DEF Inv, CallersOK
  <2>2. /\ r.memory \in Memories /\ r.revision \in {1, 2, 3}
        /\ [revision |-> r.revision, status |-> StatusOf[r.action]] \in Rows
    BY <2>1, RecordFacts DEF Records
  <2>3. PICK j \in 1..synced : j <= sidecar.built /\ log[j] = r
    BY DEF Inv, CallersOK, AckedKept
  <2>4. j \in 1..Len(log)
    BY <2>3, LogFacts DEF Inv
  <2>5. r.revision <= row.revision /\ row \in Rows
    BY <1>2, <2>1, <2>2, <2>3, <2>4, TableFacts DEF Inv
  <2>6. row.revision \in 0..3
    BY <2>5, RowFacts
  <2>7. CASE row.revision = r.revision
    BY <2>2, <2>5, <2>7, RowFacts
  <2>8. CASE row.revision # r.revision
    BY <2>2, <2>5, <2>6, <2>8
  <2> QED
    BY <2>7, <2>8
<1> QED
  BY <1>1, <1>2 DEF DecisionsStand

-----------------------------------------------------------------------------
(* Appending a record, whatever comes of it.                               *)

\* The decision r is due.
Due(r) ==
  /\ r.action = "approve" =>
       \E j \in 1..Len(log) : log[j] = MemoryRecord(r.memory, "candidate", r.revision - 1)
  /\ r.action = "revoke" =>
       \E j \in 1..Len(log) : log[j] = MemoryRecord(r.memory, "approve", r.revision - 1)

\* What is durable and projected stays so.
Retains ==
  \A j \in 1..synced : j <= sidecar.built =>
    j \in 1..synced' /\ j <= sidecar'.built /\ log'[j] = log[j]

\* L1 gets no record but those of S.
GainsOnly(S) ==
  \A i \in 1..Len(log') : (i \in 1..Len(log) /\ log'[i] = log[i]) \/ log'[i] \in S

LEMMA Appending ==
  ASSUME StoreOK, NEW r \in Records, Due(r), log' = Append(log, r)
  PROVE  /\ log' \in Seq(Records)
         /\ Len(log') = Len(log) + 1
         /\ \A i \in 1..Len(log) : log'[i] = log[i]
         /\ log'[Len(log')] = r
         /\ GainsOnly({r})
         /\ ReviewedInOrder'
<1>1. /\ log' \in Seq(Records)
      /\ Len(log') = Len(log) + 1
      /\ \A i \in 1..Len(log) : log'[i] = log[i]
      /\ log'[Len(log')] = r
  BY AppendProperties DEF StoreOK
<1>2. Len(log) \in Nat /\ DOMAIN log' = 1..Len(log') /\ DOMAIN log = 1..Len(log)
  BY <1>1, LogFacts
<1>3. \A i \in 1..Len(log') : i \in 1..Len(log) \/ i = Len(log')
  BY <1>1, <1>2
<1>4. GainsOnly({r})
  BY <1>1, <1>3 DEF GainsOnly
<1>5. ASSUME NEW i \in 1..Len(log')
      PROVE  /\ log'[i].action = "approve" => \E j \in 1..(i - 1) :
                  log'[j] = MemoryRecord(log'[i].memory, "candidate", log'[i].revision - 1)
             /\ log'[i].action = "revoke" => \E j \in 1..(i - 1) :
                  log'[j] = MemoryRecord(log'[i].memory, "approve", log'[i].revision - 1)
  <2>1. \A j \in 1..(i - 1) : j \in 1..Len(log)
    BY <1>1, <1>2
  <2>2. CASE i \in 1..Len(log)
    <3>1. /\ log[i].action = "approve" => \E j \in 1..(i - 1) :
               log[j] = MemoryRecord(log[i].memory, "candidate", log[i].revision - 1)
          /\ log[i].action = "revoke" => \E j \in 1..(i - 1) :
               log[j] = MemoryRecord(log[i].memory, "approve", log[i].revision - 1)
      BY <1>2, <2>2 DEF StoreOK, ReviewedInOrder
    <3>2. log'[i] = log[i]
      BY <1>1, <2>2
    <3> QED
      BY <1>1, <2>1, <3>1, <3>2
  <2>3. CASE i = Len(log')
    <3>1. log'[i] = r
      BY <1>1, <2>3
    <3>2. \A j \in 1..Len(log) : j \in 1..(i - 1)
      BY <1>1, <1>2, <2>3
    <3> QED
      BY <1>1, <3>1, <3>2 DEF Due
  <2> QED
    BY <1>3, <2>2, <2>3
<1>6. ReviewedInOrder'
  BY <1>2, <1>5 DEF ReviewedInOrder
<1> QED
  BY <1>1, <1>4, <1>6

LEMMA ProjectsStep ==
  ASSUME StoreOK, up, NEW r \in Records, Due(r), Projects(r)
  PROVE  /\ StoreOK' /\ Retains /\ GainsOnly({r})
         /\ Len(log') \in 1..synced' /\ Len(log') <= sidecar'.built /\ log'[Len(log')] = r
<1>1. /\ log' \in Seq(Records)
      /\ Len(log') = Len(log) + 1
      /\ \A i \in 1..Len(log) : log'[i] = log[i]
      /\ log'[Len(log')] = r
      /\ GainsOnly({r})
      /\ ReviewedInOrder'
  BY Appending DEF Projects
<1>2. /\ Len(log) \in Nat /\ synced \in Nat /\ synced <= Len(log)
      /\ sidecar \in Sidecars /\ sidecar.built = Len(log)
  BY LogFacts DEF Projects, Projectable, StoreOK
<1>3. Exact(sidecar, log')
  <2>1. Exact(sidecar, log) /\ log \in Seq(Records)
    BY DEF StoreOK
  <2>2. \A i \in 1..Len(log') : i <= Len(log) => log'[i] = log[i]
    BY <1>1, <1>2
  <2>3. sidecar.built <= Len(log') => sidecar.built <= Len(log)
    BY <1>2
  <2> QED
    BY <1>1, <1>2, <2>1, <2>2, <2>3, ExactKept
<1>4. sidecar.built <= Len(log')
  BY <1>1, <1>2
<1>5. sidecar' = CaughtUp(sidecar, log')
  BY DEF Projects
<1>6. sidecar' \in Sidecars /\ sidecar'.built = Len(log') /\ Exact(sidecar', log')
  BY <1>1, <1>2, <1>3, <1>4, <1>5, CatchUpExact
<1>7. synced' = Len(log') /\ degraded' = FALSE /\ UNCHANGED <<up, failures>>
  BY DEF Projects
<1>8. Len(log') \in Nat /\ synced' \in 0..Len(log') /\ Len(log') \in 1..synced'
      /\ sidecar'.built <= Len(log') /\ Len(log') <= sidecar'.built
  BY <1>1, <1>2, <1>6, <1>7
<1>9. StoreOK'
  BY <1>1, <1>6, <1>7, <1>8 DEF StoreOK, Exact
<1>10. Retains
  BY <1>1, <1>2, <1>6, <1>8, <1>7 DEF Retains
<1> QED
  BY <1>1, <1>8, <1>9, <1>10

\* A record that is in L1, and may be durable, and may be projected.
LEMMA LoggedStep ==
  ASSUME StoreOK, up, NEW r \in Records, Due(r),
         log' = Append(log, r),
         synced' \in {synced, Len(log')},
         \/ sidecar' = sidecar
         \/ Projectable /\ sidecar' = CaughtUp(sidecar, log'),
         degraded' \in BOOLEAN, up' \in BOOLEAN, failures' \in 0..MaxFailures
  PROVE  StoreOK' /\ Retains /\ GainsOnly({r})
<1>1. /\ log' \in Seq(Records)
      /\ Len(log') = Len(log) + 1
      /\ \A i \in 1..Len(log) : log'[i] = log[i]
      /\ GainsOnly({r})
      /\ ReviewedInOrder'
  BY Appending
<1>2. /\ Len(log) \in Nat /\ synced \in Nat /\ synced <= Len(log)
      /\ sidecar \in Sidecars /\ sidecar.built \in Nat /\ sidecar.built <= Len(log)
  BY LogFacts DEF StoreOK
<1>3. Exact(sidecar, log')
  <2>1. Exact(sidecar, log) /\ log \in Seq(Records)
    BY DEF StoreOK
  <2>2. \A i \in 1..Len(log') : i <= Len(log) => log'[i] = log[i]
    BY <1>1, <1>2
  <2> QED
    BY <1>1, <1>2, <2>1, <2>2, ExactKept
<1>4. sidecar.built <= Len(log') /\ Len(log') \in Nat
  BY <1>1, <1>2
<1>5. /\ sidecar' \in Sidecars /\ sidecar'.built <= Len(log') /\ Exact(sidecar', log')
      /\ sidecar.built <= sidecar'.built /\ sidecar'.built \in Nat
  <2>1. CASE sidecar' = sidecar
    BY <1>2, <1>3, <1>4, <2>1
  <2>2. CASE sidecar' = CaughtUp(sidecar, log')
    <3>1. sidecar' \in Sidecars /\ sidecar'.built = Len(log') /\ Exact(sidecar', log')
      BY <1>1, <1>2, <1>3, <1>4, <2>2, CatchUpExact
    <3> QED
      BY <1>4, <3>1
  <2> QED
    BY <2>1, <2>2
<1>6. synced' \in 0..Len(log') /\ synced <= synced' /\ synced' \in Nat
  BY <1>1, <1>2
<1>7. StoreOK'
  BY <1>1, <1>5, <1>6 DEF StoreOK, Exact
<1>8. Retains
  <2> SUFFICES ASSUME NEW j \in 1..synced, j <= sidecar.built
               PROVE  j \in 1..synced' /\ j <= sidecar'.built /\ log'[j] = log[j]
    BY DEF Retains
  <2> QED
    BY <1>1, <1>2, <1>5, <1>6
<1> QED
  BY <1>1, <1>7, <1>8

LEMMA ErrsStep ==
  ASSUME StoreOK, up, NEW r \in Records, Due(r), Errs(r)
  PROVE  StoreOK' /\ Retains /\ GainsOnly({r})
<1>0. MaxFailures \in Nat /\ degraded \in BOOLEAN /\ failures \in 0..MaxFailures
  BY ReviewAssumption DEF StoreOK
<1>1. ASSUME NEW kind, Fails(kind)
      PROVE  failures' \in 0..MaxFailures
  BY <1>0, <1>1 DEF Fails
<1>2. CASE AppendFails
  <2>1. UNCHANGED <<log, synced, sidecar, degraded, up>> /\ failures' \in 0..MaxFailures
    BY <1>1, <1>2 DEF AppendFails
  <2>2. StoreOK'
    BY <2>1 DEF StoreOK, ReviewedInOrder
  <2>3. Retains /\ GainsOnly({r})
    BY <2>1 DEF Retains, GainsOnly
  <2> QED
    BY <2>2, <2>3
<1>3. CASE FlushFails(r)
  <2>1. log' = Append(log, r) /\ UNCHANGED <<synced, sidecar, degraded, up>>
        /\ failures' \in 0..MaxFailures
    BY <1>1, <1>3 DEF FlushFails
  <2> QED
    BY <1>0, <2>1, LoggedStep
<1>4. CASE ProjectionFails(r)
  <2>1. failures' \in 0..MaxFailures
    BY <1>0, <1>1, <1>4 DEF ProjectionFails
  <2>2. log' = Append(log, r) /\ synced' = Len(log') /\ degraded' = TRUE
        /\ UNCHANGED <<sidecar, up>>
    BY <1>4 DEF ProjectionFails
  <2> QED
    BY <2>1, <2>2, LoggedStep
<1>5. CASE KilledIn(r)
  <2>1. failures' \in 0..MaxFailures /\ log' = Append(log, r) /\ up' = FALSE
        /\ UNCHANGED degraded
    BY <1>1, <1>5 DEF KilledIn
  <2>2. /\ synced' \in {synced, Len(log')}
        /\ \/ sidecar' = sidecar
           \/ Projectable /\ sidecar' = CaughtUp(sidecar, log')
    BY <1>5 DEF KilledIn
  <2> QED
    BY <1>0, <2>1, <2>2, LoggedStep
<1> QED
  BY <1>2, <1>3, <1>4, <1>5 DEF Errs

-----------------------------------------------------------------------------
(* Callers.                                                                *)

\* Nobody is answered with success: nothing changes for those who were.
LEMMA CallersStay ==
  ASSUME Inv, StoreOK', Retains, acked' = acked,
         proposed \subseteq proposed', proposed' \subseteq Memories,
         NEW S, GainsOnly(S),
         \A r \in S : r.action \in Actions => r.memory \in proposed'
  PROVE  Inv'
<1>1. DOMAIN log = 1..Len(log) /\ DOMAIN log' = 1..Len(log')
  BY DEF Inv, StoreOK
<1>2. GivenOut'
  <2> SUFFICES ASSUME NEW i \in 1..Len(log'), log'[i].action \in Actions
               PROVE  log'[i].memory \in proposed'
    BY <1>1 DEF GivenOut
  <2> QED
    BY <1>1 DEF GainsOnly, Inv, CallersOK, GivenOut
<1>3. AckedKept'
  BY DEF AckedKept, Inv, CallersOK, Retains
<1>4. Once'
  BY DEF Once, Inv, CallersOK
<1> QED
  BY <1>2, <1>3, <1>4 DEF Inv, CallersOK

\* One is: its record is durable and projected, and it is the first of its
\* revision.
LEMMA CallersAdd ==
  ASSUME Inv, StoreOK', Retains, NEW r \in MemoryRecords, acked' = Append(acked, r),
         proposed \subseteq proposed', proposed' \subseteq Memories,
         GainsOnly({r}), r.memory \in proposed',
         Len(log') \in 1..synced', Len(log') <= sidecar'.built, log'[Len(log')] = r,
         \A i \in DOMAIN acked : ~(acked[i].memory = r.memory /\ acked[i].revision = r.revision)
  PROVE  Inv'
<1>1. DOMAIN log = 1..Len(log) /\ DOMAIN log' = 1..Len(log')
  BY DEF Inv, StoreOK
<1>2. GivenOut'
  <2> SUFFICES ASSUME NEW i \in 1..Len(log'), log'[i].action \in Actions
               PROVE  log'[i].memory \in proposed'
    BY <1>1 DEF GivenOut
  <2> QED
    BY <1>1 DEF GainsOnly, Inv, CallersOK, GivenOut
<1>3. /\ acked \in Seq(MemoryRecords) /\ Len(acked) \in Nat /\ DOMAIN acked = 1..Len(acked)
      /\ acked' \in Seq(MemoryRecords)
      /\ DOMAIN acked' = 1..(Len(acked) + 1)
      /\ \A i \in 1..Len(acked) : acked'[i] = acked[i]
      /\ acked'[Len(acked) + 1] = r
  <2>1. acked \in Seq(MemoryRecords)
    BY DEF Inv, CallersOK
  <2> QED
    BY <2>1, AppendProperties
<1>4. \A i \in DOMAIN acked' : i \in DOMAIN acked \/ i = Len(acked) + 1
  BY <1>3
<1>5. AckedKept'
  <2> SUFFICES ASSUME NEW i \in DOMAIN acked'
               PROVE  \E j \in 1..synced' : j <= sidecar'.built /\ log'[j] = acked'[i]
    BY DEF AckedKept
  <2>1. CASE i \in DOMAIN acked
    <3>1. PICK j \in 1..synced : j <= sidecar.built /\ log[j] = acked[i]
      BY <2>1 DEF Inv, CallersOK, AckedKept
    <3>2. acked'[i] = acked[i]
      BY <1>3, <2>1
    <3> QED
      BY <3>1, <3>2 DEF Retains
  <2>2. CASE i = Len(acked) + 1
    BY <1>3, <2>2
  <2> QED
    BY <1>4, <2>1, <2>2
<1>6. Once'
  <2> SUFFICES ASSUME NEW i \in DOMAIN acked', NEW j \in DOMAIN acked',
                      acked'[i].memory = acked'[j].memory,
                      acked'[i].revision = acked'[j].revision
               PROVE  i = j
    BY DEF Once
  <2>1. CASE i \in DOMAIN acked /\ j \in DOMAIN acked
    BY <1>3, <2>1 DEF Once, Inv, CallersOK
  <2>2. CASE i \in DOMAIN acked /\ j = Len(acked) + 1
    BY <1>3, <2>2
  <2>3. CASE i = Len(acked) + 1 /\ j \in DOMAIN acked
    BY <1>3, <2>3
  <2> QED
    BY <1>4, <2>1, <2>2, <2>3
<1> QED
  BY <1>2, <1>3, <1>5, <1>6 DEF Inv, CallersOK

LEMMA RequestStep ==
  ASSUME Inv, up, NEW r \in MemoryRecords, Request(r), Due(r),
         proposed \subseteq proposed', proposed' \subseteq Memories, r.memory \in proposed',
         \A i \in DOMAIN acked : ~(acked[i].memory = r.memory /\ acked[i].revision = r.revision)
  PROVE  Inv'
<1>1. StoreOK /\ r \in Records
  BY DEF Inv, Records
<1>2. CASE Projects(r) /\ acked' = Append(acked, r)
  <2>1. /\ StoreOK' /\ Retains /\ GainsOnly({r})
        /\ Len(log') \in 1..synced' /\ Len(log') <= sidecar'.built /\ log'[Len(log')] = r
    BY <1>1, <1>2, ProjectsStep
  <2> QED
    BY <1>2, <2>1, CallersAdd
<1>3. CASE Errs(r) /\ UNCHANGED acked
  <2>1. StoreOK' /\ Retains /\ GainsOnly({r})
    BY <1>1, <1>3, ErrsStep
  <2> QED
    BY <1>3, <2>1, CallersStay
<1> QED
  BY <1>2, <1>3 DEF Request

LEMMA ProposeStep ==
  ASSUME Inv, NEW m \in Memories, Propose(m)
  PROVE  Inv'
<1> DEFINE r == MemoryRecord(m, "candidate", 1)
<1>1. r \in MemoryRecords
  BY DEF MemoryRecords
<1>2. r.memory = m /\ r.action = "candidate"
  BY DEF MemoryRecord
<1>3. ASSUME NEW i \in DOMAIN acked
      PROVE  acked[i].memory # m
  <2>1. PICK j \in 1..synced : log[j] = acked[i]
    BY DEF Inv, CallersOK, AckedKept
  <2>2. j \in DOMAIN log
    BY LogFacts DEF Inv
  <2>3. acked[i] \in MemoryRecords
    BY DEF Inv, CallersOK
  <2>4. acked[i].action \in Actions
    BY <2>3, RecordFacts DEF Records
  <2>5. acked[i].memory \in proposed
    BY <2>1, <2>2, <2>4 DEF Inv, CallersOK, GivenOut
  <2> QED
    BY <2>5 DEF Propose
<1>4. /\ up /\ Request(r)
      /\ proposed \subseteq proposed' /\ proposed' \subseteq Memories /\ m \in proposed'
  BY DEF Propose, Inv, CallersOK
<1>5. Due(r)
  BY <1>2 DEF Due
<1> HIDE DEF r
<1> QED
  BY <1>1, <1>2, <1>3, <1>4, <1>5, RequestStep

\* A row whose status allows the action is that of the record before it.
LEMMA DecideStep ==
  ASSUME Inv, NEW m \in Memories, NEW action \in DOMAIN Required, NEW expected \in Revisions,
         Decide(m, action, expected)
  PROVE  Inv'
<1> DEFINE r == MemoryRecord(m, action, expected + 1)
           row == sidecar.rows[m]
           before == IF action = "approve" THEN "candidate" ELSE "approve"
<1>1. /\ StoreOK /\ up /\ Request(r) /\ UNCHANGED proposed
      /\ row.revision = expected /\ row.status = Required[action]
  BY DEF Inv, Decide, Accepts
<1>2. row \in Rows
  BY <1>1, TableFacts
<1>3. \/ action = "approve" /\ expected = 1
      \/ action = "revoke" /\ expected = 2
  <2>1. action = "approve" \/ action = "revoke"
    BY DEF Required
  <2>2. Required["approve"] = "candidate" /\ Required["revoke"] = "approved"
    BY DEF Required
  <2> QED
    BY <1>1, <1>2, <2>1, <2>2, RowFacts
<1>4. r \in MemoryRecords /\ r.memory = m /\ r.action = action /\ r.revision = expected + 1
  BY <1>3 DEF MemoryRecords, MemoryRecord
<1>5. PICK k \in 1..Len(log) : /\ log[k] \in MemoryRecords
                               /\ log[k].memory = m /\ log[k].revision = expected
  <2>1. row # NoRow
    BY <1>1, <1>3, RowFacts
  <2> QED
    BY <1>1, <2>1, TableFacts
<1>6. log[k] = MemoryRecord(m, before, expected)
  <2>1. log[k].action = before
    BY <1>3, <1>5, RecordFacts DEF Records
  <2> QED
    BY <1>5, <2>1, RecordFacts DEF Records
<1>7. Due(r)
  <2>1. r.revision - 1 = expected
    BY <1>3, <1>4
  <2> QED
    BY <1>3, <1>4, <1>6, <2>1 DEF Due
<1>8. m \in proposed /\ proposed \subseteq Memories
  <2>1. log[k].action \in Actions
    BY <1>5, RecordFacts DEF Records
  <2>2. k \in DOMAIN log
    BY <1>1, LogFacts
  <2> QED
    BY <1>5, <2>1, <2>2 DEF Inv, CallersOK, GivenOut
<1>9. ASSUME NEW i \in DOMAIN acked, acked[i].memory = m
      PROVE  acked[i].revision # expected + 1
  <2>1. acked[i] \in MemoryRecords
    BY DEF Inv, CallersOK
  <2>2. PICK j \in 1..synced : j <= sidecar.built /\ log[j] = acked[i]
    BY DEF Inv, CallersOK, AckedKept
  <2>3. j \in 1..Len(log)
    BY <1>1, LogFacts
  <2>4. acked[i].revision <= expected
    BY <1>1, <1>9, <2>1, <2>2, <2>3, TableFacts
  <2> QED
    BY <1>3, <2>1, <2>4, RecordFacts DEF Records
<1> HIDE DEF r, row, before
<1> QED
  BY <1>1, <1>4, <1>7, <1>8, <1>9, RequestStep

-----------------------------------------------------------------------------
(* Rounds, rebuilds, crashes and restarts.                                 *)

\* L1 stays and the sidecar is repaired, or lost to its readers.
LEMMA SidecarStep ==
  ASSUME Inv, UNCHANGED <<log, synced, callers>>,
         sidecar' \in Sidecars, Exact(sidecar', log'),
         sidecar.built <= sidecar'.built \/ sidecar'.built = Len(log),
         up' => sidecar'.built <= Len(log),
         degraded' \in BOOLEAN, up' \in BOOLEAN, failures' \in 0..MaxFailures
  PROVE  Inv'
<1>1. StoreOK'
  BY DEF Inv, StoreOK, ReviewedInOrder
<1>2. Retains
  <2>1. /\ synced \in Nat /\ Len(log) \in Nat /\ synced <= Len(log)
        /\ sidecar.built \in Nat /\ sidecar'.built \in Nat
    BY LogFacts DEF Inv, Sidecars
  <2> QED
    BY <2>1 DEF Retains
<1>3. GainsOnly({})
  BY DEF GainsOnly
<1>4. acked' = acked /\ proposed \subseteq proposed' /\ proposed' \subseteq Memories
  BY DEF Inv, CallersOK, callers
<1> QED
  BY <1>1, <1>2, <1>3, <1>4, CallersStay

LEMMA FailureType ==
  ASSUME Inv, NEW kind, Fails(kind)
  PROVE  failures' \in 0..MaxFailures
BY ReviewAssumption DEF Fails, Inv, StoreOK

LEMMA LiveFacts ==
  ASSUME NEW s \in Sidecars, NEW live \in BOOLEAN
  PROVE  /\ [s EXCEPT !.live = live] \in Sidecars
         /\ [s EXCEPT !.live = live].built = s.built
         /\ \A l : Exact(s, l) => Exact([s EXCEPT !.live = live], l)
<1>1. /\ [s EXCEPT !.live = live] \in Sidecars
      /\ [s EXCEPT !.live = live].built = s.built
      /\ [s EXCEPT !.live = live].rows = s.rows
  BY DEF Sidecars
<1> QED
  BY <1>1 DEF Exact

LEMMA RepairStep ==
  ASSUME Inv, Rebuild \/ RebuildFails \/ EnsureProjection \/ RepairFails
  PROVE  Inv'
<1>1. /\ log \in Seq(Records) /\ sidecar \in Sidecars /\ Exact(sidecar, log)
      /\ degraded \in BOOLEAN /\ failures \in 0..MaxFailures
      /\ sidecar.built \in Nat /\ Len(log) \in Nat
  BY LogFacts DEF Inv, StoreOK
<1>2. up /\ sidecar.built <= Len(log)
  BY DEF Inv, StoreOK, Rebuild, RebuildFails, EnsureProjection, RepairFails, Lags
<1>3. CASE Rebuild
  <2>1. /\ UNCHANGED <<log, synced, callers>> /\ sidecar' = Rebuilt(log)
        /\ degraded' = FALSE /\ up' = up /\ failures' = failures
    BY <1>3 DEF Rebuild
  <2>2. sidecar' \in Sidecars /\ sidecar'.built = Len(log) /\ Exact(sidecar', log')
    BY <1>1, <2>1, RebuiltExact
  <2>3. sidecar'.built <= Len(log)
    BY <1>1, <2>2
  <2> QED
    BY <1>1, <1>2, <2>1, <2>2, <2>3, SidecarStep
<1>4. CASE RebuildFails \/ RepairFails
  <2>1. /\ UNCHANGED <<log, synced, callers>> /\ sidecar' = [sidecar EXCEPT !.live = FALSE]
        /\ degraded' \in BOOLEAN /\ up' = up /\ failures' \in 0..MaxFailures
    BY <1>1, <1>4, FailureType DEF RebuildFails, RepairFails
  <2>2. sidecar' \in Sidecars /\ sidecar'.built = sidecar.built /\ Exact(sidecar', log')
    BY <1>1, <2>1, LiveFacts
  <2>3. sidecar.built <= sidecar'.built /\ sidecar'.built <= Len(log)
    BY <1>1, <1>2, <2>2
  <2> QED
    BY <1>1, <1>2, <2>1, <2>2, <2>3, SidecarStep
<1>5. CASE EnsureProjection
  <2>1. /\ UNCHANGED <<log, synced, callers>>
        /\ degraded' = FALSE /\ up' = up /\ failures' = failures
        /\ sidecar' = IF sidecar.built = Len(log) THEN sidecar
                      ELSE IF sidecar.live THEN CaughtUp(sidecar, log) ELSE Rebuilt(log)
    BY <1>5 DEF EnsureProjection
  <2>2. sidecar' \in Sidecars /\ sidecar'.built = Len(log) /\ Exact(sidecar', log')
    <3>1. CASE sidecar' = sidecar /\ sidecar.built = Len(log)
      BY <1>1, <2>1, <3>1
    <3>2. CASE sidecar' = CaughtUp(sidecar, log)
      BY <1>1, <1>2, <2>1, <3>2, CatchUpExact
    <3>3. CASE sidecar' = Rebuilt(log)
      BY <1>1, <2>1, <3>3, RebuiltExact
    <3> QED
      BY <2>1, <3>1, <3>2, <3>3
  <2>3. sidecar'.built <= Len(log)
    BY <1>1, <2>2
  <2> QED
    BY <1>1, <1>2, <2>1, <2>2, <2>3, SidecarStep
<1> QED
  BY <1>3, <1>4, <1>5

LEMMA CollectStep ==
  ASSUME Inv, Collect
  PROVE  Inv'
<1>1. /\ StoreOK /\ up /\ Collected \in Records
      /\ acked' = acked /\ proposed \subseteq proposed' /\ proposed' \subseteq Memories
  BY DEF Inv, CallersOK, Collect, callers, Records
<1>2. Collected.action \notin Actions /\ Due(Collected)
  BY DEF Collected, Actions, Due
<1>3. StoreOK' /\ Retains /\ GainsOnly({Collected})
  BY <1>1, <1>2, ProjectsStep, ErrsStep DEF Collect
<1> QED
  BY <1>1, <1>2, <1>3, CallersStay

LEMMA KillStep ==
  ASSUME Inv, Kill
  PROVE  Inv'
<1>1. /\ UNCHANGED <<log, synced, sidecar, degraded, callers>> /\ up' = FALSE
      /\ failures' \in 0..MaxFailures
  BY FailureType DEF Kill
<1>2. /\ sidecar \in Sidecars /\ Exact(sidecar, log) /\ degraded \in BOOLEAN
      /\ sidecar.built <= sidecar.built
  BY LogFacts DEF Inv, StoreOK
<1> QED
  BY <1>1, <1>2, SidecarStep

\* What power loss leaves is a prefix of L1 with all that was durable.
LEMMA PowerLossStep ==
  ASSUME Inv, PowerLoss
  PROVE  Inv'
<1>1. /\ up' = FALSE /\ synced' \in synced..Len(log) /\ log' = SubSeq(log, 1, synced')
      /\ UNCHANGED <<sidecar, degraded, callers>>
      /\ failures' \in 0..MaxFailures
  BY FailureType DEF PowerLoss
<1>2. /\ log \in Seq(Records) /\ Len(log) \in Nat /\ synced \in Nat /\ synced <= Len(log)
      /\ \A i \in 1..Len(log) : log[i] \in Records
      /\ sidecar \in Sidecars /\ Exact(sidecar, log) /\ degraded \in BOOLEAN
      /\ DOMAIN log = 1..Len(log)
  BY LogFacts DEF Inv, StoreOK
<1>3. synced' \in Nat /\ synced <= synced' /\ synced' <= Len(log)
  BY <1>1, <1>2
<1>4. /\ log' \in Seq(Records) /\ Len(log') = synced'
      /\ \A i \in 1..synced' : log'[i] = log[i]
  <2>1. \A i \in 1..synced' : log[i] \in Records
    BY <1>2, <1>3
  <2> DEFINE n == synced'
             l == SubSeq(log, 1, n)
  <2>2. n \in Nat /\ \A i \in 1..n : log[i] \in Records
    BY <1>3, <2>1
  <2> HIDE DEF n
  <2>3. l \in Seq(Records) /\ Len(l) = n /\ \A i \in 1..n : l[i] = log[i]
    BY <2>2, SubSeqProperties
  <2>4. log' = l
    BY <1>1 DEF n
  <2> HIDE DEF l
  <2> QED
    BY <2>3, <2>4 DEF n
<1>5. DOMAIN log' = 1..synced' /\ \A i \in 1..synced' : i \in 1..Len(log)
  BY <1>2, <1>3, <1>4
<1>6. ReviewedInOrder'
  <2> SUFFICES ASSUME NEW i \in 1..synced'
               PROVE  /\ log'[i].action = "approve" => \E j \in 1..(i - 1) :
                           log'[j] = MemoryRecord(log'[i].memory, "candidate", log'[i].revision - 1)
                      /\ log'[i].action = "revoke" => \E j \in 1..(i - 1) :
                           log'[j] = MemoryRecord(log'[i].memory, "approve", log'[i].revision - 1)
    BY <1>5 DEF ReviewedInOrder
  <2>1. \A j \in 1..(i - 1) : j \in 1..synced'
    BY <1>3
  <2>2. /\ log[i].action = "approve" => \E j \in 1..(i - 1) :
             log[j] = MemoryRecord(log[i].memory, "candidate", log[i].revision - 1)
        /\ log[i].action = "revoke" => \E j \in 1..(i - 1) :
             log[j] = MemoryRecord(log[i].memory, "approve", log[i].revision - 1)
    BY <1>2, <1>5 DEF Inv, StoreOK, ReviewedInOrder
  <2> QED
    BY <1>4, <2>1, <2>2
<1>7. Exact(sidecar', log')
  <2>1. \A i \in 1..Len(log') : i <= Len(log) => log'[i] = log[i]
    BY <1>4
  <2>2. sidecar.built <= Len(log') => sidecar.built <= Len(log)
    BY <1>2, <1>3, <1>4 DEF Sidecars
  <2> QED
    BY <1>1, <1>2, <1>4, <2>1, <2>2, ExactKept
<1>8. StoreOK'
  <2>1. synced' \in 0..Len(log')
    BY <1>3, <1>4
  <2> QED
    BY <1>1, <1>2, <1>4, <1>6, <1>7, <2>1 DEF StoreOK
<1>9. Retains
  <2>1. sidecar.built \in Nat
    BY <1>2 DEF Sidecars
  <2>2. \A j \in 1..synced : j \in 1..synced'
    BY <1>2, <1>3
  <2> QED
    BY <1>1, <1>4, <2>1, <2>2 DEF Retains
<1>10. GainsOnly({})
  BY <1>4, <1>5 DEF GainsOnly
<1>11. acked' = acked /\ proposed \subseteq proposed' /\ proposed' \subseteq Memories
  BY <1>1 DEF Inv, CallersOK, callers
<1> QED
  BY <1>8, <1>9, <1>10, <1>11, CallersStay

\* A sidecar that is ahead of L1 is rebuilt.
LEMMA RestartStep ==
  ASSUME Inv, Restart
  PROVE  Inv'
<1>1. /\ UNCHANGED <<log, synced, failures, callers>>
      /\ up' = TRUE /\ degraded' = FALSE
      /\ \/ sidecar.built <= Len(log) /\ sidecar' = [CaughtUp(sidecar, log) EXCEPT !.live = TRUE]
         \/ sidecar' = Rebuilt(log)
  BY DEF Restart
<1>2. /\ log \in Seq(Records) /\ sidecar \in Sidecars /\ Exact(sidecar, log)
      /\ failures \in 0..MaxFailures /\ Len(log) \in Nat
  BY LogFacts DEF Inv, StoreOK
<1>3. sidecar' \in Sidecars /\ sidecar'.built = Len(log) /\ Exact(sidecar', log')
  <2>1. CASE sidecar.built <= Len(log) /\ sidecar' = [CaughtUp(sidecar, log) EXCEPT !.live = TRUE]
    <3>1. CaughtUp(sidecar, log) \in Sidecars /\ CaughtUp(sidecar, log).built = Len(log)
          /\ Exact(CaughtUp(sidecar, log), log)
      BY <1>2, <2>1, CatchUpExact
    <3>2. sidecar' \in Sidecars /\ sidecar'.built = Len(log) /\ Exact(sidecar', log)
      BY <2>1, <3>1, LiveFacts
    <3> QED
      BY <1>1, <3>2
  <2>2. CASE sidecar' = Rebuilt(log)
    BY <1>1, <1>2, <2>2, RebuiltExact
  <2> QED
    BY <1>1, <2>1, <2>2
<1>4. sidecar'.built <= Len(log)
  BY <1>2, <1>3
<1> QED
  BY <1>1, <1>2, <1>3, <1>4, SidecarStep

-----------------------------------------------------------------------------
(* The theorems.                                                           *)

LEMMA Begins == Init => Inv
<1> SUFFICES ASSUME Init
             PROVE  Inv
  OBVIOUS
<1>1. /\ log = <<>> /\ log \in Seq(Records) /\ Len(log) = 0 /\ DOMAIN log = {}
      /\ acked = <<>> /\ acked \in Seq(MemoryRecords) /\ DOMAIN acked = {}
      /\ synced = 0
  BY DEF Init
<1>2. sidecar \in Sidecars /\ sidecar.built = Len(log) /\ Exact(sidecar, log)
  <2>1. sidecar = Rebuilt(log)
    BY <1>1 DEF Init
  <2> QED
    BY <1>1, <2>1, RebuiltExact
<1>3. degraded \in BOOLEAN /\ up \in BOOLEAN /\ failures \in 0..MaxFailures
  <2>1. failures = 0 /\ MaxFailures \in Nat
    BY ReviewAssumption DEF Init
  <2>2. failures \in 0..MaxFailures
    BY <2>1
  <2> QED
    BY <2>2 DEF Init
<1>4. StoreOK
  BY <1>1, <1>2, <1>3 DEF StoreOK, ReviewedInOrder
<1>5. CallersOK
  BY <1>1 DEF Init, CallersOK, GivenOut, AckedKept, Once
<1> QED
  BY <1>4, <1>5 DEF Inv

LEMMA Continues == Inv /\ [Next]_vars => Inv'
<1> SUFFICES ASSUME Inv, [Next]_vars
             PROVE  Inv'
  OBVIOUS
<1>1. CASE UNCHANGED vars
  BY <1>1 DEF vars, Inv, StoreOK, CallersOK, ReviewedInOrder, GivenOut, AckedKept, Once
<1>2. CASE Next
  BY <1>2, ProposeStep, DecideStep, RepairStep, CollectStep, KillStep, PowerLossStep,
     RestartStep DEF Next
<1> QED
  BY <1>1, <1>2

\* The memories table is the projection of the records the sidecar claims to
\* have, through failing appends, flushes, projections and rebuilds, kills and
\* power loss; what was answered with success is durable and in the table
\* (Sidecar::project, catch_up, rebuild, open_or_rebuild, append_project).
THEOREM Invariance == Spec => []IInv
<1>1. Inv => IInv
  BY InvParts
<1> QED
  BY <1>1, Begins, Continues, PTL DEF Spec

\* In L1 an approval follows a candidate and a revocation an approval, although
\* decisions are taken on a sidecar that may lag (decide_memory).
THEOREM InOrder == Spec => []ReviewedInOrder
<1>1. Inv => ReviewedInOrder
  BY InvParts
<1> QED
  BY <1>1, Begins, Continues, PTL DEF Spec

\* A revision is decided with success at most once, and the table of a running
\* daemon never goes back behind that decision (decide_memory, append_memory,
\* project_record).
THEOREM Standing == Spec => []DecisionsStand
<1> QED
  BY DecisionStands, Begins, Continues, PTL DEF Spec
=============================================================================
