-------------------------- MODULE SesdbClientProofs --------------------------
(***************************************************************************)
(* Proofs about SesdbClient, for every set of callers, daemons and logs    *)
(* and every bound.                                                        *)
(***************************************************************************)
EXTENDS SesdbClient, Numbers

-----------------------------------------------------------------------------
(* Lists of numbers in increasing order.                                   *)

\* s is the elements of S, each once, in order.
Lists(s, S) ==
  /\ s \in Seq(S)
  /\ \A i, j \in 1..Len(s) : i < j => s[i] < s[j]
  /\ \A x \in S : \E i \in 1..Len(s) : s[i] = x

\* A list has as many elements as the set.
LEMMA ListsLen ==
  ASSUME NEW S, S \subseteq Nat, NEW s, Lists(s, S)
  PROVE  IsFiniteSet(S) /\ Cardinality(S) = Len(s) /\ ToSet(s) = S /\ DOMAIN s = 1..Len(s)
<1> DEFINE D == 1..Len(s)
           f == [i \in D |-> s[i]]
<1>1. s \in Seq(S) /\ Len(s) \in Nat /\ DOMAIN s = D /\ \A i \in D : s[i] \in S
  BY DEF Lists
<1>2. f \in Bijection(D, S)
  <2>1. f \in [D -> S]
    BY <1>1
  <2>2. \A i, j \in D : f[i] = f[j] => i = j
    <3>1. \A i, j \in D : i < j \/ j < i \/ i = j
      BY <1>1
    <3>2. \A i \in D : s[i] \in Nat
      BY <1>1
    <3> QED
      BY <1>1, <3>1, <3>2 DEF Lists
  <2>3. \A x \in S : \E i \in D : f[i] = x
    BY DEF Lists
  <2> HIDE DEF f, D
  <2> QED
    BY <2>1, <2>2, <2>3 DEF Bijection, Injection, Surjection, IsInjective
<1>3. IsFiniteSet(D) /\ Cardinality(D) = Len(s)
  BY <1>1, FS_Interval
<1>4. IsFiniteSet(S) /\ Cardinality(S) = Len(s)
  <2> HIDE DEF f, D
  <2>1. ExistsBijection(D, S)
    BY <1>2 DEF ExistsBijection
  <2> QED
    BY <1>3, <2>1, FS_Bijection
<1>5. ToSet(s) = S
  BY <1>1 DEF ToSet, Lists
<1> QED
  BY <1>1, <1>4, <1>5

\* Two lists make one, if all of the first is below all of the second.
LEMMA ListsConcat ==
  ASSUME NEW S, S \subseteq Nat, NEW T, T \subseteq Nat, NEW s, NEW t, Lists(s, S), Lists(t, T),
         \A x \in S : \A y \in T : x < y
  PROVE  Lists(s \o t, S \cup T)
<1> DEFINE u == s \o t
           m == Len(s)
           n == Len(t)
<1>1. /\ s \in Seq(S) /\ m \in Nat /\ \A i \in 1..m : s[i] \in S
      /\ t \in Seq(T) /\ n \in Nat /\ \A i \in 1..n : t[i] \in T
  BY DEF Lists
<1>2. /\ Len(u) = m + n
      /\ \A i \in 1..(m + n) : u[i] = IF i <= m THEN s[i] ELSE t[i - m]
  BY <1>1
<1>3. u \in Seq(S \cup T)
  BY <1>1
<1> HIDE DEF u, m, n
<1>4. ASSUME NEW i \in 1..(m + n), NEW j \in 1..(m + n), i < j
      PROVE  u[i] < u[j]
  <2>1. CASE j <= m
    <3>1. i \in 1..m /\ j \in 1..m /\ i <= m
      BY <1>1, <1>4, <2>1
    <3> QED
      BY <1>2, <1>4, <2>1, <3>1 DEF Lists, m
  <2>2. CASE i <= m /\ ~(j <= m)
    <3>1. i \in 1..m /\ j - m \in 1..n
      BY <1>1, <2>2
    <3> QED
      BY <1>1, <1>2, <2>2, <3>1
  <2>3. CASE ~(i <= m)
    <3>1. i - m \in 1..n /\ j - m \in 1..n /\ i - m < j - m /\ ~(j <= m)
      BY <1>1, <1>4, <2>3
    <3> QED
      BY <1>2, <2>3, <3>1 DEF Lists, n
  <2> QED
    BY <2>1, <2>2, <2>3
<1>5. ASSUME NEW x \in S \cup T
      PROVE  \E i \in 1..(m + n) : u[i] = x
  <2>1. CASE x \in S
    <3>1. PICK i \in 1..m : s[i] = x
      BY <2>1 DEF Lists, m
    <3>2. i \in 1..(m + n) /\ i <= m
      BY <1>1
    <3> QED
      BY <1>2, <3>1, <3>2
  <2>2. CASE x \in T
    <3>1. PICK i \in 1..n : t[i] = x
      BY <2>2 DEF Lists, n
    <3>2. i + m \in 1..(m + n) /\ ~(i + m <= m) /\ (i + m) - m = i
      BY <1>1
    <3> QED
      BY <1>2, <3>1, <3>2
  <2> QED
    BY <2>1, <2>2
<1> QED
  BY <1>2, <1>3, <1>4, <1>5 DEF Lists, u

\* What there is of S below b, and up to y.
Under(S, b) == {x \in S : x < b}
UpTo(S, y) == {x \in S : x <= y}
CountUnder(s, b) == Cardinality({i \in DOMAIN s : s[i] < b})

\* What is below b of a list is its beginning.
LEMMA ListsCut ==
  ASSUME NEW S, S \subseteq Nat, NEW s, Lists(s, S), NEW b \in Nat,
         NEW k, k = CountUnder(s, b)
  PROVE  /\ k \in 0..Len(s)
         /\ Lists(SubSeq(s, 1, k), Under(S, b))
         /\ k < Len(s) => \E x \in S : b <= x
         /\ k = Len(s) => SubSeq(s, 1, k) = s /\ \A x \in S : x < b
<1> DEFINE K == {i \in DOMAIN s : s[i] < b}
           n == Len(s)
           u == SubSeq(s, 1, k)
<1>1. s \in Seq(S) /\ n \in Nat /\ DOMAIN s = 1..n /\ \A i \in 1..n : s[i] \in S /\ s[i] \in Nat
  <2>1. s \in Seq(S)
    BY DEF Lists
  <2>2. n \in Nat /\ DOMAIN s = 1..n /\ \A i \in 1..n : s[i] \in S
    BY <2>1
  <2>3. \A x \in S : x \in Nat
    OBVIOUS
  <2> QED
    BY <2>1, <2>2, <2>3
<1>2. K \subseteq 1..n /\ \A i \in K : \A j \in 1..n : j <= i => j \in K
  <2>1. ASSUME NEW i \in K, NEW j \in 1..n, j <= i
        PROVE  j \in K
    <3>1. i \in 1..n /\ s[i] < b /\ s[i] \in Nat /\ s[j] \in Nat
      BY <1>1
    <3>2. s[j] = s[i] \/ s[j] < s[i]
      BY <2>1, <3>1 DEF Lists
    <3> QED
      BY <1>1, <3>1, <3>2
  <2> QED
    BY <1>1, <2>1
<1>3. k \in 0..n /\ K = 1..k
  <2> HIDE DEF K
  <2>1. k = Cardinality(K)
    BY DEF K, CountUnder
  <2> QED
    BY <1>1, <1>2, <2>1, DownwardClosed
<1>4. u \in Seq(S) /\ Len(u) = k /\ \A i \in 1..k : u[i] = s[i] /\ i \in 1..n
  <2>1. k \in Nat /\ k <= n /\ \A i \in 1..k : i \in 1..n
    BY <1>1, <1>3
  <2>2. Len(u) = k
    BY <1>1, <2>1
  <2>3. \A i \in 1..k : u[i] = s[i]
    BY <1>1, <2>1
  <2>4. u \in Seq(S)
    BY <1>1, <2>1
  <2> QED
    BY <2>1, <2>2, <2>3, <2>4
<1>5. \A i \in 1..n : i \in 1..k <=> s[i] < b
  BY <1>1, <1>3
<1> HIDE DEF K, n, u
<1>6. u \in Seq({x \in S : x < b})
  <2>1. \A i \in 1..k : u[i] \in {x \in S : x < b}
    BY <1>1, <1>4, <1>5
  <2>2. u = [i \in 1..k |-> u[i]] /\ k \in Nat
    BY <1>3, <1>4
  <2> DEFINE T == {x \in S : x < b}
  <2> HIDE DEF T
  <2>3. \A i \in 1..k : u[i] \in T
    BY <2>1 DEF T
  <2>4. k \in Nat
    BY <2>2
  <2>5. [i \in 1..k |-> u[i]] \in Seq(T)
    BY <2>3, <2>4
  <2> QED
    BY <2>2, <2>5 DEF T
<1>7. \A i, j \in 1..k : i < j => u[i] < u[j]
  BY <1>4 DEF Lists, n
<1>8. ASSUME NEW x \in S, x < b
      PROVE  \E i \in 1..k : u[i] = x
  <2>1. PICK i \in 1..n : s[i] = x
    BY DEF Lists, n
  <2> QED
    BY <1>4, <1>5, <1>8, <2>1
<1>9. Lists(u, {x \in S : x < b})
  BY <1>4, <1>6, <1>7, <1>8 DEF Lists
<1>10. ASSUME k < n
       PROVE  \E x \in S : b <= x
  <2>1. n \in 1..n /\ n \notin 1..k
    BY <1>1, <1>3, <1>10
  <2> QED
    BY <1>1, <1>5, <2>1
<1>11. ASSUME k = n
       PROVE  u = s /\ \A x \in S : x < b
  <2>1. u = s
    <3>1. Len(u) = Len(s) /\ \A i \in 1..Len(s) : u[i] = s[i]
      BY <1>4, <1>11 DEF n
    <3> QED
      BY <1>1, <1>4, <3>1
  <2>2. \A x \in S : x < b
    BY <1>5, <1>11 DEF Lists, n
  <2> QED
    BY <2>1, <2>2
<1> QED
  BY <1>3, <1>9, <1>10, <1>11 DEF n, u, Under

\* A greater element has more elements up to it.
LEMMA MoreBelow ==
  ASSUME NEW m \in Nat, NEW I, I \subseteq 0..m, NEW x \in I, NEW y \in I, x < y
  PROVE  /\ Rank(I, x) \in Nat /\ Rank(I, y) \in Nat
         /\ Rank(I, x) < Rank(I, y) /\ Rank(I, y) <= Cardinality(I)
<1> DEFINE X == {j \in I : j <= x}
           Y == {j \in I : j <= y}
<1>1. IsFiniteSet(I)
  <2>1. IsFiniteSet(0..m)
    BY FS_Interval
  <2> QED
    BY <2>1, FS_Subset
<1>2. \A j \in I : j \in Nat
  OBVIOUS
<1>3. X \cup {y} \subseteq Y /\ y \notin X /\ Y \subseteq I /\ X \subseteq I
  <2>1. \A j \in X : j \in I /\ j <= y
    BY <1>2
  <2>2. y \in Y /\ y \notin X
    BY <1>2
  <2>3. \A j \in X : j \in Y
    BY <2>1
  <2> QED
    BY <2>2, <2>3
<1> HIDE DEF X, Y
<1>4. IsFiniteSet(X) /\ IsFiniteSet(Y) /\ Cardinality(Y) <= Cardinality(I)
  BY <1>1, <1>3, FS_Subset
<1>5. Cardinality(X \cup {y}) = Cardinality(X) + 1 /\ IsFiniteSet(X \cup {y})
  BY <1>3, <1>4, FS_AddElement
<1>6. Cardinality(X \cup {y}) <= Cardinality(Y)
  BY <1>3, <1>4, FS_Subset
<1>7. Cardinality(X) \in Nat /\ Cardinality(Y) \in Nat
  BY <1>4, FS_CardinalityType
<1>8. Cardinality(X) < Cardinality(Y) /\ Cardinality(Y) <= Cardinality(I)
  BY <1>4, <1>5, <1>6, <1>7
<1> QED
  BY <1>7, <1>8 DEF X, Y, Rank

\* The first k of a set, as Nth finds them.
FirstOf(I, k) == [n \in 1..k |-> Nth(I, n)]

\* They are a list of what is up to the last of them.
LEMMA NthLists ==
  ASSUME NEW m \in Nat, NEW I, I \subseteq 0..m, NEW k \in 0..Cardinality(I),
         NEW s, s = FirstOf(I, k)
  PROVE  /\ IsFiniteSet(I) /\ Cardinality(I) \in Nat
         /\ Len(s) = k
         /\ k = 0 => s = <<>>
         /\ k # 0 => s[k] \in I /\ Lists(s, UpTo(I, s[k]))
         /\ k = Cardinality(I) => Lists(s, I)
<1> DEFINE Count(x) == Rank(I, x)
<1>1. IsFiniteSet(I) /\ Cardinality(I) \in Nat /\ k \in Nat /\ k <= Cardinality(I)
  <2>1. IsFiniteSet(0..m)
    BY FS_Interval
  <2>2. IsFiniteSet(I)
    BY <2>1, FS_Subset
  <2> QED
    BY <2>2, FS_CardinalityType
<1>2. ASSUME NEW n \in 1..k
      PROVE  s[n] \in I /\ s[n] \in Nat /\ Count(s[n]) = n
  <2>1. n \in 1..Cardinality(I) /\ s[n] = Nth(I, n)
    BY <1>1 DEF FirstOf
  <2>2. Nth(I, n) = CHOOSE x \in I : Rank(I, x) = n
    BY DEF Nth, Rank
  <2>3. \A x \in I : x \in Nat
    OBVIOUS
  <2> HIDE DEF Count
  <2>4. Nth(I, n) \in I /\ Rank(I, Nth(I, n)) = n
    BY <2>1, <2>2, RankChosen
  <2> QED
    BY <2>1, <2>3, <2>4 DEF Count
<1>3. \A x, y \in I : x < y => /\ Count(x) \in Nat /\ Count(y) \in Nat /\ Count(x) < Count(y)
                               /\ Count(y) <= Cardinality(I)
  BY MoreBelow
<1>4. \A x, y \in I : x \in Nat /\ y \in Nat /\ (x < y \/ y < x \/ x = y)
  OBVIOUS
<1>5. ASSUME NEW x \in I
      PROVE  Count(x) \in 1..Cardinality(I)
  <2> DEFINE X == {j \in I : j <= x}
  <2>1. X \subseteq I /\ x \in X
    BY <1>4
  <2> HIDE DEF X
  <2>2. IsFiniteSet(X) /\ Cardinality(X) <= Cardinality(I) /\ Cardinality(X) \in Nat
    BY <1>1, <2>1, FS_Subset, FS_CardinalityType
  <2>3. Cardinality(X) # 0
    BY <2>1, <2>2, FS_EmptySet
  <2> QED
    BY <1>1, <2>2, <2>3 DEF X, Rank
<1> HIDE DEF Count
<1>6. s \in Seq(I) /\ Len(s) = k
  BY <1>1, <1>2 DEF FirstOf
<1>7. \A i, j \in 1..k : i < j => s[i] < s[j]
  BY <1>1, <1>2, <1>3, <1>4
<1>8. ASSUME NEW x \in I, Count(x) <= k
      PROVE  \E i \in 1..k : s[i] = x
  <2> DEFINE r == Count(x)
  <2>1. r \in 1..k
    BY <1>1, <1>5, <1>8
  <2>2. s[r] \in I /\ Count(s[r]) = r
    BY <1>2, <2>1
  <2>3. s[r] = x
    <3> DEFINE y == s[r]
    <3> HIDE DEF y
    <3>1. y \in I /\ Count(y) = Count(x)
      BY <2>2 DEF y, r
    <3>2. ~(x < y) /\ ~(y < x)
      BY <1>3, <3>1
    <3> QED
      BY <1>4, <3>1, <3>2 DEF y
  <2> QED
    BY <2>1, <2>3
<1>9. ASSUME k # 0
      PROVE  s[k] \in I /\ Lists(s, UpTo(I, s[k]))
  <2>1. k \in 1..k /\ s[k] \in I /\ s[k] \in Nat /\ Count(s[k]) = k
    BY <1>1, <1>2, <1>9
  <2>2. \A x \in I : x <= s[k] => Count(x) <= k
    BY <1>1, <1>3, <1>4, <2>1
  <2>3. \A i \in 1..k : s[i] \in UpTo(I, s[k])
    <3>1. ASSUME NEW i \in 1..k
          PROVE  s[i] <= s[k]
      <4>1. i = k \/ i < k
        BY <1>1
      <4> QED
        BY <1>2, <1>7, <2>1, <4>1
    <3> QED
      BY <1>2, <3>1 DEF UpTo
  <2>4. s \in Seq(UpTo(I, s[k]))
    BY <1>1, <1>6, <2>3
  <2> QED
    BY <1>6, <1>7, <1>8, <2>1, <2>2, <2>4 DEF Lists, UpTo
<1>10. ASSUME k = Cardinality(I)
       PROVE  Lists(s, I)
  <2>1. \A x \in I : Count(x) <= k
    BY <1>1, <1>5, <1>10
  <2> QED
    BY <1>6, <1>7, <1>8, <2>1 DEF Lists
<1>11. k = 0 => s = <<>>
  <2>1. 1..0 = {}
    OBVIOUS
  <2> QED
    BY <1>6
<1> QED
  BY <1>1, <1>6, <1>9, <1>10, <1>11

-----------------------------------------------------------------------------
(* Pages.                                                                  *)

\* The records of these sessions from one number up to another.
Found(from, end, sessions) == {seq \in from .. end - 1 : content[seq + 1].session \in sessions}

\* A page without more lists all there is; one with more is full, and lists
\* what there is up to where the next one begins.
LEMMA PageIs ==
  ASSUME committed \in Nat, NEW from \in Nat, NEW limit \in Nat \ {0}, NEW sessions,
         NEW page, page = Page(from, limit, sessions)
  PROVE  /\ ~page.hasMore => Lists(page.seqs, Found(from, committed, sessions))
         /\ page.hasMore => /\ page.nextFromSeq \in Nat
                            /\ from < page.nextFromSeq /\ page.nextFromSeq <= committed
                            /\ Lists(page.seqs, Found(from, page.nextFromSeq, sessions))
                            /\ Len(page.seqs) = limit
<1> DEFINE I == Found(from, committed, sessions)
           count == Cardinality(I)
           k == IF count > limit THEN limit ELSE count
           s == [n \in 1..k |-> Nth(I, n)]
<1>1. /\ page.seqs = s /\ page.hasMore = (count > limit)
      /\ page.nextFromSeq = IF s = <<>> THEN from ELSE Last(s) + 1
  BY DEF Page, Found
<1>2. I \subseteq 0..committed
  BY DEF Found
<1>3. count \in Nat
  <2>1. IsFiniteSet(0..committed)
    BY FS_Interval
  <2> HIDE DEF I
  <2>2. IsFiniteSet(I)
    BY <1>2, <2>1, FS_Subset
  <2> QED
    BY <2>2, FS_CardinalityType
<1>4. k \in 0..count /\ (count > limit => k = limit) /\ (~(count > limit) => k = count)
  <2> HIDE DEF I, count
  <2> QED
    BY <1>3
<1> DEFINE Low == UpTo(I, s[k])
<1>5. /\ Len(s) = k /\ (k # 0 => s[k] \in I /\ Lists(s, Low))
      /\ (k = count => Lists(s, I))
  <2> HIDE DEF I, k, s
  <2>1. s = FirstOf(I, k)
    BY DEF s, FirstOf
  <2>2. k \in 0..Cardinality(I)
    BY <1>4
  <2> QED
    BY <1>2, <2>1, <2>2, NthLists
<1> HIDE DEF k, count, s
<1>6. ASSUME ~page.hasMore
      PROVE  Lists(page.seqs, I)
  BY <1>1, <1>4, <1>5, <1>6
<1>7. ASSUME page.hasMore
      PROVE  /\ page.nextFromSeq \in Nat /\ Len(page.seqs) = limit
             /\ from < page.nextFromSeq /\ page.nextFromSeq <= committed
             /\ Lists(page.seqs, Found(from, page.nextFromSeq, sessions))
  <2> DEFINE next == s[k] + 1
  <2>1. k = limit /\ k # 0 /\ k \in Nat
    BY <1>1, <1>4, <1>7
  <2>2. s[k] \in from .. committed - 1
    BY <1>5, <2>1 DEF Found
  <2>3. page.nextFromSeq = next
    <3>1. s # <<>>
      BY <1>5, <2>1
    <3>2. Last(s) = s[k]
      BY <1>5 DEF Last
    <3> QED
      BY <1>1, <3>1, <3>2
  <2>4. Low = Found(from, next, sessions)
    <3> DEFINE z == s[k]
    <3>1. \A x : x \in from .. committed - 1 /\ x <= z <=> x \in from .. (z + 1) - 1
      BY <2>2
    <3>2. \A x : x \in Low <=> x \in from .. (z + 1) - 1 /\ content[x + 1].session \in sessions
      BY <3>1 DEF Found, UpTo
    <3>3. \A x : x \in Found(from, next, sessions)
            <=> x \in from .. (z + 1) - 1 /\ content[x + 1].session \in sessions
      BY DEF Found
    <3> HIDE DEF z, Low, next
    <3> QED
      BY <3>2, <3>3
  <2>5. next \in Nat /\ from < next /\ next <= committed
    BY <2>2
  <2> HIDE DEF next, Low
  <2> QED
    BY <1>1, <1>5, <2>1, <2>3, <2>4, <2>5
<1> QED
  BY <1>6, <1>7

-----------------------------------------------------------------------------
(* What a call has read: the invariant.                                    *)

\* Where a call began, and what it looks for in a log from there.
StartOf(call, asOf) ==
  IF call.op = "recent" /\ asOf > call.limit THEN asOf - call.limit ELSE 0
Wanted(log, call, from, end) ==
  {seq \in from .. end - 1 : call.op = "raw" => log[seq + 1].session = call.session}

\* A call on its way has everything before the page it asks for next; a query
\* never asks for a page beyond its snapshot.
Scanning(me, log, n) ==
  /\ me.asOf \in 0..n /\ me.from \in 0..n
  /\ me.call.op \in {"query", "recent", "raw"}
  /\ me.call.op = "query" => me.from <= me.asOf
  /\ me.call.op \in {"query", "raw"} => Lists(me.seqs, Wanted(log, me.call, 0, me.from))
  /\ me.call.op = "recent" => /\ me.call.limit \in Nat \ {0}
                              /\ me.from = StartOf(me.call, me.asOf)

\* One that was answered has everything up to a record no earlier than its
\* beginning.
Reached(me, log, n) ==
  /\ me.asOf \in Nat
  /\ me.call.op = "recent" => me.call.limit \in Nat
  /\ \E end \in me.asOf .. n :
       Lists(me.seqs, Wanted(log, me.call, StartOf(me.call, me.asOf), end))

Ended(me, log, n) ==
  me.error # "engine_unavailable" =>
    /\ me.call.op = "query" => SnapshotOf(me)
    /\ me.call.op \in {"recent", "raw"} /\ me.error = "" => Reached(me, log, n)

ReadOf(me, log, n) ==
  /\ DOMAIN me = DOMAIN Idle
  /\ me.pc \notin {"scan", "ended"} => me.call.op = "none" /\ me.seqs = <<>>
  /\ me.pc = "scan" => Scanning(me, log, n)
  /\ me.pc = "ended" => Ended(me, log, n)

ReadInv ==
  /\ content \in Contents /\ committed \in 0 .. Len(content)
  /\ DOMAIN caller = Callers
  /\ \A c \in Callers : ReadOf(caller[c], content, committed)

\* A log in a run is a sequence.
LEMMA LogFacts ==
  ASSUME content \in Contents
  PROVE  /\ Len(content) \in Nat /\ DOMAIN content = 1..Len(content)
         /\ \A i \in 1..Len(content) : content[i].session \in AllSessions
<1>1. content \in Seq(ToSet(content))
  BY SesdbClientAssumption
<1>2. Len(content) \in Nat /\ DOMAIN content = 1..Len(content)
  BY <1>1
<1> QED
  BY <1>2 DEF AllSessions

\* What a page finds is what the call looks for.
LEMMA FoundIsWanted ==
  ASSUME content \in Contents, NEW from \in Nat, NEW end \in 0..Len(content), NEW call
  PROVE  /\ call.op # "raw" =>
              Found(from, end, AllSessions) = Wanted(content, call, from, end)
         /\ call.op = "raw" =>
              Found(from, end, {call.session}) = Wanted(content, call, from, end)
<1>1. \A seq \in from .. end - 1 : seq + 1 \in 1..Len(content)
  BY LogFacts
<1>2. \A seq \in from .. end - 1 : content[seq + 1].session \in AllSessions
  BY <1>1, LogFacts
<1>3. ASSUME call.op # "raw"
      PROVE  Found(from, end, AllSessions) = Wanted(content, call, from, end)
  BY <1>2, <1>3 DEF Found, Wanted
<1>4. ASSUME call.op = "raw"
      PROVE  Found(from, end, {call.session}) = Wanted(content, call, from, end)
  BY <1>4 DEF Found, Wanted
<1> QED
  BY <1>3, <1>4

\* Two stretches, one after the other.
LEMMA WantedConcat ==
  ASSUME NEW log, NEW call, NEW from \in Nat, NEW mid \in Nat, NEW end \in Nat, from <= mid,
         mid <= end, NEW s, NEW t, Lists(s, Wanted(log, call, from, mid)),
         Lists(t, Wanted(log, call, mid, end))
  PROVE  Lists(s \o t, Wanted(log, call, from, end))
<1> DEFINE S == Wanted(log, call, from, mid)
           T == Wanted(log, call, mid, end)
           P(seq) == call.op = "raw" => log[seq + 1].session = call.session
<1>1. S \subseteq Nat /\ T \subseteq Nat /\ \A x \in S : \A y \in T : x < y
  BY DEF Wanted
<1>2. S \cup T = Wanted(log, call, from, end)
  <2>1. \A x : x \in from .. end - 1 <=> x \in from .. mid - 1 \/ x \in mid .. end - 1
    OBVIOUS
  <2>2. \A x, a, b : x \in Wanted(log, call, a, b) <=> x \in a .. b - 1 /\ P(x)
    BY DEF Wanted
  <2> HIDE DEF P
  <2> QED
    BY <2>1, <2>2
<1> HIDE DEF S, T
<1>3. Lists(s \o t, S \cup T)
  BY <1>1, ListsConcat DEF S, T
<1> QED
  BY <1>2, <1>3

\* Nothing a call has read is undone by what is appended.
LEMMA Grows ==
  ASSUME NEW log, NEW n \in Nat, NEW m \in Nat, n <= m, NEW me, ReadOf(me, log, n)
  PROVE  ReadOf(me, log, m)
<1>1. \A x \in 0..n : x \in 0..m
  OBVIOUS
<1>2. ASSUME me.asOf \in Nat
      PROVE  \A end \in me.asOf .. n : end \in me.asOf .. m
  BY <1>2
<1>3. Reached(me, log, n) => Reached(me, log, m)
  BY <1>2 DEF Reached
<1>4. Scanning(me, log, n) => Scanning(me, log, m)
  BY <1>1 DEF Scanning
<1>5. Ended(me, log, n) => Ended(me, log, m)
  BY <1>3 DEF Ended
<1> QED
  BY <1>4, <1>5 DEF ReadOf

-----------------------------------------------------------------------------
(* Steps of one caller.                                                    *)

LogStays == content' = content /\ committed' = committed

\* The others are where they were.
LEMMA Alone ==
  ASSUME ReadInv, LogStays, NEW c \in Callers, DOMAIN caller' = DOMAIN caller,
         \A d \in Callers \ {c} : caller'[d] = caller[d],
         ReadOf(caller'[c], content, committed)
  PROVE  ReadInv'
<1>1. \A d \in Callers : ReadOf(caller'[d], content, committed)
  BY DEF ReadInv
<1> QED
  BY <1>1 DEF ReadInv, LogStays

\* Finding a daemon reads nothing.
LEMMA GotoKeeps ==
  ASSUME ReadInv, LogStays, NEW c \in Callers, NEW pc, NEW conn, Goto(c, pc, conn),
         {pc, caller[c].pc} \cap {"scan", "ended"} = {}
  PROVE  ReadInv'
<1>1. DOMAIN caller = Callers /\ ReadOf(caller[c], content, committed)
  BY DEF ReadInv
<1>2. /\ DOMAIN caller' = DOMAIN caller /\ \A d \in Callers \ {c} : caller'[d] = caller[d]
      /\ caller'[c] = [caller[c] EXCEPT !.pc = pc, !.conn = conn]
  BY <1>1 DEF Goto
<1>3. /\ DOMAIN caller[c] = DOMAIN Idle /\ caller[c].call.op = "none" /\ caller[c].seqs = <<>>
  BY <1>1 DEF ReadOf
<1>4. /\ DOMAIN caller'[c] = DOMAIN Idle /\ caller'[c].pc = pc
      /\ caller'[c].call = caller[c].call /\ caller'[c].seqs = caller[c].seqs
  BY <1>2, <1>3 DEF Idle
<1>5. ReadOf(caller'[c], content, committed)
  BY <1>3, <1>4 DEF ReadOf
<1> QED
  BY <1>2, <1>5, Alone

\* A call that is refused says so for a reason.
LEMMA RefuseKeeps ==
  ASSUME ReadInv, LogStays, NEW c \in Callers, NEW code, Refuse(c, code),
         \/ code = "engine_unavailable" \/ caller[c].call.op = "none"
         \/ code = "resource_limit" /\ (caller[c].call.op = "query" => caller[c].asOf > ScanLimit)
  PROVE  ReadInv'
<1>1. DOMAIN caller = Callers /\ ReadOf(caller[c], content, committed)
  BY DEF ReadInv
<1>2. /\ DOMAIN caller' = DOMAIN caller /\ \A d \in Callers \ {c} : caller'[d] = caller[d]
      /\ caller'[c] = [caller[c] EXCEPT !.pc = "ended", !.error = code]
  BY <1>1 DEF Refuse
<1>3. DOMAIN caller[c] = DOMAIN Idle
  BY <1>1 DEF ReadOf
<1>4. /\ DOMAIN caller'[c] = DOMAIN Idle /\ caller'[c].pc = "ended" /\ caller'[c].error = code
      /\ caller'[c].call = caller[c].call /\ caller'[c].asOf = caller[c].asOf
  BY <1>2, <1>3 DEF Idle
<1>5. Ended(caller'[c], content, committed)
  BY <1>4 DEF Ended, SnapshotOf
<1>6. ReadOf(caller'[c], content, committed)
  BY <1>4, <1>5 DEF ReadOf
<1> QED
  BY <1>2, <1>6, Alone

\* The answer to a call is as good as what was read.
AnswerTo(me, seqs) ==
  /\ me.call.op = "query" => ToSet(seqs) = 0 .. me.asOf - 1 /\ Len(seqs) = me.asOf
  /\ me.call.op \in {"recent", "raw"} =>
       Reached([call |-> me.call, asOf |-> me.asOf, seqs |-> seqs], content, committed)

\* With such an answer the invariant goes on to hold.
LEMMA AnswerKeeps ==
  ASSUME ReadInv, LogStays, NEW c \in Callers, NEW seqs, Answer(c, seqs),
         AnswerTo(caller[c], seqs)
  PROVE  ReadInv'
<1>1. DOMAIN caller = Callers /\ ReadOf(caller[c], content, committed)
  BY DEF ReadInv
<1>2. /\ DOMAIN caller' = DOMAIN caller /\ \A d \in Callers \ {c} : caller'[d] = caller[d]
      /\ caller'[c] = [caller[c] EXCEPT !.pc = "ended", !.error = "", !.seqs = seqs]
  BY <1>1 DEF Answer
<1>3. DOMAIN caller[c] = DOMAIN Idle
  BY <1>1 DEF ReadOf
<1>4. /\ DOMAIN caller'[c] = DOMAIN Idle /\ caller'[c].pc = "ended" /\ caller'[c].error = ""
      /\ caller'[c].call = caller[c].call /\ caller'[c].asOf = caller[c].asOf
      /\ caller'[c].seqs = seqs
  BY <1>2, <1>3 DEF Idle
<1> DEFINE old == caller[c]
           me == caller'[c]
           read == [call |-> old.call, asOf |-> old.asOf, seqs |-> seqs]
<1>5. read.call = me.call /\ read.asOf = me.asOf /\ read.seqs = me.seqs
  BY <1>4
<1> HIDE DEF read
<1>6. Reached(read, content, committed) => Reached(me, content, committed)
  BY <1>5 DEF Reached
<1>7. Ended(me, content, committed)
  BY <1>4, <1>6 DEF Ended, SnapshotOf, AnswerTo, read
<1>8. ReadOf(me, content, committed)
  BY <1>4, <1>7 DEF ReadOf
<1> QED
  BY <1>2, <1>8, Alone

\* A call begins with nothing read.
LEMMA BeginKeeps ==
  ASSUME ReadInv, LogStays, NEW c \in Callers, NEW call, NEW from, Begin(c, call, from),
         caller[c].pc = "ready", call.op \in {"query", "recent", "raw"},
         from = StartOf(call, committed), call.op = "recent" => call.limit \in Nat \ {0}
  PROVE  ReadInv'
<1>1. DOMAIN caller = Callers /\ ReadOf(caller[c], content, committed) /\ committed \in Nat
  BY LogFacts DEF ReadInv
<1>2. /\ DOMAIN caller' = DOMAIN caller /\ \A d \in Callers \ {c} : caller'[d] = caller[d]
      /\ caller'[c] = [caller[c] EXCEPT !.pc = "scan", !.call = call, !.from = from,
                                        !.asOf = committed]
  BY <1>1 DEF Begin
<1>3. DOMAIN caller[c] = DOMAIN Idle /\ caller[c].seqs = <<>>
  BY <1>1 DEF ReadOf
<1>4. /\ DOMAIN caller'[c] = DOMAIN Idle /\ caller'[c].pc = "scan" /\ caller'[c].call = call
      /\ caller'[c].from = from /\ caller'[c].asOf = committed /\ caller'[c].seqs = <<>>
  BY <1>2, <1>3 DEF Idle
<1>5. from \in 0..committed /\ (call.op # "recent" => from = 0)
  BY <1>1 DEF StartOf
<1>6. Lists(<<>>, Wanted(content, call, 0, 0))
  <2>1. Wanted(content, call, 0, 0) = {}
    BY DEF Wanted
  <2> QED
    BY <2>1 DEF Lists
<1>7. Scanning(caller'[c], content, committed)
  BY <1>1, <1>4, <1>5, <1>6 DEF Scanning
<1>8. ReadOf(caller'[c], content, committed)
  BY <1>4, <1>7 DEF ReadOf
<1> QED
  BY <1>2, <1>8, Alone

\* And goes on with what it read.
LEMMA ScanKeeps ==
  ASSUME ReadInv, LogStays, NEW c \in Callers, NEW seqs, NEW next \in 0..committed,
         ScanOn(c, seqs, next), caller[c].pc = "scan", caller[c].call.op \in {"query", "raw"},
         caller[c].call.op = "query" => next <= caller[c].asOf,
         Lists(seqs, Wanted(content, caller[c].call, 0, next))
  PROVE  ReadInv'
<1>1. DOMAIN caller = Callers /\ ReadOf(caller[c], content, committed)
  BY DEF ReadInv
<1>2. /\ DOMAIN caller' = DOMAIN caller /\ \A d \in Callers \ {c} : caller'[d] = caller[d]
      /\ caller'[c] = [caller[c] EXCEPT !.seqs = seqs, !.from = next]
  BY <1>1 DEF ScanOn
<1>3. DOMAIN caller[c] = DOMAIN Idle /\ Scanning(caller[c], content, committed)
  BY <1>1 DEF ReadOf
<1>4. /\ DOMAIN caller'[c] = DOMAIN Idle /\ caller'[c].pc = "scan" /\ caller'[c].from = next
      /\ caller'[c].call = caller[c].call /\ caller'[c].asOf = caller[c].asOf
      /\ caller'[c].seqs = seqs
  BY <1>2, <1>3 DEF Idle
<1>5. Scanning(caller'[c], content, committed)
  BY <1>3, <1>4 DEF Scanning
<1>6. ReadOf(caller'[c], content, committed)
  BY <1>4, <1>5 DEF ReadOf
<1> QED
  BY <1>2, <1>6, Alone

-----------------------------------------------------------------------------
(* The pages of a call.                                                    *)

\* A step of a caller alone leaves the log as it is.
LEMMA UnchangedLog ==
  ASSUME UNCHANGED service
  PROVE  LogStays
BY DEF service, LogStays

\* What of a page lies below the end of the snapshot.
LEMMA SnapshotUnder ==
  ASSUME NEW log, NEW call, call.op = "query", NEW from \in Nat, NEW end \in Nat,
         NEW asOf \in Nat, NEW stop, stop = IF end >= asOf THEN asOf ELSE end
  PROVE  Under(Wanted(log, call, from, end), asOf) = Wanted(log, call, from, stop)
<1>1. /\ Wanted(log, call, from, end) = from .. end - 1
      /\ Wanted(log, call, from, stop) = from .. stop - 1
  BY DEF Wanted
<1>2. \A x : x \in from .. end - 1 /\ x < asOf <=> x \in from .. stop - 1
  OBVIOUS
<1>3. \A x : x \in Under(from .. end - 1, asOf) <=> x \in from .. end - 1 /\ x < asOf
  BY DEF Under
<1>4. Under(from .. end - 1, asOf) = from .. stop - 1
  BY <1>2, <1>3
<1> QED
  BY <1>1, <1>4

\* A list of the numbers below another has that many elements.
LEMMA SnapshotSize ==
  ASSUME NEW asOf \in Nat, NEW s, Lists(s, 0 .. asOf - 1)
  PROVE  ToSet(s) = 0 .. asOf - 1 /\ Len(s) = asOf
<1>1. IsFiniteSet(0 .. asOf - 1) /\ Cardinality(0 .. asOf - 1) = asOf
  BY FS_Interval
<1>2. 0 .. asOf - 1 \subseteq Nat
  OBVIOUS
<1> HIDE DEF ToSet
<1> QED
  BY <1>1, <1>2, ListsLen

\* scanSnapshot adds what of a page lies below the end of the snapshot, and is done no
\* earlier and no later than it has all of it.
LEMMA ScanPageKeeps ==
  ASSUME ReadInv, NEW c \in Callers, ScanPage(c)
  PROVE  ReadInv'
<1> DEFINE me == caller[c]
           page == Page(me.from, PageLimit, AllSessions)
           k == Cardinality({i \in DOMAIN page.seqs : page.seqs[i] < me.asOf})
           below == SubSeq(page.seqs, 1, k)
           seqs == me.seqs \o below
           done == \/ Len(below) < Len(page.seqs) \/ ~page.hasMore
                   \/ page.nextFromSeq <= me.from \/ page.nextFromSeq >= me.asOf
           W(a, b) == Wanted(content, me.call, a, b)
<1>1. /\ me.pc = "scan" /\ me.call.op = "query" /\ LogStays
      /\ IF Len(seqs) > ScanLimit THEN Refuse(c, "resource_limit")
         ELSE IF done THEN Answer(c, seqs) ELSE ScanOn(c, seqs, page.nextFromSeq)
  BY UnchangedLog DEF ScanPage
<1>2. /\ content \in Contents /\ committed \in 0 .. Len(content) /\ Len(content) \in Nat
      /\ Scanning(me, content, committed)
  BY <1>1, LogFacts DEF ReadInv, ReadOf
<1>3. /\ committed \in Nat /\ me.asOf \in Nat /\ me.from \in Nat /\ me.asOf <= committed
      /\ me.from <= me.asOf /\ me.from <= committed /\ Lists(me.seqs, W(0, me.from))
  BY <1>1, <1>2 DEF Scanning
<1>4. PageLimit \in Nat \ {0} /\ ScanLimit \in Nat
  BY SesdbClientAssumption
<1> DEFINE end == IF page.hasMore THEN page.nextFromSeq ELSE committed
<1>5. /\ end \in Nat /\ me.from <= end /\ end <= committed
      /\ Lists(page.seqs, Found(me.from, end, AllSessions))
      /\ page.hasMore => end = page.nextFromSeq /\ me.from < end
      /\ ~page.hasMore => end = committed
  <2> HIDE DEF me, page
  <2>1. page = Page(me.from, PageLimit, AllSessions)
    BY DEF page
  <2> QED
    BY <1>3, <1>4, <2>1, PageIs
<1>6. Found(me.from, end, AllSessions) = W(me.from, end)
  <2> HIDE DEF me, page, end
  <2>1. end \in 0..Len(content) /\ me.call.op # "raw"
    BY <1>1, <1>2, <1>5
  <2> QED
    BY <1>2, <1>3, <2>1, FoundIsWanted
<1>7. /\ k \in 0..Len(page.seqs)
      /\ Lists(below, Under(W(me.from, end), me.asOf))
      /\ k < Len(page.seqs) => \E x \in W(me.from, end) : me.asOf <= x
      /\ k = Len(page.seqs) => below = page.seqs /\ \A x \in W(me.from, end) : x < me.asOf
      /\ Len(page.seqs) \in Nat
  <2>1. W(me.from, end) \subseteq Nat
    BY <1>3 DEF Wanted
  <2>2. Lists(page.seqs, W(me.from, end))
    BY <1>5, <1>6
  <2>3. k = CountUnder(page.seqs, me.asOf)
    BY DEF k, CountUnder
  <2> DEFINE S == W(me.from, end)
             s == page.seqs
             b == me.asOf
  <2> HIDE DEF me, page, end, W, k
  <2>4. S \subseteq Nat /\ Lists(s, S) /\ b \in Nat /\ k = CountUnder(s, b)
    BY <1>3, <2>1, <2>2, <2>3
  <2> HIDE DEF S, s, b
  <2>5. /\ k \in 0..Len(s)
        /\ Lists(SubSeq(s, 1, k), Under(S, b))
        /\ k < Len(s) => \E x \in S : b <= x
        /\ k = Len(s) => SubSeq(s, 1, k) = s /\ \A x \in S : x < b
    BY <2>4, ListsCut
  <2>6. Len(s) \in Nat
    BY <2>4 DEF Lists
  <2> QED
    BY <2>5, <2>6 DEF S, s, b
<1>8. ASSUME Len(below) < Len(page.seqs)
      PROVE  me.asOf <= end
  <2> HIDE DEF me, page, end, k
  <2>1. Len(page.seqs) \in Nat /\ k # Len(page.seqs)
    BY <1>7, <1>8
  <2>2. PICK x \in W(me.from, end) : me.asOf <= x
    BY <1>7, <2>1
  <2> QED
    BY <1>3, <1>5, <2>2 DEF Wanted
<1> DEFINE stop == IF end >= me.asOf THEN me.asOf ELSE end
<1>9. stop \in Nat /\ me.from <= stop /\ stop <= me.asOf /\ stop <= committed
  <2> HIDE DEF me, end
  <2> QED
    BY <1>3, <1>5
<1>10. Lists(seqs, W(0, stop))
  <2> HIDE DEF me, page, end, k, below, stop
  <2>1. stop = IF end >= me.asOf THEN me.asOf ELSE end
    BY DEF stop
  <2>2. Under(W(me.from, end), me.asOf) = W(me.from, stop)
    BY <1>1, <1>3, <1>5, <2>1, SnapshotUnder
  <2>3. Lists(below, W(me.from, stop))
    BY <1>7, <2>2
  <2> QED
    BY <1>3, <1>9, <2>3, WantedConcat
<1>11. ToSet(seqs) = 0 .. stop - 1 /\ Len(seqs) = stop
  <2> HIDE DEF me, seqs, stop
  <2>1. W(0, stop) = 0 .. stop - 1
    BY <1>1 DEF Wanted
  <2> QED
    BY <1>9, <1>10, <2>1, SnapshotSize
<1>12. CASE Len(seqs) > ScanLimit
  <2> HIDE DEF seqs, end, page
  <2>1. me.asOf > ScanLimit
    <3> HIDE DEF me, stop
    <3> QED
      BY <1>3, <1>4, <1>9, <1>11, <1>12
  <2> QED
    BY <1>1, <1>12, <2>1, RefuseKeeps
<1>13. CASE ~(Len(seqs) > ScanLimit) /\ done
  <2>1. stop = me.asOf
    <3> HIDE DEF me, page, below, seqs
    <3> QED
      BY <1>3, <1>5, <1>8, <1>13
  <2>2. AnswerTo(me, seqs)
    <3> HIDE DEF seqs, stop
    <3> QED
      BY <1>1, <1>11, <2>1 DEF AnswerTo
  <2>3. Answer(c, seqs)
    BY <1>1, <1>13
  <2> HIDE DEF seqs
  <2> QED
    BY <1>1, <2>2, <2>3, AnswerKeeps
<1>14. CASE ~(Len(seqs) > ScanLimit) /\ ~done
  <2>1. stop = end /\ end = page.nextFromSeq
    <3> HIDE DEF me, page, below, seqs
    <3> QED
      BY <1>3, <1>5, <1>14
  <2>2. ScanOn(c, seqs, page.nextFromSeq)
    BY <1>1, <1>14
  <2> HIDE DEF me, seqs, stop, page, end, done
  <2>3. stop \in 0..committed /\ ScanOn(c, seqs, stop)
    BY <1>3, <1>9, <2>1, <2>2
  <2> QED
    BY <1>1, <1>9, <1>10, <2>3, ScanKeeps DEF me
<1> QED
  BY <1>12, <1>13, <1>14

\* A page of recent() reaches the end of what was there.
LEMMA ScanRecentKeeps ==
  ASSUME ReadInv, NEW c \in Callers, ScanRecent(c)
  PROVE  ReadInv'
<1> DEFINE me == caller[c]
           limit == me.call.limit
           page == Page(me.from, limit, AllSessions)
           W(a, b) == Wanted(content, me.call, a, b)
           end == IF page.hasMore THEN page.nextFromSeq ELSE committed
<1>1. me.pc = "scan" /\ me.call.op = "recent" /\ LogStays /\ Answer(c, page.seqs)
  BY UnchangedLog DEF ScanRecent
<1>2. /\ content \in Contents /\ committed \in 0 .. Len(content) /\ Len(content) \in Nat
      /\ Scanning(me, content, committed)
  BY <1>1, LogFacts DEF ReadInv, ReadOf
<1>3. /\ committed \in Nat /\ me.asOf \in Nat /\ me.from \in Nat /\ me.asOf <= committed
      /\ me.from <= committed /\ limit \in Nat \ {0} /\ me.from = StartOf(me.call, me.asOf)
  BY <1>1, <1>2 DEF Scanning
<1>4. /\ end \in Nat /\ me.from <= end /\ end <= committed
      /\ Lists(page.seqs, Found(me.from, end, AllSessions))
      /\ page.hasMore => Len(page.seqs) = limit
      /\ ~page.hasMore => end = committed
  <2> HIDE DEF me, page, limit
  <2>1. page = Page(me.from, limit, AllSessions)
    BY DEF page
  <2> QED
    BY <1>3, <2>1, PageIs
<1>5. Found(me.from, end, AllSessions) = W(me.from, end)
  <2> HIDE DEF me, page, end
  <2>1. end \in 0..Len(content) /\ me.call.op # "raw"
    BY <1>1, <1>2, <1>4
  <2> QED
    BY <1>2, <1>3, <2>1, FoundIsWanted
<1>6. Len(page.seqs) = end - me.from
  <2> HIDE DEF me, page, end
  <2>1. W(me.from, end) = me.from .. end - 1
    BY <1>1 DEF Wanted
  <2> DEFINE S == me.from .. end - 1
  <2>2. IsFiniteSet(S) /\ Cardinality(S) = end - me.from
    <3>1. me.from \in Int /\ end - 1 \in Int
      BY <1>3, <1>4
    <3>2. /\ IsFiniteSet(S)
          /\ Cardinality(S) = IF me.from > end - 1 THEN 0 ELSE end - 1 - me.from + 1
      BY <3>1, FS_Interval
    <3> HIDE DEF S
    <3> QED
      BY <1>3, <1>4, <3>2
  <2>3. S \subseteq Nat
    BY <1>3
  <2>4. Lists(page.seqs, S)
    BY <1>4, <1>5, <2>1
  <2> HIDE DEF S
  <2> QED
    BY <2>2, <2>3, <2>4, ListsLen
<1>7. me.asOf <= end
  <2>1. me.from = IF me.asOf > limit THEN me.asOf - limit ELSE 0
    BY <1>1, <1>3 DEF StartOf
  <2> HIDE DEF me, page, end, limit
  <2> QED
    BY <1>3, <1>4, <1>6, <2>1
<1> DEFINE read == [call |-> me.call, asOf |-> me.asOf, seqs |-> page.seqs]
<1>8. Reached(read, content, committed)
  <2>1. read.call = me.call /\ read.asOf = me.asOf /\ read.seqs = page.seqs
    OBVIOUS
  <2> HIDE DEF read, page, end
  <2>2. end \in me.asOf .. committed
    BY <1>3, <1>4, <1>7
  <2>3. Lists(page.seqs, Wanted(content, me.call, StartOf(me.call, me.asOf), end))
    BY <1>3, <1>4, <1>5
  <2> QED
    BY <1>3, <2>1, <2>2, <2>3 DEF Reached
<1>9. AnswerTo(me, page.seqs)
  <2> HIDE DEF page
  <2> QED
    BY <1>1, <1>8 DEF AnswerTo
<1> HIDE DEF page
<1> QED
  BY <1>1, <1>9, AnswerKeeps

\* raw() stops at the end of the log.
LEMMA ScanRawKeeps ==
  ASSUME ReadInv, NEW c \in Callers, ScanRaw(c)
  PROVE  ReadInv'
<1> DEFINE me == caller[c]
           page == Page(me.from, PageLimit, {me.call.session})
           seqs == me.seqs \o page.seqs
           W(a, b) == Wanted(content, me.call, a, b)
           end == IF page.hasMore THEN page.nextFromSeq ELSE committed
           done == ~page.hasMore \/ page.nextFromSeq <= me.from
<1>1. /\ me.pc = "scan" /\ me.call.op = "raw" /\ LogStays
      /\ IF done THEN Answer(c, seqs)
         ELSE IF Len(seqs) >= ScanLimit THEN Refuse(c, "resource_limit")
         ELSE ScanOn(c, seqs, page.nextFromSeq)
  BY UnchangedLog DEF ScanRaw
<1>2. /\ content \in Contents /\ committed \in 0 .. Len(content) /\ Len(content) \in Nat
      /\ Scanning(me, content, committed)
  BY <1>1, LogFacts DEF ReadInv, ReadOf
<1>3. /\ committed \in Nat /\ me.asOf \in Nat /\ me.from \in Nat /\ me.asOf <= committed
      /\ me.from <= committed /\ Lists(me.seqs, W(0, me.from))
  BY <1>1, <1>2 DEF Scanning
<1>4. PageLimit \in Nat \ {0}
  BY SesdbClientAssumption
<1>5. /\ end \in Nat /\ me.from <= end /\ end <= committed
      /\ Lists(page.seqs, Found(me.from, end, {me.call.session}))
      /\ page.hasMore => end = page.nextFromSeq /\ me.from < end
      /\ ~page.hasMore => end = committed
  <2> HIDE DEF me, page
  <2>1. page = Page(me.from, PageLimit, {me.call.session})
    BY DEF page
  <2> QED
    BY <1>3, <1>4, <2>1, PageIs
<1>6. Found(me.from, end, {me.call.session}) = W(me.from, end)
  <2> HIDE DEF me, page, end
  <2>1. end \in 0..Len(content)
    BY <1>2, <1>5
  <2> QED
    BY <1>1, <1>2, <1>3, <2>1, FoundIsWanted
<1>7. Lists(seqs, W(0, end))
  <2> HIDE DEF me, page, end
  <2> QED
    BY <1>3, <1>5, <1>6, WantedConcat
<1>8. CASE done
  <2> DEFINE read == [call |-> me.call, asOf |-> me.asOf, seqs |-> seqs]
  <2>1. read.call = me.call /\ read.asOf = me.asOf /\ read.seqs = seqs
    OBVIOUS
  <2>2. end = committed
    <3> HIDE DEF me, page
    <3> QED
      BY <1>3, <1>5, <1>8
  <2> HIDE DEF read, page, end, seqs
  <2>3. StartOf(me.call, me.asOf) = 0
    BY <1>1 DEF StartOf
  <2>4. Reached(read, content, committed)
    <3>1. committed \in me.asOf .. committed
      BY <1>3
    <3>2. Lists(seqs, Wanted(content, me.call, StartOf(me.call, me.asOf), committed))
      BY <1>7, <2>2, <2>3
    <3> QED
      BY <1>1, <1>3, <2>1, <3>1, <3>2 DEF Reached
  <2>5. AnswerTo(me, seqs)
    BY <1>1, <2>4 DEF AnswerTo, read
  <2> QED
    BY <1>1, <1>8, <2>5, AnswerKeeps
<1>9. CASE ~done /\ Len(seqs) >= ScanLimit
  <2> HIDE DEF seqs, page
  <2> QED
    BY <1>1, <1>9, RefuseKeeps
<1>10. CASE ~done /\ ~(Len(seqs) >= ScanLimit)
  <2>1. end = page.nextFromSeq
    <3> HIDE DEF me, page
    <3> QED
      BY <1>5, <1>10
  <2>2. ScanOn(c, seqs, page.nextFromSeq)
    BY <1>1, <1>10
  <2> HIDE DEF me, seqs, page, end, done
  <2>3. end \in 0..committed /\ ScanOn(c, seqs, end)
    BY <1>3, <1>5, <2>1, <2>2
  <2> QED
    BY <1>1, <1>7, <2>3, ScanKeeps DEF me
<1> QED
  BY <1>8, <1>9, <1>10

-----------------------------------------------------------------------------
(* Every step, and the theorem.                                            *)

\* What finds a daemon.
LEMMA DiscoverKeeps ==
  ASSUME ReadInv, NEW c \in Callers, Discover(c)
  PROVE  ReadInv'
<1>1. LogStays
  BY UnchangedLog DEF Discover, ReadDescriptor, CheckHealth, Unlink, Spawn, PollDescriptor,
     PollHealth, Deadline, LogStays
<1>2. CASE ReadDescriptor(c)
  <2>1. PICK pc \in {"spawn", "check"} : Goto(c, pc, descriptor) /\ caller[c].pc = "idle"
    BY <1>2 DEF ReadDescriptor
  <2> QED
    BY <1>1, <2>1, GotoKeeps
<1>3. CASE CheckHealth(c)
  <2>1. PICK pc \in {"ready", "unlink"} :
          Goto(c, pc, caller[c].conn) /\ caller[c].pc = "check"
    BY <1>3 DEF CheckHealth
  <2> QED
    BY <1>1, <2>1, GotoKeeps
<1>4. CASE Unlink(c)
  <2>1. Goto(c, "spawn", 0) /\ caller[c].pc = "unlink"
    BY <1>4 DEF Unlink
  <2> QED
    BY <1>1, <2>1, GotoKeeps
<1>5. CASE Spawn(c)
  <2>1. caller[c].pc = "spawn" /\ (Goto(c, "poll", 0) \/ Refuse(c, "engine_unavailable"))
    BY <1>5 DEF Spawn, Fail
  <2> QED
    BY <1>1, <2>1, GotoKeeps, RefuseKeeps
<1>6. CASE PollDescriptor(c)
  <2>1. Goto(c, "pollCheck", descriptor) /\ caller[c].pc = "poll"
    BY <1>6 DEF PollDescriptor
  <2> QED
    BY <1>1, <2>1, GotoKeeps
<1>7. CASE PollHealth(c)
  <2>1. PICK pc \in {"ready", "poll"}, conn \in {caller[c].conn, 0} :
          Goto(c, pc, conn) /\ caller[c].pc = "pollCheck"
    BY <1>7 DEF PollHealth
  <2> QED
    BY <1>1, <2>1, GotoKeeps
<1>8. CASE Deadline(c)
  <2>1. Refuse(c, "engine_unavailable")
    BY <1>8 DEF Deadline, Fail
  <2> QED
    BY <1>1, <2>1, RefuseKeeps
<1> QED
  BY <1>2, <1>3, <1>4, <1>5, <1>6, <1>7, <1>8 DEF Discover

\* A caller that starts afresh has read nothing.
LEMMA AfreshKeeps ==
  ASSUME ReadInv, LogStays, NEW c \in Callers, NEW new, caller' = [caller EXCEPT ![c] = new],
         DOMAIN new = DOMAIN Idle, new.pc \in {"idle", "ready"}, new.call.op = "none",
         new.seqs = <<>>
  PROVE  ReadInv'
<1>1. ReadOf(new, content, committed)
  BY DEF ReadOf
<1>2. DOMAIN caller = Callers
  BY DEF ReadInv
<1>3. /\ DOMAIN caller' = DOMAIN caller /\ \A d \in Callers \ {c} : caller'[d] = caller[d]
      /\ caller'[c] = new
  BY <1>2
<1> QED
  BY <1>1, <1>3, Alone

\* What reads.
LEMMA ReadKeeps ==
  ASSUME ReadInv, NEW c \in Callers, Read(c)
  PROVE  ReadInv'
<1>1. LogStays
  BY UnchangedLog DEF Read, Connected, BeginQuery, BeginRecent, BeginRaw, ScanPage, ScanRecent,
     ScanRaw, RequestFails, NextCall
<1>2. ASSUME caller[c].pc = "ready"
      PROVE  caller[c].call.op = "none"
  BY <1>2 DEF ReadInv, ReadOf
<1>3. CASE Connected(c)
  <2>1. Answer(c, <<>>) /\ AnswerTo(caller[c], <<>>)
    BY <1>2, <1>3 DEF Connected, AnswerTo
  <2> QED
    BY <1>1, <2>1, AnswerKeeps
<1>4. CASE BeginQuery(c)
  <2>1. PICK refusal \in Refusals :
          IF refusal # "" THEN Refuse(c, refusal) ELSE Begin(c, [op |-> "query"], 0)
    BY <1>4 DEF BeginQuery
  <2>2. caller[c].pc = "ready" /\ caller[c].call.op = "none"
    BY <1>2, <1>4 DEF BeginQuery
  <2>3. CASE refusal # ""
    BY <1>1, <2>1, <2>2, <2>3, RefuseKeeps
  <2>4. CASE refusal = ""
    <3> DEFINE call == [op |-> "query"]
    <3>1. call.op = "query" /\ StartOf(call, committed) = 0
      BY DEF StartOf
    <3>2. Begin(c, call, 0)
      BY <2>1, <2>4
    <3> HIDE DEF call
    <3> QED
      BY <1>1, <2>2, <3>1, <3>2, BeginKeeps
  <2> QED
    BY <2>3, <2>4
<1>5. CASE BeginRecent(c)
  <2>1. PICK limit \in RecentLimits :
          Begin(c, [op |-> "recent", limit |-> limit],
                IF committed > limit THEN committed - limit ELSE 0)
    BY <1>5 DEF BeginRecent
  <2> DEFINE call == [op |-> "recent", limit |-> limit]
             from == IF committed > limit THEN committed - limit ELSE 0
  <2>2. call.op = "recent" /\ call.limit = limit /\ from = StartOf(call, committed)
    BY DEF StartOf
  <2>3. limit \in Nat \ {0} /\ caller[c].pc = "ready" /\ Begin(c, call, from)
    BY <1>5, <2>1, SesdbClientAssumption DEF BeginRecent
  <2> HIDE DEF call, from
  <2> QED
    BY <1>1, <2>2, <2>3, BeginKeeps
<1>6. CASE BeginRaw(c)
  <2>1. PICK s \in Sessions : Begin(c, [op |-> "raw", session |-> s], 0)
    BY <1>6 DEF BeginRaw
  <2> DEFINE call == [op |-> "raw", session |-> s]
  <2>2. call.op = "raw" /\ StartOf(call, committed) = 0
    BY DEF StartOf
  <2>3. caller[c].pc = "ready" /\ Begin(c, call, 0)
    BY <1>6, <2>1 DEF BeginRaw
  <2> HIDE DEF call
  <2> QED
    BY <1>1, <2>2, <2>3, BeginKeeps
<1>7. CASE RequestFails(c)
  <2>1. Refuse(c, "engine_unavailable")
    BY <1>7 DEF RequestFails, Fail
  <2> QED
    BY <1>1, <2>1, RefuseKeeps
<1>8. CASE NextCall(c)
  <2>1. PICK next \in {0, caller[c].conn} :
          caller' = [caller EXCEPT ![c] =
                       IF next = 0 THEN Idle ELSE [Idle EXCEPT !.pc = "ready", !.conn = next]]
    BY <1>8 DEF NextCall
  <2> DEFINE new == IF next = 0 THEN Idle ELSE [Idle EXCEPT !.pc = "ready", !.conn = next]
  <2>2. /\ DOMAIN new = DOMAIN Idle /\ new.pc \in {"idle", "ready"} /\ new.call.op = "none"
        /\ new.seqs = <<>>
    BY DEF Idle
  <2> HIDE DEF new
  <2>3. caller' = [caller EXCEPT ![c] = new]
    BY <2>1 DEF new
  <2> QED
    BY <1>1, <2>2, <2>3, AfreshKeeps
<1> QED
  BY <1>3, <1>4, <1>5, <1>6, <1>7, <1>8, ScanPageKeeps, ScanRecentKeeps, ScanRawKeeps DEF Read

\* What leaves the callers alone.
LEMMA LogGrows ==
  ASSUME ReadInv, caller' = caller, content' = content,
         committed' = committed \/ (committed < Len(content) /\ committed' = committed + 1)
  PROVE  ReadInv'
<1>1. /\ content \in Contents /\ Len(content) \in Nat /\ committed \in 0 .. Len(content)
      /\ DOMAIN caller = Callers /\ \A c \in Callers : ReadOf(caller[c], content, committed)
  BY LogFacts DEF ReadInv
<1>2. committed \in Nat /\ committed' \in 0 .. Len(content) /\ committed <= committed'
  BY <1>1
<1>3. \A c \in Callers : ReadOf(caller[c], content, committed')
  <2> SUFFICES ASSUME NEW c \in Callers
               PROVE  ReadOf(caller[c], content, committed')
    OBVIOUS
  <2>1. \A m \in Nat : committed <= m => ReadOf(caller[c], content, m)
    BY <1>1, <1>2, Grows
  <2> QED
    BY <1>2, <2>1
<1> QED
  BY <1>1, <1>2, <1>3 DEF ReadInv

\* Nothing has been read to begin with.
LEMMA ReadInvInit ==
  ASSUME Init
  PROVE  ReadInv
<1>1. /\ content \in Contents /\ committed = 0 /\ DOMAIN caller = Callers
      /\ \A c \in Callers : caller[c] = Idle
  BY DEF Init
<1>2. Idle.pc = "idle" /\ Idle.call.op = "none" /\ Idle.seqs = <<>>
  BY DEF Idle
<1>3. \A c \in Callers : ReadOf(caller[c], content, committed)
  BY <1>1, <1>2 DEF ReadOf
<1>4. committed \in 0 .. Len(content)
  BY <1>1, LogFacts
<1> QED
  BY <1>1, <1>3, <1>4 DEF ReadInv

\* One case for each kind of step.
LEMMA ReadInvNext ==
  ASSUME ReadInv, [Next]_vars
  PROVE  ReadInv'
<1>1. CASE UNCHANGED vars
  <2>1. caller' = caller /\ content' = content /\ committed' = committed
    BY <1>1 DEF vars
  <2> QED
    BY <2>1, LogGrows
<1>2. ASSUME NEW c \in Callers, Stop(c)
      PROVE  ReadInv'
  <2>1. LogStays /\ caller' = [caller EXCEPT ![c] = Idle]
    BY <1>2 DEF Stop, LogStays
  <2>2. Idle.pc = "idle" /\ Idle.call.op = "none" /\ Idle.seqs = <<>>
    BY DEF Idle
  <2> QED
    BY <2>1, <2>2, AfreshKeeps
<1>3. ASSUME NEW c \in Callers, StartDaemon(c)
      PROVE  ReadInv'
  <2>1. caller' = caller /\ content' = content /\ committed' = committed
    BY <1>3 DEF StartDaemon
  <2> QED
    BY <2>1, LogGrows
<1>4. ASSUME NEW d \in Daemons, Serve(d) \/ Crash(d) \/ BecomeBusy(d)
      PROVE  ReadInv'
  <2>1. caller' = caller /\ content' = content /\ committed' = committed
    BY <1>4 DEF Serve, Publish, RemoveDescriptor, Exit, BecomeFree, Crash, BecomeBusy
  <2> QED
    BY <2>1, LogGrows
<1>5. ASSUME NEW d \in Daemons, Commit(d)
      PROVE  ReadInv'
  <2>1. /\ caller' = caller /\ content' = content
        /\ committed < Len(content) /\ committed' = committed + 1
    BY <1>5 DEF Commit
  <2> QED
    BY <2>1, LogGrows
<1> QED
  BY <1>1, <1>2, <1>3, <1>4, <1>5, DiscoverKeeps, ReadKeeps DEF Next

\* recent() and raw() leave nothing out of what they reached.
LEMMA ReachedHasNoGaps ==
  ASSUME content \in Contents, committed \in Nat, NEW me, Reached(me, content, committed),
         me.call.op \in {"recent", "raw"}
  PROVE  NoGapsIn(me)
<1> DEFINE start == StartOf(me.call, me.asOf)
           Looked(seq) == me.call.op = "raw" => content[seq + 1].session = me.call.session
           seqs == me.seqs
           asOf == me.asOf
           wanted == {seq \in 0 .. committed - 1 : seq >= start /\ Looked(seq)}
           reached == {seq \in wanted : seq < asOf \/ \E i \in DOMAIN seqs : seq < seqs[i]}
<1>1. NoGapsIn(me) <=> /\ \A i, j \in DOMAIN seqs : i < j => seqs[i] < seqs[j]
                       /\ reached \subseteq ToSet(seqs) /\ ToSet(seqs) \subseteq wanted
  BY DEF NoGapsIn, StartOf
<1>2. asOf \in Nat /\ start \in Nat
  <2>1. asOf \in Nat /\ (me.call.op = "recent" => me.call.limit \in Nat)
    BY DEF Reached
  <2> HIDE DEF asOf
  <2>2. start = IF me.call.op = "recent" /\ asOf > me.call.limit
                THEN asOf - me.call.limit ELSE 0
    BY DEF StartOf, asOf
  <2> HIDE DEF start
  <2> QED
    BY <2>1, <2>2
<1>3. PICK end \in asOf .. committed : Lists(seqs, Wanted(content, me.call, start, end))
  BY DEF Reached
<1> DEFINE S == Wanted(content, me.call, start, end)
<1>4. \A x : x \in S <=> x \in start .. end - 1 /\ Looked(x)
  BY DEF Wanted
<1>5. S \subseteq Nat
  BY <1>2, <1>3, <1>4
<1> HIDE DEF S, seqs, start, asOf, Looked
<1>6. Lists(seqs, S)
  BY <1>3 DEF S
<1>7. /\ ToSet(seqs) = S /\ DOMAIN seqs = 1..Len(seqs) /\ Len(seqs) \in Nat
      /\ \A i \in DOMAIN seqs : seqs[i] \in S
  <2>1. ToSet(seqs) = S /\ DOMAIN seqs = 1..Len(seqs)
    BY <1>5, <1>6, ListsLen
  <2>2. seqs \in Seq(S)
    BY <1>6 DEF Lists
  <2> QED
    BY <2>1, <2>2
<1>8. \A i, j \in DOMAIN seqs : i < j => seqs[i] < seqs[j]
  BY <1>6, <1>7 DEF Lists
<1>9. S \subseteq wanted
  <2> SUFFICES ASSUME NEW x \in S
               PROVE  x \in wanted
    OBVIOUS
  <2>1. x \in start .. end - 1 /\ Looked(x)
    BY <1>4
  <2> QED
    BY <1>2, <1>3, <2>1
<1>10. reached \subseteq S
  <2> SUFFICES ASSUME NEW x \in reached
               PROVE  x \in S
    OBVIOUS
  <2>1. /\ x \in 0 .. committed - 1 /\ x >= start /\ Looked(x)
        /\ x < asOf \/ \E i \in DOMAIN seqs : x < seqs[i]
    OBVIOUS
  <2>2. \A i \in DOMAIN seqs : seqs[i] \in start .. end - 1
    BY <1>4, <1>7
  <2>3. x < end
    BY <1>2, <1>3, <2>1, <2>2
  <2> QED
    BY <1>2, <1>3, <1>4, <2>1, <2>3
<1> HIDE DEF wanted, reached
<1> QED
  BY <1>1, <1>7, <1>8, <1>9, <1>10

\* The invariant says what the property asks.
LEMMA ReadInvImplies ==
  ASSUME ReadInv
  PROVE  ReadsAreSnapshots
<1>1. committed \in Nat /\ content \in Contents
  BY LogFacts DEF ReadInv
<1>2. ASSUME NEW c \in Callers, caller[c].pc = "ended", caller[c].error # "engine_unavailable"
      PROVE  CASE caller[c].call.op = "query" -> SnapshotOf(caller[c])
               [] caller[c].call.op \in {"recent", "raw"} /\ caller[c].error = "" -> NoGapsIn(caller[c])
               [] OTHER -> TRUE
  <2>1. Ended(caller[c], content, committed)
    BY <1>2 DEF ReadInv, ReadOf
  <2> QED
    BY <1>1, <1>2, <2>1, ReachedHasNoGaps DEF Ended
<1> QED
  BY <1>2 DEF ReadsAreSnapshots

\* Whatever callers, daemons, logs and bounds there are, and whatever is appended
\* between the pages of a call: a query is a snapshot as of its stats, and recent()
\* and raw() have no gaps (index.ts:243, 261, 378).
THEOREM Snapshots == Spec => []ReadsAreSnapshots
<1>1. Init => ReadInv
  BY ReadInvInit
<1>2. ReadInv /\ [Next]_vars => ReadInv'
  BY ReadInvNext
<1>3. ReadInv => ReadsAreSnapshots
  BY ReadInvImplies
<1> QED
  BY <1>1, <1>2, <1>3, PTL DEF Spec
=============================================================================
