---------------------------- MODULE CaptureProofs ----------------------------
(***************************************************************************)
(* Proofs about Capture for every cap on lines and every bound: framing    *)
(* does not depend on how the stream is cut into chunks, so that the store *)
(* gets every line once and whole (CapturesAll), and no mishap does more   *)
(* than cost lines (IInv).  The lemmas are about framing a concatenation   *)
(* (FramedConcat) and about leaving out elements (Embeds).                 *)
(***************************************************************************)
EXTENDS Capture, Numbers, TLAPS

-----------------------------------------------------------------------------
(* Framing byte by byte.                                                   *)

Lines == Seq(Bytes)
NoFrame == [lines |-> <<>>, partial |-> <<>>]

\* t and u begin with the same k elements.
Agree(t, u, k) == \A i \in 1..k : t[i] = u[i]

\* after is the table of Framed's states up to n.
FrameTable(s, n, after) ==
  after = [i \in 0..n |-> IF i = 0 THEN NoFrame ELSE Framing(after[i - 1], s[i])]

LEMMA FrameTableExists ==
  ASSUME NEW s
  PROVE  \A n \in Nat : \E after : FrameTable(s, n, after)
<1> DEFINE T == {n \in Nat : \E after : FrameTable(s, n, after)}
<1>1. 0 \in T
  <2>1. FrameTable(s, 0, [i \in 0..0 |-> NoFrame])
    BY DEF FrameTable
  <2> QED
    BY <2>1
<1>2. ASSUME NEW n \in Nat, n \in T
      PROVE  n + 1 \in T
  <2>1. PICK g : FrameTable(s, n, g)
    BY <1>2
  <2> DEFINE h == [i \in 0..(n + 1) |-> IF i = n + 1 THEN Framing(g[n], s[n + 1]) ELSE g[i]]
  <2>2. ASSUME NEW i \in 0..(n + 1)
        PROVE  h[i] = IF i = 0 THEN NoFrame ELSE Framing(h[i - 1], s[i])
    <3>1. CASE i = n + 1
      <4>1. i # 0 /\ i - 1 = n /\ n \in 0..(n + 1) /\ n # n + 1
        BY <3>1
      <4> QED
        BY <3>1, <4>1
    <3>2. CASE i # n + 1
      <4>1. i \in 0..n
        BY <3>2
      <4>2. g[i] = IF i = 0 THEN NoFrame ELSE Framing(g[i - 1], s[i])
        BY <2>1, <4>1 DEF FrameTable
      <4>3. i # 0 => h[i - 1] = g[i - 1]
        BY <4>1
      <4> QED
        BY <3>2, <4>2, <4>3
    <3> QED
      BY <3>1, <3>2
  <2>3. FrameTable(s, n + 1, h)
    BY <2>2 DEF FrameTable
  <2> QED
    BY <2>3
<1> QED
  <2> HIDE DEF T
  <2>1. Nat \subseteq T
    BY <1>1, <1>2, NaturalsIn
  <2> QED
    BY <2>1 DEF T

LEMMA FrameTablesAgree ==
  ASSUME NEW t, NEW u, NEW m \in Nat, NEW n \in Nat, NEW k \in Nat, k <= m, k <= n,
         Agree(t, u, k),
         NEW g, FrameTable(t, m, g), NEW h, FrameTable(u, n, h)
  PROVE  g[k] = h[k]
<1> DEFINE T == {i \in Nat : i <= k => g[i] = h[i]}
<1>1. 0 \in T
  <2>1. 0 \in 0..m /\ 0 \in 0..n
    OBVIOUS
  <2> QED
    BY <2>1 DEF FrameTable
<1>2. ASSUME NEW i \in Nat, i \in T, i + 1 <= k
      PROVE  g[i + 1] = h[i + 1]
  <2>1. /\ i + 1 \in 0..m /\ i + 1 \in 0..n /\ i + 1 \in 1..k
        /\ i + 1 # 0 /\ (i + 1) - 1 = i /\ i <= k
    BY <1>2
  <2>2. g[i + 1] = Framing(g[i], t[i + 1]) /\ h[i + 1] = Framing(h[i], u[i + 1])
    BY <2>1 DEF FrameTable
  <2>3. g[i] = h[i] /\ t[i + 1] = u[i + 1]
    BY <1>2, <2>1 DEF Agree
  <2> QED
    BY <2>2, <2>3
<1>3. Nat \subseteq T
  <2>1. \A i \in Nat : i \in T => i + 1 \in T
    BY <1>2
  <2> HIDE DEF T
  <2> QED
    BY <1>1, <2>1, NaturalsIn
<1> QED
  BY <1>3

LEMMA FramedTable ==
  ASSUME NEW s \in Lines
  PROVE  \E after : FrameTable(s, Len(s), after) /\ Framed(s) = after[Len(s)]
<1>1. \E after : FrameTable(s, Len(s), after)
  <2>1. Len(s) \in Nat
    BY DEF Lines
  <2> QED
    BY <2>1, FrameTableExists
<1> QED
  BY <1>1 DEF Framed, FrameTable, NoFrame

LEMMA FramedNone == Framed(<<>>) = NoFrame
<1>1. <<>> \in Lines /\ Len(<<>>) = 0
  BY DEF Lines
<1>2. PICK after : FrameTable(<<>>, 0, after) /\ Framed(<<>>) = after[0]
  BY <1>1, FramedTable
<1> QED
  BY <1>2 DEF FrameTable

LEMMA FramedAppend ==
  ASSUME NEW s \in Lines, NEW b \in Bytes
  PROVE  Framed(Append(s, b)) = Framing(Framed(s), b)
<1> DEFINE more == Append(s, b)
           n == Len(s)
<1>1. /\ n \in Nat /\ more \in Lines /\ Len(more) = n + 1
      /\ \A i \in 1..n : more[i] = s[i]
      /\ more[n + 1] = b
  BY AppendProperties DEF Lines
<1> HIDE DEF more, n
<1>2. PICK g : FrameTable(s, n, g) /\ Framed(s) = g[n]
  BY FramedTable DEF n
<1>3. PICK h : FrameTable(more, n + 1, h) /\ Framed(more) = h[n + 1]
  BY <1>1, FramedTable
<1>4. g[n] = h[n]
  <2>1. n \in Nat /\ n <= n /\ n <= n + 1 /\ n + 1 \in Nat
    BY <1>1
  <2>2. Agree(s, more, n)
    BY <1>1 DEF Agree
  <2>3. FrameTable(s, n, g) /\ FrameTable(more, n + 1, h)
    BY <1>2, <1>3
  <2> QED
    BY <2>1, <2>2, <2>3, FrameTablesAgree
<1>5. h[n + 1] = Framing(h[n], more[n + 1])
  <2>1. n + 1 \in 0..(n + 1) /\ n + 1 # 0 /\ (n + 1) - 1 = n
    BY <1>1
  <2> QED
    BY <1>3, <2>1 DEF FrameTable
<1> QED
  BY <1>1, <1>2, <1>3, <1>4, <1>5 DEF more

\* Stripping as Framing does it.
LEMMA StripType ==
  ASSUME NEW l \in Lines
  PROVE  (IF l # <<>> /\ Last(l) = CR THEN Front(l) ELSE l) \in Lines
<1>1. CASE l # <<>>
  <2>1. Len(l) \in Nat /\ Len(l) # 0 /\ \A i \in 1..Len(l) : l[i] \in Bytes
    BY <1>1, EmptySeq DEF Lines
  <2>2. \A i \in 1..(Len(l) - 1) : l[i] \in Bytes
    BY <2>1
  <2>3. SubSeq(l, 1, Len(l) - 1) \in Lines
    BY <2>1, <2>2, SubSeqProperties DEF Lines
  <2> QED
    BY <2>3 DEF Front
<1> QED
  BY <1>1

LEMMA FrameStep ==
  ASSUME NEW s \in Lines, NEW b \in Bytes
  PROVE  /\ b # NL => /\ LinesOf(Append(s, b)) = LinesOf(s)
                      /\ PartialOf(Append(s, b)) = Append(PartialOf(s), b)
         /\ b = NL => /\ LinesOf(Append(s, b)) = Append(LinesOf(s), Stripped(PartialOf(s)))
                      /\ PartialOf(Append(s, b)) = <<>>
<1> DEFINE f == Framed(s)
<1>1. Framed(Append(s, b)) = Framing(f, b)
  BY FramedAppend
<1>2. f.lines = LinesOf(s) /\ f.partial = PartialOf(s)
  BY DEF LinesOf, PartialOf
<1>3. "lines" \in DOMAIN f /\ "partial" \in DOMAIN f /\ f = [lines |-> f.lines, partial |-> f.partial]
  <2> DEFINE T == {t \in Lines : Framed(t) = [lines |-> Framed(t).lines, partial |-> Framed(t).partial]}
  <2>1. <<>> \in T
    BY FramedNone DEF NoFrame, Lines
  <2>2. ASSUME NEW t \in Lines, NEW c \in Bytes, t \in T
        PROVE  Append(t, c) \in T
    <3> DEFINE g == Framed(t)
               h == Framed(Append(t, c))
    <3>1. g = [lines |-> g.lines, partial |-> g.partial]
      BY <2>2
    <3>2. h = Framing(g, c)
      BY FramedAppend
    <3>3. Append(t, c) \in Lines
      BY DEF Lines
    <3> HIDE DEF g, h
    <3>4. CASE c # NL
      <4>1. h = [g EXCEPT !.partial = Append(@, c)]
        BY <3>2, <3>4 DEF Framing
      <4>2. h = [lines |-> g.lines, partial |-> Append(g.partial, c)]
        BY <3>1, <4>1
      <4>3. h = [lines |-> h.lines, partial |-> h.partial]
        BY <4>2
      <4> QED
        BY <3>3, <4>3 DEF h
    <3>5. CASE c = NL
      <4>1. \E ls : h = [lines |-> ls, partial |-> <<>>]
        BY <3>2, <3>5 DEF Framing
      <4>2. h = [lines |-> h.lines, partial |-> h.partial]
        BY <4>1
      <4> QED
        BY <3>3, <4>2 DEF h
    <3> QED
      BY <3>4, <3>5
  <2>3. Lines \subseteq T
    <3> HIDE DEF T
    <3> QED
      BY <2>1, <2>2, SequencesIn DEF Lines
  <2>4. f = [lines |-> f.lines, partial |-> f.partial]
    BY <2>3
  <2> HIDE DEF f
  <2> QED
    BY <2>4
<1> HIDE DEF f
<1>4. ASSUME b # NL
      PROVE  Framed(Append(s, b)) = [lines |-> f.lines, partial |-> Append(f.partial, b)]
  <2>1. Framed(Append(s, b)) = [f EXCEPT !.partial = Append(@, b)]
    BY <1>1, <1>4 DEF Framing
  <2> QED
    BY <1>3, <2>1
<1>5. ASSUME b = NL
      PROVE  Framed(Append(s, b)) = [lines |-> Append(f.lines, Stripped(f.partial)), partial |-> <<>>]
  BY <1>1, <1>5 DEF Framing, Stripped
<1> QED
  BY <1>2, <1>4, <1>5 DEF LinesOf, PartialOf

LEMMA FramedEmpty == LinesOf(<<>>) = <<>> /\ PartialOf(<<>>) = <<>>
BY FramedNone DEF LinesOf, PartialOf, NoFrame

LEMMA NewlinesAppend ==
  ASSUME NEW s \in Lines, NEW b \in Bytes
  PROVE  Newlines(Append(s, b)) = {} <=> Newlines(s) = {} /\ b # NL
<1> DEFINE p == Append(s, b)
<1>1. /\ DOMAIN p = 1..(Len(s) + 1) /\ Len(s) \in Nat
      /\ DOMAIN s = 1..Len(s)
      /\ \A i \in 1..Len(s) : p[i] = s[i]
      /\ p[Len(s) + 1] = b
  BY AppendProperties DEF Lines
<1>2. \A i \in DOMAIN p : i \in DOMAIN s \/ i = Len(s) + 1
  BY <1>1
<1>3. (\A i \in DOMAIN s : i \in DOMAIN p) /\ Len(s) + 1 \in DOMAIN p
  BY <1>1
<1> HIDE DEF p
<1>4. (\A i \in DOMAIN p : p[i] # NL) <=> (\A i \in DOMAIN s : s[i] # NL) /\ b # NL
  BY <1>1, <1>2, <1>3
<1> QED
  BY <1>4 DEF Newlines, p

\* What Framed gives.
LEMMA FramedFacts ==
  ASSUME NEW s \in Lines
  PROVE  /\ LinesOf(s) \in Seq(Lines)
         /\ PartialOf(s) \in Lines /\ Newlines(PartialOf(s)) = {}
<1> DEFINE T == {t \in Lines : /\ LinesOf(t) \in Seq(Lines)
                               /\ PartialOf(t) \in Lines /\ Newlines(PartialOf(t)) = {}}
<1>1. <<>> \in Lines /\ <<>> \in Seq(Lines) /\ Newlines(<<>>) = {}
  BY DEF Lines, Newlines
<1>2. <<>> \in T
  BY <1>1, FramedEmpty
<1>3. ASSUME NEW t \in Lines, NEW b \in Bytes, t \in T
      PROVE  Append(t, b) \in T
  <2> DEFINE more == Append(t, b)
             l == Stripped(PartialOf(t))
  <2>1. more \in Lines
    BY DEF Lines
  <2>2. CASE b # NL
    <3>1. Append(PartialOf(t), b) \in Lines /\ Newlines(Append(PartialOf(t), b)) = {}
      BY <1>3, <2>2, NewlinesAppend DEF Lines
    <3> QED
      BY <1>3, <2>1, <2>2, <3>1, FrameStep
  <2>3. CASE b = NL
    <3>1. l \in Lines
      BY <1>3, StripType DEF Stripped
    <3> HIDE DEF l
    <3>2. Append(LinesOf(t), l) \in Seq(Lines)
      BY <1>3, <3>1
    <3>3. LinesOf(more) = Append(LinesOf(t), l) /\ PartialOf(more) = <<>>
      BY <2>3, FrameStep DEF l
    <3> HIDE DEF more
    <3> QED
      BY <1>1, <2>1, <3>2, <3>3 DEF more
  <2> QED
    BY <2>2, <2>3
<1>4. Lines \subseteq T
  <2> HIDE DEF T
  <2> QED
    BY <1>2, <1>3, SequencesIn DEF Lines
<1> QED
  BY <1>4

\* Bytes without a newline are no line yet.
LEMMA NoNewline ==
  ASSUME NEW s \in Lines, Newlines(s) = {}
  PROVE  LinesOf(s) = <<>> /\ PartialOf(s) = s
<1> DEFINE T == {t \in Lines : Newlines(t) = {} => LinesOf(t) = <<>> /\ PartialOf(t) = t}
<1>1. <<>> \in T
  BY FramedEmpty DEF Lines
<1>2. ASSUME NEW t \in Lines, NEW b \in Bytes, t \in T
      PROVE  Append(t, b) \in T
  <2>1. Append(t, b) \in Lines
    BY DEF Lines
  <2> QED
    BY <1>2, <2>1, NewlinesAppend, FrameStep
<1>3. Lines \subseteq T
  <2> HIDE DEF T
  <2> QED
    BY <1>1, <1>2, SequencesIn DEF Lines
<1> QED
  BY <1>3

\* Framing does not depend on where the stream is cut.
LEMMA FramedConcat ==
  ASSUME NEW s \in Lines, NEW t \in Lines
  PROVE  /\ LinesOf(s \o t) = LinesOf(s) \o LinesOf(PartialOf(s) \o t)
         /\ PartialOf(s \o t) = PartialOf(PartialOf(s) \o t)
<1> DEFINE p == PartialOf(s)
           Joins(u) == /\ LinesOf(s \o u) = LinesOf(s) \o LinesOf(p \o u)
                       /\ PartialOf(s \o u) = PartialOf(p \o u)
           T == {u \in Lines : Joins(u)}
<1>1. p \in Lines /\ LinesOf(s) \in Seq(Lines) /\ LinesOf(p) = <<>> /\ PartialOf(p) = p
  BY FramedFacts, NoNewline
<1> HIDE DEF p
<1>2. <<>> \in T
  <2>1. s \o <<>> = s /\ p \o <<>> = p /\ LinesOf(s) \o <<>> = LinesOf(s)
    BY <1>1, ConcatEmptySeq DEF Lines
  <2>2. Joins(<<>>)
    BY <1>1, <2>1 DEF p
  <2> QED
    BY <2>2 DEF Lines
<1>3. ASSUME NEW u \in Lines, NEW b \in Bytes, u \in T
      PROVE  Append(u, b) \in T
  <2> DEFINE v == s \o u
             w == p \o u
  <2>1. v \in Lines /\ w \in Lines /\ Append(u, b) \in Lines
    BY <1>1 DEF Lines
  <2>2. s \o Append(u, b) = Append(v, b) /\ p \o Append(u, b) = Append(w, b)
    <3>1. s \in Seq(Bytes) /\ p \in Seq(Bytes) /\ u \in Seq(Bytes)
      BY <1>1 DEF Lines
    <3> QED
      BY <3>1
  <2>3. LinesOf(v) = LinesOf(s) \o LinesOf(w) /\ PartialOf(v) = PartialOf(w)
    BY <1>3
  <2> HIDE DEF v, w
  <2>4. LinesOf(w) \in Seq(Lines) /\ Stripped(PartialOf(w)) \in Lines
    BY <2>1, FramedFacts, StripType DEF Stripped
  <2>5. CASE b # NL
    <3>1. /\ LinesOf(Append(v, b)) = LinesOf(v) /\ PartialOf(Append(v, b)) = Append(PartialOf(v), b)
          /\ LinesOf(Append(w, b)) = LinesOf(w) /\ PartialOf(Append(w, b)) = Append(PartialOf(w), b)
      BY <2>1, <2>5, FrameStep
    <3>2. Joins(Append(u, b))
      BY <2>2, <2>3, <3>1
    <3> HIDE DEF Joins
    <3> QED
      BY <2>1, <3>2
  <2>6. CASE b = NL
    <3> DEFINE l == Stripped(PartialOf(w))
    <3>1. /\ LinesOf(Append(v, b)) = Append(LinesOf(v), l) /\ PartialOf(Append(v, b)) = <<>>
          /\ LinesOf(Append(w, b)) = Append(LinesOf(w), l) /\ PartialOf(Append(w, b)) = <<>>
      BY <2>1, <2>3, <2>6, FrameStep
    <3> HIDE DEF l
    <3>2. Append(LinesOf(s) \o LinesOf(w), l) = LinesOf(s) \o Append(LinesOf(w), l)
      <4>1. LinesOf(s) \in Seq(Lines) /\ LinesOf(w) \in Seq(Lines) /\ l \in Lines
        BY <1>1, <2>4 DEF l
      <4> QED
        BY <4>1
    <3>3. Joins(Append(u, b))
      BY <2>2, <2>3, <3>1, <3>2
    <3> HIDE DEF Joins
    <3> QED
      BY <2>1, <3>3
  <2> QED
    BY <2>5, <2>6
<1>4. Lines \subseteq T
  <2> HIDE DEF T
  <2> QED
    BY <1>2, <1>3, SequencesIn DEF Lines
<1> QED
  BY <1>4 DEF p

-----------------------------------------------------------------------------
(* Leaving out blank lines.                                                *)

\* Associativity under a name, so that it is used where it is cited and only there.
Associates(r, s, t) == (r \o s) \o t = r \o (s \o t)

LEMMA Associating ==
  ASSUME NEW S, NEW r \in Seq(S), NEW s \in Seq(S), NEW t \in Seq(S)
  PROVE  Associates(r, s, t)
BY ConcatAssociative DEF Associates

Keep(ls, l) == IF Blank(l) THEN ls ELSE Append(ls, l)

\* after is the table of NonBlank's states up to n.
KeepTable(s, n, after) ==
  after = [i \in 0..n |-> IF i = 0 THEN <<>> ELSE Keep(after[i - 1], s[i])]

LEMMA KeepTableExists ==
  ASSUME NEW s
  PROVE  \A n \in Nat : \E after : KeepTable(s, n, after)
<1> DEFINE T == {n \in Nat : \E after : KeepTable(s, n, after)}
<1>1. 0 \in T
  <2>1. KeepTable(s, 0, [i \in 0..0 |-> <<>>])
    BY DEF KeepTable
  <2> QED
    BY <2>1
<1>2. ASSUME NEW n \in Nat, n \in T
      PROVE  n + 1 \in T
  <2>1. PICK g : KeepTable(s, n, g)
    BY <1>2
  <2> DEFINE h == [i \in 0..(n + 1) |-> IF i = n + 1 THEN Keep(g[n], s[n + 1]) ELSE g[i]]
  <2>2. ASSUME NEW i \in 0..(n + 1)
        PROVE  h[i] = IF i = 0 THEN <<>> ELSE Keep(h[i - 1], s[i])
    <3>1. CASE i = n + 1
      <4>1. i # 0 /\ i - 1 = n /\ n \in 0..(n + 1) /\ n # n + 1
        BY <3>1
      <4> QED
        BY <3>1, <4>1
    <3>2. CASE i # n + 1
      <4>1. i \in 0..n
        BY <3>2
      <4>2. g[i] = IF i = 0 THEN <<>> ELSE Keep(g[i - 1], s[i])
        BY <2>1, <4>1 DEF KeepTable
      <4>3. i # 0 => h[i - 1] = g[i - 1]
        BY <4>1
      <4> QED
        BY <3>2, <4>2, <4>3
    <3> QED
      BY <3>1, <3>2
  <2>3. KeepTable(s, n + 1, h)
    BY <2>2 DEF KeepTable
  <2> QED
    BY <2>3
<1> QED
  <2> HIDE DEF T
  <2>1. Nat \subseteq T
    BY <1>1, <1>2, NaturalsIn
  <2> QED
    BY <2>1 DEF T

LEMMA KeepTablesAgree ==
  ASSUME NEW t, NEW u, NEW m \in Nat, NEW n \in Nat, NEW k \in Nat, k <= m, k <= n,
         Agree(t, u, k),
         NEW g, KeepTable(t, m, g), NEW h, KeepTable(u, n, h)
  PROVE  g[k] = h[k]
<1> DEFINE T == {i \in Nat : i <= k => g[i] = h[i]}
<1>1. 0 \in T
  <2>1. 0 \in 0..m /\ 0 \in 0..n
    OBVIOUS
  <2> QED
    BY <2>1 DEF KeepTable
<1>2. ASSUME NEW i \in Nat, i \in T, i + 1 <= k
      PROVE  g[i + 1] = h[i + 1]
  <2>1. /\ i + 1 \in 0..m /\ i + 1 \in 0..n /\ i + 1 \in 1..k
        /\ i + 1 # 0 /\ (i + 1) - 1 = i /\ i <= k
    BY <1>2
  <2>2. g[i + 1] = Keep(g[i], t[i + 1]) /\ h[i + 1] = Keep(h[i], u[i + 1])
    BY <2>1 DEF KeepTable
  <2>3. g[i] = h[i] /\ t[i + 1] = u[i + 1]
    BY <1>2, <2>1 DEF Agree
  <2> QED
    BY <2>2, <2>3
<1>3. Nat \subseteq T
  <2>1. \A i \in Nat : i \in T => i + 1 \in T
    BY <1>2
  <2> HIDE DEF T
  <2> QED
    BY <1>1, <2>1, NaturalsIn
<1> QED
  BY <1>3

LEMMA NonBlankTable ==
  ASSUME NEW s \in Seq(Lines)
  PROVE  \E after : KeepTable(s, Len(s), after) /\ NonBlank(s) = after[Len(s)]
<1>1. \E after : KeepTable(s, Len(s), after)
  <2>1. Len(s) \in Nat
    OBVIOUS
  <2> QED
    BY <2>1, KeepTableExists
<1> QED
  BY <1>1 DEF NonBlank, KeepTable, Keep

LEMMA NonBlankNone == NonBlank(<<>>) = <<>>
<1>1. <<>> \in Seq(Lines) /\ Len(<<>>) = 0
  OBVIOUS
<1>2. PICK after : KeepTable(<<>>, 0, after) /\ NonBlank(<<>>) = after[0]
  BY <1>1, NonBlankTable
<1> QED
  BY <1>2 DEF KeepTable

LEMMA NonBlankAppend ==
  ASSUME NEW s \in Seq(Lines), NEW b \in Lines
  PROVE  NonBlank(Append(s, b)) = Keep(NonBlank(s), b)
<1> DEFINE more == Append(s, b)
           n == Len(s)
<1>1. /\ n \in Nat /\ more \in Seq(Lines) /\ Len(more) = n + 1
      /\ \A i \in 1..n : more[i] = s[i]
      /\ more[n + 1] = b
  BY AppendProperties
<1> HIDE DEF more, n
<1>2. PICK g : KeepTable(s, n, g) /\ NonBlank(s) = g[n]
  BY NonBlankTable DEF n
<1>3. PICK h : KeepTable(more, n + 1, h) /\ NonBlank(more) = h[n + 1]
  BY <1>1, NonBlankTable
<1>4. g[n] = h[n]
  <2>1. n \in Nat /\ n <= n /\ n <= n + 1 /\ n + 1 \in Nat
    BY <1>1
  <2>2. Agree(s, more, n)
    BY <1>1 DEF Agree
  <2>3. KeepTable(s, n, g) /\ KeepTable(more, n + 1, h)
    BY <1>2, <1>3
  <2> QED
    BY <2>1, <2>2, <2>3, KeepTablesAgree
<1>5. h[n + 1] = Keep(h[n], more[n + 1])
  <2>1. n + 1 \in 0..(n + 1) /\ n + 1 # 0 /\ (n + 1) - 1 = n
    BY <1>1
  <2> QED
    BY <1>3, <2>1 DEF KeepTable
<1> QED
  BY <1>1, <1>2, <1>3, <1>4, <1>5 DEF more

LEMMA NonBlankType ==
  ASSUME NEW ls \in Seq(Lines)
  PROVE  NonBlank(ls) \in Seq(Lines)
<1> DEFINE T == {t \in Seq(Lines) : NonBlank(t) \in Seq(Lines)}
<1>1. <<>> \in T
  <2>1. <<>> \in Seq(Lines)
    OBVIOUS
  <2> QED
    BY <2>1, NonBlankNone
<1>2. ASSUME NEW t \in Seq(Lines), NEW l \in Lines, t \in T
      PROVE  Append(t, l) \in T
  <2>1. NonBlank(Append(t, l)) = Keep(NonBlank(t), l)
    BY NonBlankAppend
  <2>2. NonBlank(t) \in Seq(Lines) /\ Append(t, l) \in Seq(Lines)
    BY <1>2
  <2>3. Keep(NonBlank(t), l) \in Seq(Lines)
    BY <2>2 DEF Keep
  <2> QED
    BY <2>1, <2>2, <2>3
<1>3. Seq(Lines) \subseteq T
  <2> HIDE DEF T
  <2> QED
    BY <1>1, <1>2, SequencesIn
<1> QED
  BY <1>3

LEMMA NonBlankConcat ==
  ASSUME NEW s \in Seq(Lines), NEW t \in Seq(Lines)
  PROVE  NonBlank(s \o t) = NonBlank(s) \o NonBlank(t)
<1> DEFINE Joins(u) == NonBlank(s \o u) = NonBlank(s) \o NonBlank(u)
           T == {u \in Seq(Lines) : Joins(u)}
<1>1. <<>> \in T
  <2>1. s \o <<>> = s /\ NonBlank(s) \o <<>> = NonBlank(s)
    BY NonBlankType, ConcatEmptySeq
  <2>2. Joins(<<>>)
    <3>1. NonBlank(s \o <<>>) = NonBlank(s)
      BY <2>1
    <3>2. NonBlank(s) \o NonBlank(<<>>) = NonBlank(s)
      BY <2>1, NonBlankNone
    <3> QED
      BY <3>1, <3>2
  <2> HIDE DEF Joins
  <2> QED
    BY <2>2
<1>2. ASSUME NEW u \in Seq(Lines), NEW l \in Lines, u \in T
      PROVE  Append(u, l) \in T
  <2> DEFINE v == s \o u
  <2>1. v \in Seq(Lines) /\ Append(u, l) \in Seq(Lines) /\ s \o Append(u, l) = Append(v, l)
    OBVIOUS
  <2>2. NonBlank(v) = NonBlank(s) \o NonBlank(u)
    BY <1>2
  <2> HIDE DEF v
  <2>3. NonBlank(Append(v, l)) = Keep(NonBlank(v), l) /\ NonBlank(Append(u, l)) = Keep(NonBlank(u), l)
    BY <2>1, NonBlankAppend
  <2>4. Keep(NonBlank(s) \o NonBlank(u), l) = NonBlank(s) \o Keep(NonBlank(u), l)
    <3>1. NonBlank(s) \in Seq(Lines) /\ NonBlank(u) \in Seq(Lines)
      BY NonBlankType
    <3> DEFINE a == NonBlank(s)
               b == NonBlank(u)
    <3>2. a \in Seq(Lines) /\ b \in Seq(Lines) /\ <<l>> \in Seq(Lines)
      BY <3>1
    <3> HIDE DEF a, b
    <3>3. Append(a \o b, l) = a \o Append(b, l)
      <4>1. Append(a \o b, l) = (a \o b) \o <<l>> /\ Append(b, l) = b \o <<l>>
        BY <3>2, AppendIsConcat, ConcatProperties
      <4>2. Associates(a, b, <<l>>)
        BY <3>2, Associating
      <4> QED
        BY <4>1, <4>2 DEF Associates
    <3>4. Keep(a \o b, l) = a \o Keep(b, l)
      BY <3>3 DEF Keep
    <3> QED
      BY <3>4 DEF a, b
  <2>5. Joins(Append(u, l))
    BY <2>1, <2>2, <2>3, <2>4
  <2> HIDE DEF Joins
  <2> QED
    BY <2>1, <2>5
<1>3. Seq(Lines) \subseteq T
  <2> HIDE DEF T
  <2> QED
    BY <1>1, <1>2, SequencesIn
<1> QED
  BY <1>3

LEMMA NonBlankOne ==
  ASSUME NEW l \in Lines
  PROVE  NonBlank(<<l>>) = IF Blank(l) THEN <<>> ELSE <<l>>
<1>1. Append(<<>>, l) = <<l>> /\ <<>> \in Seq(Lines)
  OBVIOUS
<1>2. NonBlank(Append(<<>>, l)) = Keep(<<>>, l)
  BY <1>1, NonBlankAppend, NonBlankNone
<1> QED
  BY <1>1, <1>2 DEF Keep

-----------------------------------------------------------------------------
(* The first line.                                                         *)

LEMMA FirstLine ==
  ASSUME NEW s \in Lines, Newlines(s) # {}
  PROVE  LET pre == SubSeq(s, 1, FirstNewline(s) - 1)
             post == SubSeq(s, FirstNewline(s) + 1, Len(s))
         IN  /\ pre \in Lines /\ post \in Lines
             /\ LinesOf(s) = <<Stripped(pre)>> \o LinesOf(post)
             /\ PartialOf(s) = PartialOf(post)
<1> DEFINE n == FirstNewline(s)
           pre == SubSeq(s, 1, n - 1)
           post == SubSeq(s, n + 1, Len(s))
<1>1. n \in Newlines(s) /\ \A j \in Newlines(s) : n <= j
  <2>1. Newlines(s) \subseteq Nat
    BY DEF Newlines, Lines
  <2>2. \E i \in Newlines(s) : \A j \in Newlines(s) : i <= j
    BY <2>1, LeastNumber
  <2> QED
    BY <2>2 DEF FirstNewline
<1>2. n \in 1..Len(s) /\ Len(s) \in Nat /\ s[n] = NL /\ NL \in Bytes
  BY <1>1 DEF Newlines, Lines
<1>3. \A i \in 1..Len(s) : s[i] \in Bytes
  BY DEF Lines
<1>4. \A i \in 1..(n - 1) : i \in 1..Len(s) /\ s[i] \in Bytes /\ s[i] # NL
  BY <1>1, <1>2, <1>3 DEF Newlines
<1>5. \A i \in (n + 1)..Len(s) : s[i] \in Bytes
  BY <1>2, <1>3
<1> HIDE DEF n
<1>6. /\ pre \in Lines /\ Len(pre) = n - 1
      /\ \A i \in 1..(n - 1) : pre[i] = s[i]
  <2> DEFINE k == n - 1
  <2>1. k \in Nat /\ 1 \in Int /\ \A i \in 1..k : s[i] \in Bytes
    BY <1>2, <1>4
  <2> HIDE DEF k
  <2>2. /\ SubSeq(s, 1, k) \in Seq(Bytes) /\ Len(SubSeq(s, 1, k)) = k
        /\ \A i \in 1..k : SubSeq(s, 1, k)[i] = s[i]
    BY <2>1, SubSeqProperties
  <2> QED
    BY <2>2 DEF k, Lines
<1>7. post \in Lines
  BY <1>2, <1>5, SubSeqProperties DEF Lines
<1>8. Newlines(pre) = {}
  <2>1. DOMAIN pre = 1..(n - 1)
    BY <1>6 DEF Lines
  <2> QED
    BY <1>4, <1>6, <2>1 DEF Newlines
<1>9. s = Append(pre, NL) \o post
  <2>1. SubSeq(s, 1, n) = Append(pre, NL)
    <3>1. s \in Seq(Bytes) /\ 1 \in 1..Len(s) /\ n \in 1..Len(s)
      BY <1>2 DEF Lines
    <3>2. SubSeq(s, 1, n) = pre \o <<s[n]>>
      BY <3>1, SubSeqRecursiveSecond
    <3> HIDE DEF pre
    <3>3. pre \o <<NL>> = Append(pre, NL)
      BY <1>2, <1>6, AppendIsConcat DEF Lines
    <3> QED
      BY <1>2, <3>2, <3>3
  <2>2. s \in Seq(Bytes) /\ 1 \in 1..(Len(s) + 1) /\ n \in (1 - 1)..Len(s) /\ Len(s) \in n..Len(s)
    BY <1>2 DEF Lines
  <2>3. SubSeq(s, 1, n) \o SubSeq(s, n + 1, Len(s)) = SubSeq(s, 1, Len(s))
    BY <2>2, ConcatAdjacentSubSeq
  <2>4. SubSeq(s, 1, Len(s)) = s
    BY <2>2, SubSeqFull
  <2> QED
    BY <2>1, <2>3, <2>4
<1> HIDE DEF pre, post
<1> DEFINE first == Append(pre, NL)
<1>10. first \in Lines
  BY <1>2, <1>6 DEF Lines
<1>11. LinesOf(first) = <<Stripped(pre)>> /\ PartialOf(first) = <<>>
  <2>1. LinesOf(pre) = <<>> /\ PartialOf(pre) = pre
    BY <1>6, <1>8, NoNewline
  <2>2. Append(<<>>, Stripped(pre)) = <<Stripped(pre)>>
    OBVIOUS
  <2>3. pre \in Lines /\ NL \in Bytes
    BY <1>2, <1>6
  <2>4. LinesOf(first) = Append(LinesOf(pre), Stripped(PartialOf(pre))) /\ PartialOf(first) = <<>>
    BY <2>3, FrameStep
  <2> QED
    BY <2>1, <2>2, <2>4
<1> HIDE DEF first
<1>12. LinesOf(s) = LinesOf(first) \o LinesOf(PartialOf(first) \o post)
       /\ PartialOf(s) = PartialOf(PartialOf(first) \o post)
  <2>1. s = first \o post
    BY <1>9 DEF first
  <2>2. /\ LinesOf(first \o post) = LinesOf(first) \o LinesOf(PartialOf(first) \o post)
        /\ PartialOf(first \o post) = PartialOf(PartialOf(first) \o post)
    BY <1>7, <1>10, FramedConcat
  <2> QED
    BY <2>1, <2>2
<1>13. <<>> \o post = post
  BY <1>7, ConcatEmptySeq DEF Lines
<1> QED
  BY <1>6, <1>7, <1>11, <1>12, <1>13 DEF pre, post, n

-----------------------------------------------------------------------------
(* Leaving out elements.                                                   *)

\* f tells which elements of t are left.
Embeds(f, s, t) ==
  /\ f \in [1..Len(s) -> 1..Len(t)]
  /\ \A i, j \in 1..Len(s) : i < j => f[i] < f[j]
  /\ \A i \in 1..Len(s) : s[i] = t[f[i]]

Sub(s, t) == \E f : Embeds(f, s, t)

LEMMA SubSame ==
  ASSUME NEW S, NEW s \in Seq(S)
  PROVE  Sub(s, s)
<1>1. Embeds([i \in 1..Len(s) |-> i], s, s)
  BY DEF Embeds
<1> QED
  BY <1>1 DEF Sub

LEMMA SubNone ==
  ASSUME NEW t
  PROVE  Sub(<<>>, t)
<1>1. Embeds([i \in 1..0 |-> i], <<>>, t)
  BY DEF Embeds
<1> QED
  BY <1>1 DEF Sub

LEMMA SubConcat ==
  ASSUME NEW S, NEW s \in Seq(S), NEW t \in Seq(S), NEW u \in Seq(S), NEW v \in Seq(S),
         Sub(s, t), Sub(u, v)
  PROVE  Sub(s \o u, t \o v)
<1>1. PICK f : Embeds(f, s, t)
  BY DEF Sub
<1>2. PICK g : Embeds(g, u, v)
  BY DEF Sub
<1> DEFINE k == Len(s)
           m == Len(t)
           a == s \o u
           b == t \o v
           h == [i \in 1..(k + Len(u)) |-> IF i <= k THEN f[i] ELSE m + g[i - k]]
<1>3. /\ k \in Nat /\ m \in Nat /\ Len(u) \in Nat /\ Len(v) \in Nat
      /\ Len(a) = k + Len(u) /\ Len(b) = m + Len(v)
      /\ \A i \in 1..(k + Len(u)) : a[i] = IF i <= k THEN s[i] ELSE u[i - k]
      /\ \A i \in 1..(m + Len(v)) : b[i] = IF i <= m THEN t[i] ELSE v[i - m]
  BY ConcatProperties
<1>0. k \in Nat /\ m \in Nat /\ Len(u) \in Nat /\ Len(v) \in Nat
  BY <1>3
<1> HIDE DEF k, m, a, b
<1>4. ASSUME NEW i \in 1..(k + Len(u))
      PROVE  /\ i <= k => /\ i \in 1..k /\ h[i] = f[i] /\ f[i] \in 1..m
                          /\ a[i] = b[h[i]]
             /\ ~(i <= k) => /\ i - k \in 1..Len(u) /\ h[i] = m + g[i - k]
                             /\ g[i - k] \in 1..Len(v) /\ a[i] = b[h[i]]
  <2>1. CASE i <= k
    <3>1. i \in 1..k /\ h[i] = f[i]
      BY <1>3, <2>1
    <3>2. f[i] \in 1..m /\ s[i] = t[f[i]]
      BY <1>1, <3>1 DEF Embeds, k, m
    <3>3. f[i] \in 1..(m + Len(v)) /\ f[i] <= m
      BY <1>0, <3>2
    <3> QED
      BY <1>3, <2>1, <3>1, <3>2, <3>3
  <2>2. CASE ~(i <= k)
    <3> DEFINE j == i - k
    <3>1. j \in 1..Len(u) /\ h[i] = m + g[j]
      BY <1>3, <2>2
    <3> HIDE DEF j, h
    <3>2. g[j] \in 1..Len(v) /\ u[j] = v[g[j]]
      BY <1>2, <3>1 DEF Embeds
    <3>3. h[i] \in 1..(m + Len(v)) /\ ~(h[i] <= m) /\ h[i] - m = g[j]
      <4>1. g[j] \in 1..Len(v)
        BY <3>2
      <4>2. \A x \in 1..Len(v) : m + x \in 1..(m + Len(v)) /\ ~(m + x <= m) /\ (m + x) - m = x
        BY <1>0
      <4> QED
        BY <3>1, <4>1, <4>2
    <3>4. a[i] = u[j] /\ b[h[i]] = v[g[j]]
      BY <1>3, <2>2, <3>3 DEF j
    <3> QED
      BY <2>2, <3>1, <3>2, <3>4 DEF j
  <2> QED
    BY <2>1, <2>2
<1>5. h \in [1..(k + Len(u)) -> 1..(m + Len(v))]
  <2>1. ASSUME NEW i \in 1..(k + Len(u))
        PROVE  (IF i <= k THEN f[i] ELSE m + g[i - k]) \in 1..(m + Len(v))
    <3> HIDE DEF h
    <3>1. CASE i <= k
      <4>1. f[i] \in 1..m
        BY <1>4, <3>1
      <4> QED
        BY <1>0, <3>1, <4>1
    <3>2. CASE ~(i <= k)
      <4>1. g[i - k] \in 1..Len(v)
        BY <1>4, <3>2
      <4> QED
        BY <1>0, <3>2, <4>1
    <3> QED
      BY <3>1, <3>2
  <2> QED
    BY <2>1
<1>6. ASSUME NEW i \in 1..(k + Len(u)), NEW j \in 1..(k + Len(u)), i < j
      PROVE  h[i] < h[j]
  <2> HIDE DEF h
  <2>1. CASE j <= k
    <3>1. i <= k
      BY <1>3, <1>6, <2>1
    <3>2. f[i] < f[j]
      BY <1>1, <1>4, <1>6, <2>1, <3>1 DEF Embeds, k
    <3> QED
      BY <1>4, <2>1, <3>1, <3>2
  <2>2. CASE i <= k /\ ~(j <= k)
    <3>1. h[i] \in 1..m
      BY <1>4, <2>2
    <3>2. g[j - k] \in 1..Len(v) /\ h[j] = m + g[j - k]
      BY <1>4, <2>2
    <3>3. \A x \in 1..m, y \in 1..Len(v) : x < m + y
      BY <1>0
    <3> QED
      BY <3>1, <3>2, <3>3
  <2>3. CASE ~(i <= k) /\ ~(j <= k)
    <3> DEFINE x == i - k
               y == j - k
    <3>1. x \in 1..Len(u) /\ y \in 1..Len(u) /\ x < y
      BY <1>3, <1>4, <1>6, <2>3
    <3>2. h[i] = m + g[x] /\ h[j] = m + g[y] /\ g[x] \in 1..Len(v) /\ g[y] \in 1..Len(v)
      BY <1>4, <2>3
    <3> HIDE DEF x, y
    <3>3. g[x] < g[y]
      BY <1>2, <3>1 DEF Embeds
    <3>4. \A p, q \in 1..Len(v) : p < q => m + p < m + q
      BY <1>0
    <3> QED
      BY <3>2, <3>3, <3>4
  <2> QED
    BY <1>3, <1>6, <2>1, <2>2, <2>3
<1>7. Embeds(h, a, b)
  <2> HIDE DEF h
  <2> QED
    BY <1>3, <1>4, <1>5, <1>6 DEF Embeds
<1> QED
  BY <1>7 DEF Sub, a, b

LEMMA SubPrefix ==
  ASSUME NEW S, NEW s \in Seq(S), NEW u \in Seq(S), NEW t, Sub(s \o u, t)
  PROVE  Sub(s, t)
<1> DEFINE a == s \o u
<1>1. PICK f : Embeds(f, a, t)
  BY DEF Sub
<1>2. /\ \A i \in 1..Len(s) : i \in 1..Len(a) /\ a[i] = s[i]
      /\ Len(s) \in Nat
  BY ConcatProperties
<1> HIDE DEF a
<1> DEFINE g == [i \in 1..Len(s) |-> f[i]]
<1>3. Embeds(g, s, t)
  BY <1>1, <1>2 DEF Embeds
<1> QED
  BY <1>3 DEF Sub

\* The first element of t behind before that is e.
Reach(t, before, e) ==
  LET later == {j \in (before + 1)..Len(t) : t[j] = e}
  IN  IF later = {} THEN Len(t) + 1 ELSE CHOOSE j \in later : \A k \in later : j <= k

ReachTable(s, t, n, at) ==
  at = [i \in 0..n |-> IF i = 0 THEN 0 ELSE Reach(t, at[i - 1], s[i])]

LEMMA ReachTableExists ==
  ASSUME NEW s, NEW t
  PROVE  \A n \in Nat : \E at : ReachTable(s, t, n, at)
<1> DEFINE T == {n \in Nat : \E at : ReachTable(s, t, n, at)}
<1>1. 0 \in T
  <2>1. ReachTable(s, t, 0, [i \in 0..0 |-> 0])
    BY DEF ReachTable
  <2> QED
    BY <2>1
<1>2. ASSUME NEW n \in Nat, n \in T
      PROVE  n + 1 \in T
  <2>1. PICK g : ReachTable(s, t, n, g)
    BY <1>2
  <2> DEFINE h == [i \in 0..(n + 1) |-> IF i = n + 1 THEN Reach(t, g[n], s[n + 1]) ELSE g[i]]
  <2>2. ASSUME NEW i \in 0..(n + 1)
        PROVE  h[i] = IF i = 0 THEN 0 ELSE Reach(t, h[i - 1], s[i])
    <3>1. CASE i = n + 1
      <4>1. i # 0 /\ i - 1 = n /\ n \in 0..(n + 1) /\ n # n + 1
        BY <3>1
      <4> QED
        BY <3>1, <4>1
    <3>2. CASE i # n + 1
      <4>1. i \in 0..n
        BY <3>2
      <4>2. g[i] = IF i = 0 THEN 0 ELSE Reach(t, g[i - 1], s[i])
        BY <2>1, <4>1 DEF ReachTable
      <4>3. i # 0 => h[i - 1] = g[i - 1]
        BY <4>1
      <4> QED
        BY <3>2, <4>2, <4>3
    <3> QED
      BY <3>1, <3>2
  <2>3. ReachTable(s, t, n + 1, h)
    BY <2>2 DEF ReachTable
  <2> QED
    BY <2>3
<1> QED
  <2> HIDE DEF T
  <2>1. Nat \subseteq T
    BY <1>1, <1>2, NaturalsIn
  <2> QED
    BY <2>1 DEF T

\* Whoever takes the first element that fits finds a subsequence.
LEMMA SubGreedy ==
  ASSUME NEW S, NEW s \in Seq(S), NEW t \in Seq(S), Sub(s, t)
  PROVE  IsSubsequence(s, t)
<1>1. PICK f : Embeds(f, s, t)
  BY DEF Sub
<1>2. Len(s) \in Nat /\ Len(t) \in Nat
  OBVIOUS
<1>3. \E at : ReachTable(s, t, Len(s), at)
  BY <1>2, ReachTableExists
<1> DEFINE at == CHOOSE at : ReachTable(s, t, Len(s), at)
<1>4. ReachTable(s, t, Len(s), at)
  BY <1>3
<1>5. IsSubsequence(s, t) <=> at[Len(s)] <= Len(t)
  BY <1>3 DEF IsSubsequence, ReachTable, Reach
<1> HIDE DEF at
<1> DEFINE T == {i \in Nat : i <= Len(s) => /\ at[i] \in Nat /\ at[i] <= Len(t)
                                            /\ i # 0 => at[i] <= f[i]}
<1>6. 0 \in T
  <2>1. 0 \in 0..Len(s)
    BY <1>2
  <2>2. at[0] = 0
    BY <1>4, <2>1 DEF ReachTable
  <2> QED
    BY <1>2, <2>2
<1>7. ASSUME NEW i \in Nat, i \in T, i + 1 <= Len(s)
      PROVE  at[i + 1] \in Nat /\ at[i + 1] <= Len(t) /\ at[i + 1] <= f[i + 1]
  <2> DEFINE n == i + 1
             before == at[i]
             later == {j \in (before + 1)..Len(t) : t[j] = s[n]}
  <2>1. n \in 1..Len(s) /\ n \in 0..Len(s) /\ n # 0 /\ n - 1 = i /\ i <= Len(s)
    BY <1>2, <1>7
  <2>2. at[n] = Reach(t, before, s[n])
    BY <1>4, <2>1 DEF ReachTable
  <2>3. before \in Nat /\ (i # 0 => before <= f[i])
    BY <1>7, <2>1
  <2>4. f[n] \in 1..Len(t) /\ s[n] = t[f[n]]
    BY <1>1, <2>1 DEF Embeds
  <2>5. before < f[n]
    <3>1. CASE i = 0
      <4>1. 0 \in 0..Len(s)
        BY <1>2
      <4>2. before = 0
        BY <1>4, <3>1, <4>1 DEF ReachTable
      <4> QED
        BY <2>4, <4>2
    <3>2. CASE i # 0
      <4>1. i \in 1..Len(s) /\ i < n
        BY <2>1, <3>2
      <4>2. f[i] < f[n] /\ f[i] \in 1..Len(t)
        BY <1>1, <2>1, <4>1 DEF Embeds
      <4> QED
        BY <1>2, <2>3, <2>4, <3>2, <4>2
    <3> QED
      BY <3>1, <3>2
  <2> HIDE DEF n, before
  <2>6. f[n] \in later /\ later \subseteq Nat
    BY <1>2, <2>3, <2>4, <2>5
  <2>7. \E j \in later : \A k \in later : j <= k
    <3> HIDE DEF later
    <3> QED
      BY <2>6, LeastNumber
  <2>8. at[n] \in later /\ \A k \in later : at[n] <= k
    BY <2>2, <2>6, <2>7 DEF Reach
  <2>9. at[n] \in Nat /\ at[n] <= Len(t)
    BY <1>2, <2>3, <2>8
  <2> QED
    BY <2>6, <2>8, <2>9 DEF n
<1>8. Nat \subseteq T
  <2>1. \A i \in Nat : i \in T => i + 1 \in T
    BY <1>7
  <2> HIDE DEF T
  <2> QED
    BY <1>6, <2>1, NaturalsIn
<1> QED
  BY <1>2, <1>5, <1>8

-----------------------------------------------------------------------------
(* The lines that are kept.                                                *)

\* What framing makes of s: its lines that are kept.
Whole(s) == NonBlank(LinesOf(s))

LEMMA WholeType ==
  ASSUME NEW s \in Lines
  PROVE  Whole(s) \in Seq(Lines)
BY FramedFacts, NonBlankType DEF Whole

LEMMA WholeNone ==
  ASSUME NEW s \in Lines, Newlines(s) = {}
  PROVE  Whole(s) = <<>>
BY NoNewline, NonBlankNone DEF Whole

LEMMA WholeConcat ==
  ASSUME NEW s \in Lines, NEW t \in Lines
  PROVE  Whole(s \o t) = Whole(s) \o Whole(PartialOf(s) \o t)
<1> DEFINE u == PartialOf(s) \o t
<1>1. u \in Lines
  BY FramedFacts DEF Lines
<1>2. LinesOf(s \o t) = LinesOf(s) \o LinesOf(u)
  BY FramedConcat
<1> HIDE DEF u
<1>3. LinesOf(s) \in Seq(Lines) /\ LinesOf(u) \in Seq(Lines)
  BY <1>1, FramedFacts
<1> QED
  BY <1>2, <1>3, NonBlankConcat DEF Whole, u

LEMMA RecordsOfParts ==
  ASSUME NEW s \in Lines
  PROVE  RecordsOf(s) = Whole(s) \o NonBlank(<<PartialOf(s)>>)
<1> DEFINE p == PartialOf(s)
           ls == LinesOf(s)
<1>1. p \in Lines /\ ls \in Seq(Lines)
  BY FramedFacts
<1> HIDE DEF p, ls
<1>2. Append(ls, p) = ls \o <<p>> /\ <<p>> \in Seq(Lines)
  BY <1>1, AppendIsConcat
<1> QED
  BY <1>1, <1>2, NonBlankConcat DEF RecordsOf, Whole, p, ls

LEMMA HeadAndTail ==
  ASSUME NEW S, NEW s \in Seq(S), s # <<>>
  PROVE  Head(s) \in S /\ Tail(s) \in Seq(S) /\ s = <<Head(s)>> \o Tail(s)
<1>1. Len(s) \in Nat /\ Len(s) # 0
  BY EmptySeq
<1>2. 1 \in 1..Len(s) /\ Len(s) \in 1..Len(s)
  BY <1>1
<1>3. SubSeq(s, 1, Len(s)) = <<s[1]>> \o SubSeq(s, 2, Len(s))
  BY <1>2, SubSeqRecursiveFirst
<1>4. SubSeq(s, 1, Len(s)) = s
  BY SubSeqFull
<1>5. Tail(s) = SubSeq(s, 2, Len(s))
  BY TailIsSubSeq
<1> QED
  BY <1>3, <1>4, <1>5, HeadTailProperties

-----------------------------------------------------------------------------
(* The steps of the loop, as what they do to the kept lines.               *)

\* A blank line costs no record, another one becomes the next.
LEMMA HeadKept ==
  ASSUME NEW ls \in Seq(Lines), ls # <<>>
  PROVE  /\ Blank(Head(ls)) => NonBlank(ls) = NonBlank(Tail(ls))
         /\ ~Blank(Head(ls)) => NonBlank(ls) = <<Head(ls)>> \o NonBlank(Tail(ls))
<1> DEFINE h == Head(ls)
           t == Tail(ls)
<1>1. h \in Lines /\ t \in Seq(Lines) /\ ls = <<h>> \o t
  BY HeadAndTail
<1> HIDE DEF h, t
<1>2. <<h>> \in Seq(Lines)
  BY <1>1
<1>3. NonBlank(ls) = NonBlank(<<h>>) \o NonBlank(t)
  BY <1>1, <1>2, NonBlankConcat
<1>4. NonBlank(<<h>>) = IF Blank(h) THEN <<>> ELSE <<h>>
  BY <1>1, NonBlankOne
<1>5. <<>> \o NonBlank(t) = NonBlank(t)
  BY <1>1, NonBlankType, ConcatEmptySeq
<1> QED
  BY <1>3, <1>4, <1>5 DEF h, t

\* The first line of the buffer becomes the last one to append.
LEMMA LineMoves ==
  ASSUME NEW s \in Lines, Newlines(s) # {}, NEW ls \in Seq(Lines)
  PROVE  LET l == Stripped(SubSeq(s, 1, FirstNewline(s) - 1))
             post == SubSeq(s, FirstNewline(s) + 1, Len(s))
         IN  /\ l \in Lines /\ post \in Lines
             /\ PartialOf(post) = PartialOf(s)
             /\ NonBlank(Append(ls, l)) \o Whole(post) = NonBlank(ls) \o Whole(s)
<1> DEFINE pre == SubSeq(s, 1, FirstNewline(s) - 1)
           l == Stripped(pre)
           post == SubSeq(s, FirstNewline(s) + 1, Len(s))
<1>1. /\ pre \in Lines /\ post \in Lines
      /\ LinesOf(s) = <<l>> \o LinesOf(post) /\ PartialOf(s) = PartialOf(post)
  BY FirstLine
<1> HIDE DEF pre, post
<1>2. l \in Lines
  BY <1>1, StripType DEF Stripped
<1> HIDE DEF l
<1>3. <<l>> \in Seq(Lines) /\ LinesOf(post) \in Seq(Lines) /\ Append(ls, l) = ls \o <<l>>
  BY <1>1, <1>2, FramedFacts, AppendIsConcat
<1> DEFINE a == NonBlank(ls)
           b == NonBlank(<<l>>)
           c == Whole(post)
<1>4. Whole(s) = b \o c /\ NonBlank(Append(ls, l)) = a \o b
  BY <1>1, <1>3, NonBlankConcat DEF Whole
<1>5. a \in Seq(Lines) /\ b \in Seq(Lines) /\ c \in Seq(Lines)
  BY <1>1, <1>3, NonBlankType, WholeType
<1> HIDE DEF a, b, c
<1>6. NonBlank(Append(ls, l)) \o c = a \o Whole(s)
  <2>1. Associates(a, b, c)
    BY <1>5, Associating
  <2> QED
    BY <1>4, <2>1 DEF Associates
<1> QED
  BY <1>1, <1>2, <1>6 DEF pre, l, post, a, c

-----------------------------------------------------------------------------
(* Types.                                                                  *)

LEMMA InitType == Init => TypeOK
<1> SUFFICES ASSUME Init PROVE TypeOK
  OBVIOUS
<1>1. file \in Seq(Bytes)
  BY DEF Init, BoundedSeq, SeqOf
<1>2. offset \in Nat /\ base \in Nat
  BY <1>1 DEF Init
<1>3. <<>> \in Seq(Bytes) /\ <<>> \in Seq(Seq(Bytes))
  OBVIOUS
<1>4. found \in Seq(Bytes) /\ stream \in Seq(Bytes) /\ buf \in Seq(Bytes)
  BY <1>3 DEF Init
<1>5. lines \in Seq(Seq(Bytes)) /\ records \in Seq(Seq(Bytes))
  BY <1>3 DEF Init
<1>6. wrote \in 0..MaxBytes /\ failures \in 0..MaxFailures /\ len \in Nat /\ count \in Nat
  BY CaptureAssumption DEF Init
<1>7. exited \in BOOLEAN /\ past \subseteq Mishaps
  BY DEF Init
<1>8. pc = "poll"
  BY DEF Init
<1> QED
  BY <1>1, <1>2, <1>4, <1>5, <1>6, <1>7, <1>8 DEF TypeOK

\* Cutting out of a sequence.
LEMMA Part ==
  ASSUME NEW S, NEW s \in Seq(S), NEW m \in Nat, m # 0, NEW n \in Nat, n <= Len(s)
  PROVE  SubSeq(s, m, n) \in Seq(S)
<1>1. \A i \in m..n : s[i] \in S
  <2>1. \A i \in m..n : i \in 1..Len(s)
    OBVIOUS
  <2> QED
    BY <2>1
<1> QED
  BY <1>1, SubSeqProperties

LEMMA StepType ==
  ASSUME TypeOK, [Next]_vars
  PROVE  TypeOK'
<1> USE DEF TypeOK
<1> USE CaptureAssumption
<1>1. ASSUME NEW b \in Bytes, HarnessAppends(b)
      PROVE  TypeOK'
  <2>1. file' \in Seq(Bytes) /\ wrote' \in 0..MaxBytes
    BY <1>1 DEF HarnessAppends, MayWrite
  <2>2. past' \subseteq Mishaps
    BY <1>1 DEF HarnessAppends, Happened, Mishaps
  <2> QED
    BY <1>1, <2>1, <2>2 DEF HarnessAppends, follower, framer, store
<1>2. ASSUME NEW n \in 0..MaxBytes, HarnessCuts(n)
      PROVE  TypeOK'
  <2>1. file' \in Seq(Bytes)
    <3>1. n \in Nat /\ 1 \in Nat /\ n <= Len(file)
      BY <1>2 DEF HarnessCuts
    <3> QED
      BY <1>2, <3>1, Part DEF HarnessCuts
  <2>2. wrote' \in 0..MaxBytes /\ past' \subseteq Mishaps
    BY <1>2 DEF HarnessCuts, MayWrite, Happened, Mishaps
  <2> QED
    BY <1>2, <2>1, <2>2 DEF HarnessCuts, follower, framer, store
<1>3. ASSUME HarnessExits
      PROVE  TypeOK'
  <2>1. past' \subseteq Mishaps
    BY <1>3 DEF HarnessExits, Happened, Mishaps
  <2> QED
    BY <1>3, <2>1 DEF HarnessExits, follower, framer, store
<1>4. ASSUME Stat
      PROVE  TypeOK'
  <2>1. len' \in Nat
    BY <1>4 DEF Stat
  <2>2. offset' \in Nat
    BY <1>4 DEF Stat
  <2>3. found' \in Seq(Bytes) /\ pc' \in {"read", "check"}
    <3>1. \/ found' = <<>> /\ pc' = "check"
          \/ found' = found /\ pc' = "read"
      BY <1>4 DEF Stat
    <3>2. <<>> \in Seq(Bytes) /\ found \in Seq(Bytes)
      OBVIOUS
    <3> QED
      BY <3>1, <3>2
  <2>4. UNCHANGED <<harness, stream, framer, store, base, past>>
    BY <1>4 DEF Stat
  <2> QED
    BY <2>1, <2>2, <2>3, <2>4 DEF harness, framer, store
<1>5. ASSUME Read
      PROVE  TypeOK'
  <2>1. found' \in Seq(Bytes)
    BY <1>5, Part DEF Read
  <2>2. stream' \in Seq(Bytes)
    BY <1>5, <2>1 DEF Read
  <2> QED
    BY <1>5, <2>1, <2>2 DEF Read, harness, framer, store
<1>6. ASSUME Feed
      PROVE  TypeOK'
  BY <1>6 DEF Feed, harness, follower, store
<1>7. ASSUME DrainLine
      PROVE  TypeOK'
  <2>1. buf \in Lines /\ lines \in Seq(Lines) /\ Newlines(buf) # {}
    BY <1>7 DEF DrainLine, Lines
  <2>2. Stripped(SubSeq(buf, 1, FirstNewline(buf) - 1)) \in Lines /\ buf' \in Lines
    BY <1>7, <2>1, LineMoves DEF DrainLine
  <2>3. lines' \in Seq(Lines)
    BY <1>7, <2>1, <2>2 DEF DrainLine
  <2> QED
    BY <1>7, <2>2, <2>3 DEF DrainLine, harness, follower, store, Lines
<1>8. ASSUME DrainEnd \/ WriteDone \/ PollAgain
      PROVE  TypeOK'
  BY <1>8 DEF DrainEnd, WriteDone, PollAgain, harness, follower, framer, store
<1>9. ASSUME LineTooLong
      PROVE  TypeOK'
  <2>1. past' \subseteq Mishaps /\ lines' \in Seq(Seq(Bytes))
    BY <1>9 DEF LineTooLong, Happened, Mishaps
  <2> QED
    BY <1>9, <2>1 DEF LineTooLong, harness, follower, store
<1>10. ASSUME SkipBlank \/ AppendLine
       PROVE  TypeOK'
  <2>1. Head(lines) \in Seq(Bytes) /\ lines' \in Seq(Seq(Bytes))
    BY <1>10, HeadTailProperties DEF SkipBlank, AppendLine
  <2>2. CASE SkipBlank
    BY <2>1, <2>2 DEF SkipBlank, harness, follower, store
  <2>3. CASE AppendLine
    <3>1. records' \in Seq(Seq(Bytes)) /\ count' \in Nat
      BY <2>1, <2>3 DEF AppendLine, Record
    <3> QED
      BY <2>1, <2>3, <3>1 DEF AppendLine, harness, follower
  <2> QED
    BY <1>10, <2>2, <2>3
<1>11. ASSUME AppendFails
       PROVE  TypeOK'
  <2>1. failures' \in 0..MaxFailures /\ past' \subseteq Mishaps /\ lines' \in Seq(Seq(Bytes))
    BY <1>11 DEF AppendFails, Happened, Mishaps
  <2> QED
    BY <1>11, <2>1 DEF AppendFails, harness, follower
<1>12. ASSUME Finish
       PROVE  TypeOK'
  <2>1. records' \in Seq(Seq(Bytes)) /\ count' \in Nat
    <3>1. \/ records' = records /\ count' = count
          \/ records' = Append(records, buf) /\ count' = count + 1
      BY <1>12 DEF Finish, Record
    <3>2. Append(records, buf) \in Seq(Seq(Bytes)) /\ count + 1 \in Nat
      OBVIOUS
    <3> QED
      BY <3>1, <3>2
  <2>2. buf' \in Seq(Bytes)
    BY <1>12 DEF Finish
  <2> QED
    BY <1>12, <2>1, <2>2 DEF Finish, harness, follower
<1>13. ASSUME FinishFails
       PROVE  TypeOK'
  <2>1. failures' \in 0..MaxFailures /\ past' \subseteq Mishaps /\ buf' \in Seq(Bytes)
    BY <1>13 DEF FinishFails, Happened, Mishaps
  <2> QED
    BY <1>13, <2>1 DEF FinishFails, harness, follower
<1>14. ASSUME UNCHANGED vars
       PROVE  TypeOK'
  BY <1>14 DEF vars, harness, follower, framer, store
<1> QED
  BY <1>1, <1>2, <1>3, <1>4, <1>5, <1>6, <1>7, <1>8, <1>9, <1>10, <1>11, <1>12, <1>13, <1>14 DEF Next

-----------------------------------------------------------------------------
(***************************************************************************)
(* The inductive invariant.  Sub takes the place of IsSubsequence, what    *)
(* finish leaves is said of the records, and what polls returned of the    *)
(* moment in the middle of a poll too.                                     *)
(***************************************************************************)
Unframed == IF pc = "feed" THEN buf \o found ELSE buf

Captured == records \o NonBlank(lines) \o Whole(Unframed)

Intact == Avoided({"cap", "failure"})

FramingKept == pc # "finished" =>
             /\ PartialOf(Unframed) = PartialOf(stream)
             /\ Sub(Captured, Whole(stream))
             /\ Intact => Captured = Whole(stream)

Stored == pc = "finished" =>
            /\ Sub(records, RecordsOf(stream))
            /\ Intact => records = RecordsOf(stream)

Arrived == Avoided({"cut"}) =>
             /\ Position
             /\ Sub(SubSeq(file, base + 1, offset), stream)
             /\ Avoided({"race"}) => stream = SubSeq(file, base + 1, offset)
             /\ pc = "finished" /\ Avoided({"late"}) => offset = Len(file)

Inv == TypeOK /\ Pending /\ count = Len(records) /\ FramingKept /\ Stored /\ Arrived

\* Mishaps are never undone.
LEMMA PastGrows ==
  ASSUME [Next]_vars
  PROVE  past \subseteq past'
BY DEF Next, vars, HarnessAppends, HarnessCuts, HarnessExits, Stat, Read, Feed, DrainLine,
  DrainEnd, LineTooLong, SkipBlank, AppendLine, AppendFails, WriteDone, PollAgain, Finish,
  FinishFails, Happened

LEMMA InitInv == Init => Inv
<1> SUFFICES ASSUME Init PROVE Inv
  OBVIOUS
<1>1. TypeOK
  BY InitType
<1>2. Newlines(<<>>) = {}
  BY DEF Newlines
<1>3. Pending /\ count = Len(records)
  BY <1>2 DEF Pending, Init
<1>4. FramingKept
  <2>1. <<>> \in Lines /\ <<>> \in Seq(Lines)
    BY DEF Lines
  <2>2. Whole(<<>>) = <<>> /\ NonBlank(<<>>) = <<>>
    BY <1>2, <2>1, WholeNone, NonBlankNone
  <2>3. <<>> \o <<>> = <<>>
    BY <2>1, ConcatEmptySeq
  <2>4. records = <<>> /\ lines = <<>> /\ buf = <<>> /\ stream = <<>> /\ pc = "poll"
    BY DEF Init
  <2>5. Unframed = stream /\ Whole(stream) = <<>> /\ Captured = <<>>
    BY <2>2, <2>3, <2>4 DEF Unframed, Captured
  <2>6. Sub(<<>>, Whole(stream))
    BY SubNone
  <2> QED
    BY <2>5, <2>6 DEF FramingKept
<1>5. Stored
  BY DEF Stored, Init
<1>6. Arrived
  <2>1. SubSeq(file, base + 1, offset) = <<>>
    <3>1. base = offset /\ offset \in Nat
      BY <1>1 DEF Init, TypeOK
    <3> DEFINE m == base + 1
    <3>2. m \in Int /\ offset \in Int /\ offset < m
      BY <3>1
    <3> HIDE DEF m
    <3>3. SubSeq(file, m, offset) = <<>>
      BY <3>2, SubSeqEmpty
    <3> QED
      BY <3>3 DEF m
  <2>2. Sub(<<>>, stream)
    BY SubNone
  <2>3. Position
    <3>1. offset \in Nat /\ Len(file) \in Nat /\ base = offset
      BY <1>1 DEF Init, TypeOK
    <3>2. pc = "poll" /\ offset \in {0, Len(file)}
      BY DEF Init
    <3> QED
      BY <3>1, <3>2 DEF Position
  <2> QED
    BY <2>1, <2>2, <2>3 DEF Arrived, Init
<1> QED
  BY <1>1, <1>3, <1>4, <1>5, <1>6 DEF Inv

-----------------------------------------------------------------------------
(* What is pending, and the count of lines.                                *)

LEMMA StepPending ==
  ASSUME TypeOK, Pending, [Next]_vars
  PROVE  Pending'
<1>0. Newlines(<<>>) = {}
  BY DEF Newlines
<1> USE DEF Pending
<1>1. ASSUME NEW b \in Bytes, HarnessAppends(b)
      PROVE  Pending'
  BY <1>1 DEF HarnessAppends, MayWrite, framer
<1>2. ASSUME NEW n \in 0..MaxBytes, HarnessCuts(n)
      PROVE  Pending'
  BY <1>2 DEF HarnessCuts, MayWrite, framer
<1>3. ASSUME HarnessExits
      PROVE  Pending'
  BY <1>3 DEF HarnessExits, framer
<1>4. ASSUME Stat
      PROVE  Pending'
  <2>1. pc = "poll" /\ pc' \in {"read", "check"} /\ buf' = buf /\ lines' = lines
    BY <1>4 DEF Stat, framer
  <2> QED
    BY <2>1
<1>5. ASSUME Read \/ Feed
      PROVE  Pending'
  BY <1>5 DEF Read, Feed, framer
<1>6. ASSUME DrainLine \/ DrainEnd \/ LineTooLong
      PROVE  Pending'
  BY <1>6 DEF DrainLine, DrainEnd, LineTooLong, framer
<1>7. ASSUME SkipBlank \/ AppendLine \/ AppendFails \/ WriteDone
      PROVE  Pending'
  BY <1>7 DEF SkipBlank, AppendLine, AppendFails, WriteDone, framer
<1>8. ASSUME PollAgain
      PROVE  Pending'
  BY <1>8 DEF PollAgain, framer
<1>9. ASSUME Finish \/ FinishFails
      PROVE  Pending'
  <2>1. pc = "check" /\ exited /\ pc' = "finished" /\ exited' = exited /\ buf' = <<>> /\ lines' = lines
    BY <1>9 DEF Finish, FinishFails, harness
  <2> QED
    BY <1>0, <2>1
<1>10. ASSUME UNCHANGED vars
       PROVE  Pending'
  BY <1>10 DEF vars, harness, framer
<1> QED
  BY <1>1, <1>2, <1>3, <1>4, <1>5, <1>6, <1>7, <1>8, <1>9, <1>10 DEF Next

LEMMA StepCount ==
  ASSUME TypeOK, count = Len(records), [Next]_vars
  PROVE  count' = Len(records')
<1>1. \/ records' = records /\ count' = count
      \/ \E l \in Seq(Bytes) : records' = Append(records, l) /\ count' = count + 1
  <2>1. CASE AppendLine
    <3>1. Head(lines) \in Seq(Bytes)
      BY <2>1, HeadTailProperties DEF AppendLine, TypeOK
    <3> QED
      BY <2>1, <3>1 DEF AppendLine, Record
  <2>2. CASE Finish
    BY <2>2 DEF Finish, Record, TypeOK
  <2>3. CASE ~AppendLine /\ ~Finish
    BY <2>3 DEF Next, vars, store, HarnessAppends, HarnessCuts, HarnessExits, Stat, Read, Feed,
      DrainLine, DrainEnd, LineTooLong, SkipBlank, AppendFails, WriteDone, PollAgain, FinishFails
  <2> QED
    BY <2>1, <2>2, <2>3
<1>2. \A l \in Seq(Bytes) : Len(Append(records, l)) = Len(records) + 1
  BY AppendProperties DEF TypeOK
<1> QED
  BY <1>1, <1>2

-----------------------------------------------------------------------------
(* Framing.                                                                *)

\* TypeOK in terms of lines.
LEMMA Typed ==
  ASSUME TypeOK
  PROVE  /\ buf \in Lines /\ found \in Lines /\ stream \in Lines
         /\ lines \in Seq(Lines) /\ records \in Seq(Lines)
         /\ Unframed \in Lines
BY DEF TypeOK, Lines, Unframed

LEMMA FramingSame ==
  ASSUME FramingKept, pc # "finished" \/ pc' = "finished",
         past \subseteq past', Unframed' = Unframed,
         records' = records, lines' = lines, stream' = stream
  PROVE  FramingKept'
<1>1. Captured' = Captured
  BY DEF Captured
<1>2. Intact' => Intact
  BY DEF Intact, Avoided
<1> QED
  BY <1>1, <1>2 DEF FramingKept

\* Where nothing is pending the records are all there is.
LEMMA Settled ==
  ASSUME TypeOK, Pending, pc \in {"poll", "read", "check"}
  PROVE  Unframed = buf /\ Captured = records /\ PartialOf(buf) = buf /\ Whole(buf) = <<>>
<1>1. buf \in Lines /\ Newlines(buf) = {} /\ lines = <<>> /\ records \in Seq(Lines)
  BY Typed DEF Pending
<1>2. Unframed = buf
  BY DEF Unframed
<1>3. PartialOf(buf) = buf /\ Whole(buf) = <<>>
  BY <1>1, NoNewline, WholeNone
<1>4. NonBlank(<<>>) = <<>> /\ <<>> \in Seq(Lines) /\ records \o <<>> = records
  BY <1>1, NonBlankNone, ConcatEmptySeq
<1>5. Captured = records
  BY <1>1, <1>2, <1>3, <1>4 DEF Captured
<1> QED
  BY <1>2, <1>3, <1>5

LEMMA ReadFraming ==
  ASSUME TypeOK, Pending, FramingKept, Read, TypeOK'
  PROVE  FramingKept'
<1>1. /\ pc = "read" /\ pc' = "feed" /\ stream' = stream \o found'
      /\ buf' = buf /\ lines' = lines /\ records' = records /\ past' = past
  BY DEF Read, framer, store
<1>2. Unframed = buf /\ Captured = records /\ PartialOf(buf) = buf
  BY <1>1, Settled
<1>3. buf \in Lines /\ found' \in Lines /\ stream \in Lines /\ records \in Seq(Lines)
  BY Typed DEF TypeOK, Lines
<1> DEFINE more == Whole(buf \o found')
<1>4. more \in Seq(Lines) /\ Whole(stream) \in Seq(Lines)
  <2>1. buf \o found' \in Lines
    BY <1>3 DEF Lines
  <2> QED
    BY <1>3, <2>1, WholeType
<1>5. PartialOf(stream) = buf
  BY <1>1, <1>2 DEF FramingKept
<1>6. Whole(stream') = Whole(stream) \o more /\ PartialOf(stream') = PartialOf(buf \o found')
  BY <1>1, <1>3, <1>5, WholeConcat, FramedConcat
<1>7. Unframed' = buf \o found'
  BY <1>1 DEF Unframed
<1>8. lines = <<>>
  BY <1>1 DEF Pending
<1>9. Captured' = records \o more
  <2>1. Captured' = (records \o NonBlank(<<>>)) \o more
    BY <1>1, <1>7, <1>8 DEF Captured
  <2>2. records \o NonBlank(<<>>) = records
    BY <1>3, NonBlankNone, ConcatEmptySeq
  <2> QED
    BY <2>1, <2>2
<1> HIDE DEF more
<1>10. Sub(records, Whole(stream)) /\ (Intact => records = Whole(stream))
  BY <1>1, <1>2 DEF FramingKept
<1>11. Sub(Captured', Whole(stream'))
  <2>1. Sub(more, more)
    BY <1>4, SubSame
  <2>2. Sub(records \o more, Whole(stream) \o more)
    BY <1>3, <1>4, <1>10, <2>1, SubConcat
  <2> QED
    BY <1>6, <1>9, <2>2
<1>12. Intact' => Captured' = Whole(stream')
  <2>1. Intact' <=> Intact
    BY <1>1 DEF Intact, Avoided
  <2> QED
    BY <1>6, <1>9, <1>10, <2>1
<1> QED
  BY <1>6, <1>7, <1>11, <1>12 DEF FramingKept

LEMMA DrainFraming ==
  ASSUME TypeOK, FramingKept, DrainLine
  PROVE  FramingKept'
<1>1. /\ pc = "drain" /\ pc' = "drain" /\ Newlines(buf) # {}
      /\ stream' = stream /\ records' = records /\ past' = past
      /\ lines' = Append(lines, Stripped(SubSeq(buf, 1, FirstNewline(buf) - 1)))
      /\ buf' = SubSeq(buf, FirstNewline(buf) + 1, Len(buf))
  BY DEF DrainLine, follower, store
<1>2. buf \in Lines /\ lines \in Seq(Lines) /\ records \in Seq(Lines)
  BY Typed
<1>3. /\ buf' \in Lines /\ PartialOf(buf') = PartialOf(buf)
      /\ NonBlank(lines') \o Whole(buf') = NonBlank(lines) \o Whole(buf)
      /\ lines' \in Seq(Lines)
  <2> DEFINE l == Stripped(SubSeq(buf, 1, FirstNewline(buf) - 1))
             post == SubSeq(buf, FirstNewline(buf) + 1, Len(buf))
  <2>1. /\ l \in Lines /\ post \in Lines
        /\ PartialOf(post) = PartialOf(buf)
        /\ NonBlank(Append(lines, l)) \o Whole(post) = NonBlank(lines) \o Whole(buf)
    BY <1>1, <1>2, LineMoves
  <2>2. lines' = Append(lines, l) /\ buf' = post
    BY <1>1
  <2> HIDE DEF l, post
  <2>3. lines' \in Seq(Lines)
    BY <1>2, <2>1, <2>2
  <2> QED
    BY <2>1, <2>2, <2>3
<1>4. Unframed = buf /\ Unframed' = buf'
  BY <1>1 DEF Unframed
<1>5. Captured' = Captured
  <2> DEFINE a == NonBlank(lines)
             b == Whole(buf)
             c == NonBlank(lines')
             d == Whole(buf')
  <2>1. a \in Seq(Lines) /\ b \in Seq(Lines) /\ c \in Seq(Lines) /\ d \in Seq(Lines)
    BY <1>2, <1>3, NonBlankType, WholeType
  <2>2. Captured = (records \o a) \o b /\ Captured' = (records \o c) \o d
    BY <1>1, <1>4 DEF Captured
  <2> HIDE DEF a, b, c, d
  <2>3. Associates(records, a, b)
    BY <1>2, <2>1, Associating
  <2>4. Associates(records, c, d)
    BY <1>2, <2>1, Associating
  <2>5. c \o d = a \o b
    BY <1>3 DEF a, b, c, d
  <2> QED
    BY <2>2, <2>3, <2>4, <2>5 DEF Associates
<1>6. Intact' <=> Intact
  BY <1>1 DEF Intact, Avoided
<1> QED
  BY <1>1, <1>3, <1>4, <1>5, <1>6 DEF FramingKept

LEMMA AppendFraming ==
  ASSUME TypeOK, FramingKept, SkipBlank \/ AppendLine
  PROVE  FramingKept'
<1>1. /\ pc = "append" /\ pc' = "append" /\ lines # <<>> /\ lines' = Tail(lines)
      /\ stream' = stream /\ buf' = buf /\ past' = past
      /\ \/ Blank(Head(lines)) /\ records' = records
         \/ ~Blank(Head(lines)) /\ records' = Append(records, Head(lines))
  BY DEF SkipBlank, AppendLine, Record, follower, store
<1>2. /\ buf \in Lines /\ lines \in Seq(Lines) /\ records \in Seq(Lines)
      /\ Head(lines) \in Lines /\ Tail(lines) \in Seq(Lines)
  BY <1>1, Typed, HeadAndTail
<1>3. Unframed = buf /\ Unframed' = buf
  BY <1>1 DEF Unframed
<1>4. records' \o NonBlank(lines') = records \o NonBlank(lines)
  <2>1. CASE Blank(Head(lines))
    BY <1>1, <1>2, <2>1, HeadKept
  <2>2. CASE ~Blank(Head(lines))
    <3> DEFINE h == <<Head(lines)>>
               t == NonBlank(Tail(lines))
    <3>1. h \in Seq(Lines) /\ t \in Seq(Lines) /\ NonBlank(lines) = h \o t
      <4>1. h \in Seq(Lines)
        BY <1>2
      <4>2. t \in Seq(Lines)
        BY <1>2, NonBlankType
      <4>3. NonBlank(lines) = h \o t
        BY <1>1, <1>2, <2>2, HeadKept
      <4> QED
        BY <4>1, <4>2, <4>3
    <3>2. records' = records \o h
      BY <1>1, <1>2, <2>2, AppendIsConcat
    <3>3. NonBlank(lines') = t
      BY <1>1
    <3> HIDE DEF h, t
    <3>4. Associates(records, h, t)
      BY <1>2, <3>1, Associating
    <3> QED
      BY <3>1, <3>2, <3>3, <3>4 DEF Associates
  <2> QED
    BY <2>1, <2>2
<1>5. Captured' = Captured
  BY <1>3, <1>4 DEF Captured
<1>6. Intact' <=> Intact
  BY <1>1 DEF Intact, Avoided
<1> QED
  BY <1>1, <1>3, <1>5, <1>6 DEF FramingKept

\* Lines that are given up are whole ones.
LEMMA LossFraming ==
  ASSUME TypeOK, FramingKept, Pending, LineTooLong \/ AppendFails
  PROVE  FramingKept'
<1>1. /\ pc \in {"drain", "append"} /\ pc' = "check" /\ Newlines(buf) = {} /\ lines' = <<>>
      /\ stream' = stream /\ buf' = buf /\ records' = records
      /\ ~Intact'
  BY DEF LineTooLong, AppendFails, follower, Happened, Intact, Avoided, Pending, store
<1>2. buf \in Lines /\ lines \in Seq(Lines) /\ records \in Seq(Lines)
  BY Typed
<1>3. Unframed = buf /\ Unframed' = buf
  BY <1>1 DEF Unframed
<1>4. Whole(buf) = <<>>
  BY <1>1, <1>2, WholeNone
<1>5. Captured = records \o NonBlank(lines)
  <2>1. Captured = (records \o NonBlank(lines)) \o <<>>
    BY <1>3, <1>4 DEF Captured
  <2>2. records \o NonBlank(lines) \in Seq(Lines)
    BY <1>2, NonBlankType, ConcatProperties
  <2> QED
    BY <2>1, <2>2, ConcatEmptySeq
<1>6. Captured' = records
  <2>1. Captured' = (records \o NonBlank(<<>>)) \o <<>>
    BY <1>1, <1>3, <1>4 DEF Captured
  <2> QED
    BY <1>2, <2>1, NonBlankNone, ConcatEmptySeq
<1>7. Sub(records, Whole(stream))
  <2>1. Sub(records \o NonBlank(lines), Whole(stream))
    BY <1>1, <1>5 DEF FramingKept
  <2> QED
    BY <1>2, <2>1, NonBlankType, SubPrefix
<1> QED
  BY <1>1, <1>3, <1>6, <1>7 DEF FramingKept

LEMMA StepFraming ==
  ASSUME TypeOK, Pending, FramingKept, TypeOK', [Next]_vars
  PROVE  FramingKept'
<1>0. past \subseteq past'
  BY PastGrows
<1>1. ASSUME \/ \E b \in Bytes : HarnessAppends(b)
             \/ \E n \in 0..MaxBytes : HarnessCuts(n)
             \/ HarnessExits \/ UNCHANGED vars
      PROVE  FramingKept'
  <2>1. UNCHANGED <<pc, buf, found, lines, records, stream>>
    BY <1>1 DEF HarnessAppends, HarnessCuts, HarnessExits, vars, follower, framer, store
  <2>2. Unframed' = Unframed
    BY <2>1 DEF Unframed
  <2> QED
    BY <1>0, <2>1, <2>2, FramingSame
<1>2. ASSUME Stat \/ DrainEnd \/ WriteDone \/ PollAgain
      PROVE  FramingKept'
  <2>1. pc \notin {"feed", "finished"} /\ pc' # "feed" /\ UNCHANGED <<buf, lines, records, stream>>
    BY <1>2 DEF Stat, DrainEnd, WriteDone, PollAgain, follower, framer, store
  <2>2. Unframed' = Unframed
    BY <2>1 DEF Unframed
  <2> QED
    BY <1>0, <2>1, <2>2, FramingSame
<1>3. CASE Feed
  <2>1. pc = "feed" /\ pc' = "drain" /\ buf' = buf \o found /\ UNCHANGED <<lines, records, stream>>
    BY <1>3 DEF Feed, follower, store
  <2>2. Unframed' = Unframed
    BY <2>1 DEF Unframed
  <2> QED
    BY <1>0, <2>1, <2>2, FramingSame
<1>4. CASE Finish \/ FinishFails
  <2>1. pc' = "finished"
    BY <1>4 DEF Finish, FinishFails
  <2> QED
    BY <2>1 DEF FramingKept
<1> QED
  BY <1>1, <1>2, <1>3, <1>4, ReadFraming, DrainFraming, AppendFraming, LossFraming DEF Next

\* What finish leaves.
LEMMA StepStored ==
  ASSUME TypeOK, Pending, FramingKept, Stored, [Next]_vars
  PROVE  Stored'
<1>1. ASSUME pc # "finished", pc' = "finished"
      PROVE  Stored'
  <2>1. Finish \/ FinishFails
    BY <1>1 DEF Next, vars, HarnessAppends, HarnessCuts, HarnessExits, Stat, Read, Feed,
      DrainLine, DrainEnd, LineTooLong, SkipBlank, AppendLine, AppendFails, WriteDone, PollAgain
  <2>2. pc = "check" /\ stream' = stream
    BY <2>1 DEF Finish, FinishFails, follower
  <2>3. /\ PartialOf(stream) = buf
        /\ Sub(records, Whole(stream)) /\ (Intact => records = Whole(stream))
    BY <2>2, Settled DEF FramingKept
  <2>4. stream \in Lines /\ buf \in Lines /\ records \in Seq(Lines)
    BY Typed
  <2> DEFINE last == NonBlank(<<buf>>)
  <2>5. last = IF Blank(buf) THEN <<>> ELSE <<buf>>
    BY <2>4, NonBlankOne
  <2>6. last \in Seq(Lines) /\ Whole(stream) \in Seq(Lines) /\ <<>> \in Seq(Lines)
    <3>1. <<buf>> \in Seq(Lines) /\ <<>> \in Seq(Lines)
      BY <2>4
    <3>2. Whole(stream) \in Seq(Lines)
      BY <2>4, WholeType
    <3> HIDE DEF last
    <3> QED
      BY <2>5, <3>1, <3>2
  <2>7. RecordsOf(stream) = Whole(stream) \o last
    BY <2>3, <2>4, RecordsOfParts
  <2> HIDE DEF last
  <2>8. CASE Finish
    <3>1. records' = records \o last
      <4>1. CASE Blank(buf)
        <5>1. records' = records
          BY <2>8, <4>1 DEF Finish
        <5> QED
          BY <2>4, <2>5, <4>1, <5>1, ConcatEmptySeq
      <4>2. CASE ~Blank(buf)
        <5>1. records' = Append(records, buf)
          BY <2>8, <4>2 DEF Finish, Record
        <5> QED
          BY <2>4, <2>5, <4>2, <5>1, AppendIsConcat
      <4> QED
        BY <4>1, <4>2
    <3>2. Sub(records \o last, Whole(stream) \o last)
      BY <2>3, <2>4, <2>6, SubSame, SubConcat
    <3>3. Intact' <=> Intact
      BY <2>8 DEF Finish, Intact, Avoided
    <3> QED
      BY <2>2, <2>3, <2>7, <3>1, <3>2, <3>3 DEF Stored
  <2>9. CASE FinishFails
    <3>1. records' = records /\ ~Intact'
      BY <2>9 DEF FinishFails, Happened, Intact, Avoided
    <3>2. Sub(records \o <<>>, Whole(stream) \o last)
      BY <2>3, <2>4, <2>6, SubNone, SubConcat
    <3>3. records \o <<>> = records
      BY <2>4, ConcatEmptySeq
    <3> QED
      BY <2>2, <2>7, <3>1, <3>2, <3>3 DEF Stored
  <2> QED
    BY <2>1, <2>8, <2>9
<1>2. ASSUME pc = "finished"
      PROVE  Stored'
  <2>1. UNCHANGED <<records, stream>>
    BY <1>2 DEF Next, vars, store, follower, HarnessAppends, HarnessCuts, HarnessExits, Stat, Read,
      Feed, DrainLine, DrainEnd, LineTooLong, SkipBlank, AppendLine, AppendFails, WriteDone,
      PollAgain, Finish, FinishFails
  <2>2. Intact' => Intact
    BY PastGrows DEF Intact, Avoided
  <2> QED
    BY <1>2, <2>1, <2>2 DEF Stored
<1> QED
  BY <1>1, <1>2 DEF Stored

-----------------------------------------------------------------------------
(* What polls returned.                                                    *)

\* What follows the loop's position is what a poll returns.
LEMMA Adjacent ==
  ASSUME NEW S, NEW s \in Seq(S), NEW b \in Nat, NEW m \in Nat, NEW n \in Nat,
         b <= m, m <= n, n <= Len(s)
  PROVE  /\ SubSeq(s, b + 1, m) \in Seq(S)
         /\ SubSeq(s, m + 1, n) \in Seq(S)
         /\ SubSeq(s, b + 1, m) \o SubSeq(s, m + 1, n) = SubSeq(s, b + 1, n)
         /\ m < n => SubSeq(s, m + 1, n) # <<>>
<1>1. Len(s) \in Nat
  OBVIOUS
<1>2. /\ b + 1 \in Nat /\ b + 1 # 0 /\ m <= Len(s) /\ m + 1 \in Nat /\ m + 1 # 0
      /\ b + 1 \in 1..(Len(s) + 1) /\ m \in ((b + 1) - 1)..Len(s) /\ n \in m..Len(s)
  BY <1>1
<1>3. SubSeq(s, b + 1, m) \in Seq(S)
  BY <1>2, Part
<1>4. SubSeq(s, m + 1, n) \in Seq(S)
  BY <1>2, Part
<1>5. SubSeq(s, b + 1, m) \o SubSeq(s, m + 1, n) = SubSeq(s, b + 1, n)
  BY <1>2, ConcatAdjacentSubSeq
<1>6. ASSUME m < n
      PROVE  SubSeq(s, m + 1, n) # <<>>
  <2> DEFINE k == m + 1
  <2>1. k \in Int /\ n \in Int /\ k <= n /\ n - k + 1 # 0 /\ \A i \in k..n : s[i] \in S
    <3>1. \A i \in k..n : i \in 1..Len(s)
      BY <1>1
    <3> QED
      BY <1>6, <3>1
  <2> HIDE DEF k
  <2>2. Len(SubSeq(s, k, n)) = n - k + 1
    BY <2>1, SubSeqProperties
  <2>3. SubSeq(s, k, n) # <<>>
    BY <2>1, <2>2
  <2> QED
    BY <2>3 DEF k
<1> QED
  BY <1>3, <1>4, <1>5, <1>6

\* Appending does not change what is before the end.
LEMMA PartAppend ==
  ASSUME NEW S, NEW s \in Seq(S), NEW e \in S, NEW m \in Nat, m # 0, NEW n \in Nat, n <= Len(s)
  PROVE  SubSeq(Append(s, e), m, n) = SubSeq(s, m, n)
<1> DEFINE t == Append(s, e)
<1>1. \A i \in m..n : i \in 1..Len(s)
  OBVIOUS
<1>2. \A i \in m..n : t[i] = s[i] /\ s[i] \in S
  BY <1>1, AppendProperties
<1> HIDE DEF t
<1>3. /\ SubSeq(s, m, n) \in Seq(S) /\ SubSeq(t, m, n) \in Seq(S)
      /\ Len(SubSeq(s, m, n)) = Len(SubSeq(t, m, n))
      /\ Len(SubSeq(s, m, n)) = IF m <= n THEN n - m + 1 ELSE 0
      /\ \A i \in 1..(n - m + 1) : SubSeq(s, m, n)[i] = s[m + i - 1] /\ SubSeq(t, m, n)[i] = t[m + i - 1]
  BY <1>2, SubSeqProperties
<1>4. \A i \in 1..(n - m + 1) : m + i - 1 \in m..n
  OBVIOUS
<1>5. \A i \in 1..Len(SubSeq(s, m, n)) : SubSeq(s, m, n)[i] = SubSeq(t, m, n)[i]
  BY <1>2, <1>3, <1>4
<1>6. SubSeq(s, m, n) = SubSeq(t, m, n)
  BY <1>3, <1>5, SeqEqual
<1> QED
  BY <1>6 DEF t

\* The log as far as it was followed.
Followed == SubSeq(file, base + 1, offset)

LEMMA StepArrived ==
  ASSUME TypeOK, Pending, Arrived, [Next]_vars
  PROVE  Arrived'
<1> SUFFICES ASSUME Avoided({"cut"})'
             PROVE  /\ Position'
                    /\ Sub(Followed', stream')
                    /\ Avoided({"race"})' => stream' = Followed'
                    /\ pc' = "finished" /\ Avoided({"late"})' => offset' = Len(file')
  BY DEF Arrived, Followed
<1>0. /\ offset \in Nat /\ base \in Nat /\ len \in Nat /\ Len(file) \in Nat
      /\ file \in Seq(Bytes) /\ stream \in Seq(Bytes)
  BY DEF TypeOK
<1>a. \A ms : Avoided(ms)' => Avoided(ms)
  BY PastGrows DEF Avoided
<1>b. /\ Position
      /\ Sub(Followed, stream)
      /\ Avoided({"race"}) => stream = Followed
      /\ pc = "finished" /\ Avoided({"late"}) => offset = Len(file)
  BY <1>a DEF Arrived, Followed
<1>1. ASSUME NEW b \in Bytes, HarnessAppends(b)
      PROVE  /\ Position'
             /\ Followed' = Followed /\ stream' = stream
             /\ pc' # "finished"
  <2>1. /\ file' = Append(file, b) /\ ~exited /\ ~exited'
        /\ UNCHANGED <<pc, offset, len, found, base, stream>>
        /\ pc = "read" => "race" \in past'
    BY <1>1 DEF HarnessAppends, MayWrite, follower, Happened
  <2>2. Len(file') = Len(file) + 1
    BY <2>1, AppendProperties DEF TypeOK
  <2>3. Position'
    <3>1. base' <= offset' /\ offset' <= Len(file')
      BY <1>0, <1>b, <2>1, <2>2 DEF Position
    <3>2. pc' = "read" => offset' < len' /\ len' <= Len(file')
      BY <1>0, <1>b, <2>1, <2>2 DEF Position
    <3>3. pc' = "read" => ~Avoided({"race"})'
      BY <2>1 DEF Avoided
    <3>4. pc' \in {"feed", "drain", "append"} => found' # <<>>
      BY <1>b, <2>1 DEF Position
    <3> QED
      BY <2>1, <3>1, <3>2, <3>3, <3>4 DEF Position
  <2>4. SubSeq(file', base + 1, offset) = SubSeq(file, base + 1, offset)
    <3>1. base + 1 \in Nat /\ base + 1 # 0 /\ offset <= Len(file)
      BY <1>0, <1>b DEF Position
    <3> QED
      BY <1>0, <2>1, <3>1, PartAppend
  <2> QED
    BY <2>1, <2>3, <2>4 DEF Followed, Pending
<1>2. ASSUME NEW n \in 0..MaxBytes, HarnessCuts(n)
      PROVE  FALSE
  BY <1>2 DEF HarnessCuts, Happened, Avoided
<1>3. ASSUME HarnessExits
      PROVE  /\ Position'
             /\ Followed' = Followed /\ stream' = stream
             /\ pc' # "finished"
  <2>1. /\ ~exited /\ pc' = pc
        /\ UNCHANGED <<file, offset, len, found, base, stream>>
        /\ pc = "check" /\ found = <<>> /\ offset # Len(file) => "late" \in past'
    BY <1>3 DEF HarnessExits, follower, Happened
  <2>2. Position'
    BY <1>a, <1>b, <2>1 DEF Position, Avoided
  <2> QED
    BY <2>1, <2>2 DEF Followed, Pending
<1>4. ASSUME Stat
      PROVE  /\ Position'
             /\ Followed' = Followed /\ stream' = stream
             /\ pc' # "finished"
  <2>1. /\ UNCHANGED <<file, exited, stream, base>> /\ len' = Len(file)
        /\ offset' = IF len' < offset THEN 0 ELSE offset
    BY <1>4 DEF Stat, harness
  <2>2. offset' = offset
    BY <1>0, <1>b, <2>1 DEF Position
  <2>3. \/ offset >= len' /\ found' = <<>> /\ pc' = "check"
        \/ ~(offset >= len') /\ pc' = "read"
    BY <1>4, <2>2 DEF Stat
  <2>4. Position'
    <3>1. base <= offset /\ offset <= Len(file)
      BY <1>b DEF Position
    <3>2. CASE offset >= len'
      <4>1. pc' = "check" /\ offset' = Len(file')
        BY <1>0, <2>1, <2>2, <2>3, <3>1, <3>2
      <4> QED
        BY <2>1, <2>2, <3>1, <4>1 DEF Position
    <3>3. CASE ~(offset >= len')
      <4>1. pc' = "read" /\ offset' < len' /\ len' = Len(file')
        BY <1>0, <2>1, <2>2, <2>3, <3>3
      <4>2. len' <= Len(file')
        BY <1>0, <2>1, <4>1
      <4> QED
        BY <2>1, <2>2, <3>1, <4>1, <4>2 DEF Position
    <3> QED
      BY <3>2, <3>3
  <2> QED
    BY <2>1, <2>2, <2>3, <2>4 DEF Followed
<1>5. ASSUME Read
      PROVE  /\ Position'
             /\ Sub(Followed', stream')
             /\ Avoided({"race"})' => stream' = Followed'
             /\ pc' # "finished"
  <2>1. /\ pc = "read" /\ pc' = "feed" /\ offset' = len
        /\ UNCHANGED <<file, exited, len, base, past>>
        /\ found' = SubSeq(file, offset + 1, Len(file)) /\ stream' = stream \o found'
    BY <1>5 DEF Read, harness
  <2>2. base <= offset /\ offset < len /\ len <= Len(file) /\ offset <= len /\ offset <= Len(file)
        /\ offset < Len(file) /\ base <= len /\ Len(file) <= Len(file)
    BY <1>0, <1>b, <2>1 DEF Position
  <2> DEFINE new == SubSeq(file, offset + 1, len)
             rest == SubSeq(file, len + 1, Len(file))
  <2>3. /\ Followed \in Seq(Bytes) /\ new \in Seq(Bytes) /\ Followed' = Followed \o new
    <3>1. /\ SubSeq(file, base + 1, offset) \in Seq(Bytes) /\ new \in Seq(Bytes)
          /\ SubSeq(file, base + 1, offset) \o new = SubSeq(file, base + 1, len)
      BY <1>0, <2>2, Adjacent
    <3> QED
      BY <2>1, <3>1 DEF Followed
  <2>4. rest \in Seq(Bytes) /\ found' = new \o rest
    <3> DEFINE end == Len(file)
    <3>1. end \in Nat /\ offset <= len /\ len <= end /\ end <= Len(file)
      BY <1>0, <2>2
    <3> HIDE DEF end
    <3>2. SubSeq(file, len + 1, end) \in Seq(Bytes)
      BY <1>0, <3>1, Adjacent
    <3>3. new \o SubSeq(file, len + 1, end) = SubSeq(file, offset + 1, end)
      BY <1>0, <3>1, Adjacent
    <3> QED
      BY <2>1, <3>2, <3>3 DEF end
  <2>5. found' \in Seq(Bytes) /\ found' # <<>>
    <3> DEFINE end == Len(file)
    <3>1. end \in Nat /\ offset <= end /\ offset < end /\ end <= Len(file)
      BY <1>0, <2>2
    <3> HIDE DEF end
    <3>2. SubSeq(file, offset + 1, end) \in Seq(Bytes) /\ SubSeq(file, offset + 1, end) # <<>>
      BY <1>0, <3>1, Adjacent
    <3> QED
      BY <2>1, <3>2 DEF end
  <2>6. Avoided({"race"})' => stream' = Followed'
    <3> HAVE Avoided({"race"})'
    <3>1. Avoided({"race"})
      BY <1>a
    <3>2. len = Len(file) /\ stream = Followed
      BY <1>b, <2>1, <3>1 DEF Position
    <3>3. found' = new
      BY <2>1, <3>2
    <3> QED
      BY <2>1, <2>3, <3>2, <3>3
  <2>7. Position'
    BY <2>1, <2>2, <2>5 DEF Position
  <2> HIDE DEF new, rest
  <2>8. Sub(new, found')
    <3>1. Sub(new \o rest, found')
      BY <2>4, <2>5, SubSame
    <3> QED
      BY <2>3, <2>4, <3>1, SubPrefix
  <2>9. Sub(Followed \o new, stream \o found')
    BY <1>0, <1>b, <2>3, <2>5, <2>8, SubConcat
  <2> QED
    BY <2>1, <2>3, <2>6, <2>7, <2>9
<1>6. ASSUME \/ Feed \/ DrainLine \/ DrainEnd \/ LineTooLong
             \/ SkipBlank \/ AppendLine \/ AppendFails \/ WriteDone
      PROVE  /\ Position'
             /\ Followed' = Followed /\ stream' = stream
             /\ pc' # "finished"
  <2>1. /\ pc \in {"feed", "drain", "append"} /\ pc' \in {"drain", "append", "check"}
        /\ UNCHANGED <<file, exited, offset, len, found, base, stream>>
    BY <1>6 DEF Feed, DrainLine, DrainEnd, LineTooLong, SkipBlank, AppendLine, AppendFails,
      WriteDone, harness, follower
  <2> QED
    BY <1>b, <2>1 DEF Position, Followed
<1>7. ASSUME PollAgain
      PROVE  /\ Position'
             /\ Followed' = Followed /\ stream' = stream
             /\ pc' # "finished"
  <2>1. /\ pc = "check" /\ pc' = "poll"
        /\ UNCHANGED <<file, exited, offset, len, found, base, stream>>
    BY <1>7 DEF PollAgain, harness, follower
  <2> QED
    BY <1>b, <2>1 DEF Position, Followed
<1>8. ASSUME Finish \/ FinishFails
      PROVE  /\ Position'
             /\ Followed' = Followed /\ stream' = stream
             /\ Avoided({"late"})' => offset' = Len(file')
  <2>1. /\ pc = "check" /\ exited /\ found = <<>> /\ pc' = "finished"
        /\ UNCHANGED <<file, exited, offset, len, found, base, stream>>
    BY <1>8 DEF Finish, FinishFails, harness, follower
  <2> QED
    BY <1>a, <1>b, <2>1 DEF Position, Followed
<1>9. ASSUME UNCHANGED vars
      PROVE  /\ Position'
             /\ Followed' = Followed /\ stream' = stream
             /\ pc' = pc /\ offset' = offset /\ file' = file
  <2>1. UNCHANGED <<pc, file, exited, offset, len, found, base, stream, past>>
    BY <1>9 DEF vars, harness, follower
  <2> QED
    BY <1>b, <2>1 DEF Position, Followed, Avoided
<1> QED
  BY <1>1, <1>2, <1>3, <1>4, <1>5, <1>6, <1>7, <1>8, <1>9, <1>a, <1>b DEF Next

-----------------------------------------------------------------------------
(* The theorems.                                                           *)

LEMMA StepInv ==
  ASSUME Inv, [Next]_vars
  PROVE  Inv'
<1>1. TypeOK /\ Pending /\ count = Len(records) /\ FramingKept /\ Stored /\ Arrived
  BY DEF Inv
<1>2. TypeOK'
  BY <1>1, StepType
<1>3. Pending' /\ count' = Len(records') /\ FramingKept'
  BY <1>1, <1>2, StepPending, StepCount, StepFraming
<1>4. Stored' /\ Arrived'
  BY <1>1, StepStored, StepArrived
<1> QED
  BY <1>2, <1>3, <1>4 DEF Inv

LEMMA AlwaysInv == Spec => []Inv
BY InitInv, StepInv, PTL DEF Spec

\* What the invariant says of sequences with elements left out.
LEMMA Implied ==
  ASSUME Inv
  PROVE  IInv
<1>1. TypeOK /\ Pending /\ count = Len(records) /\ FramingKept /\ Stored /\ Arrived
  BY DEF Inv
<1>2. /\ records \in Seq(Lines) /\ stream \in Lines /\ NonBlank(lines) \in Seq(Lines)
      /\ Whole(Unframed) \in Seq(Lines) /\ Whole(stream) \in Seq(Lines)
  BY <1>1, Typed, NonBlankType, WholeType
<1> DEFINE waiting == NonBlank(lines) \o Whole(Unframed)
<1>3. Captured = records \o waiting /\ waiting \in Seq(Lines) /\ Captured \in Seq(Lines)
  <2>1. waiting \in Seq(Lines) /\ records \o waiting \in Seq(Lines)
    BY <1>2, ConcatProperties
  <2>2. Associates(records, NonBlank(lines), Whole(Unframed))
    BY <1>2, Associating
  <2> QED
    BY <2>1, <2>2 DEF Captured, Associates
<1> HIDE DEF waiting
<1>4. Conserved
  <2> SUFFICES ASSUME pc # "finished"
               PROVE  /\ PartialOf(Unframed) = PartialOf(stream)
                      /\ IsSubsequence(Captured, Whole(stream))
                      /\ Avoided({"cap", "failure"}) => Captured = Whole(stream)
    BY DEF Conserved, Captured, Unframed, Whole
  <2>1. Sub(Captured, Whole(stream))
    BY <1>1 DEF FramingKept
  <2>2. IsSubsequence(Captured, Whole(stream))
    BY <1>2, <1>3, <2>1, SubGreedy
  <2> QED
    BY <1>1, <2>2 DEF FramingKept, Intact
<1>5. OnlyWholeLines
  <2> DEFINE last == NonBlank(<<PartialOf(stream)>>)
  <2>1. RecordsOf(stream) = Whole(stream) \o last
    BY <1>2, RecordsOfParts
  <2>2. last \in Seq(Lines)
    <3>1. <<PartialOf(stream)>> \in Seq(Lines)
      BY <1>2, FramedFacts
    <3> QED
      BY <3>1, NonBlankType
  <2> HIDE DEF last
  <2>3. Sub(records, RecordsOf(stream))
    <3>1. CASE pc = "finished"
      BY <1>1, <3>1 DEF Stored
    <3>2. CASE pc # "finished"
      <4>1. Sub(records \o waiting, Whole(stream))
        BY <1>1, <1>3, <3>2 DEF FramingKept
      <4>2. Sub(records, Whole(stream))
        BY <1>2, <1>3, <4>1, SubPrefix
      <4>3. Sub(<<>>, last) /\ <<>> \in Seq(Lines) /\ records \o <<>> = records
        BY <1>2, SubNone, ConcatEmptySeq
      <4>4. Sub(records \o <<>>, Whole(stream) \o last)
        BY <1>2, <2>2, <4>2, <4>3, SubConcat
      <4> QED
        BY <2>1, <4>3, <4>4
    <3> QED
      BY <3>1, <3>2
  <2>4. RecordsOf(stream) \in Seq(Lines)
    BY <1>2, <2>1, <2>2, ConcatProperties
  <2> QED
    BY <1>1, <1>2, <2>3, <2>4, SubGreedy DEF OnlyWholeLines
<1>6. NoGaps
  <2> SUFFICES ASSUME Avoided({"cut"})
               PROVE  IsSubsequence(SubSeq(file, base + 1, offset), stream)
    BY DEF NoGaps
  <2>1. Sub(SubSeq(file, base + 1, offset), stream) /\ Position
    BY <1>1 DEF Arrived
  <2>2. SubSeq(file, base + 1, offset) \in Seq(Bytes) /\ stream \in Seq(Bytes)
    <3>1. file \in Seq(Bytes) /\ base + 1 \in Nat /\ base + 1 # 0 /\ offset \in Nat /\ offset <= Len(file)
      BY <1>1, <2>1 DEF TypeOK, Position
    <3>2. SubSeq(file, base + 1, offset) \in Seq(Bytes)
      BY <3>1, Part
    <3> QED
      BY <1>1, <3>2 DEF TypeOK
  <2> QED
    BY <2>1, <2>2, SubGreedy
<1>7. Avoided({"cut"}) => Position
  BY <1>1 DEF Arrived
<1> QED
  BY <1>1, <1>4, <1>5, <1>6, <1>7 DEF IInv

\* What the loop maintains holds in every reachable state, whatever the cap
\* on lines and however often the harness writes and appends fail: framing is
\* independent of how the stream is cut into chunks, and a log cut back, a line
\* over the cap or an append that failed cost whole lines (Framer::feed,
\* CaptureSession::write and finish).
THEOREM Invariance == Spec => []IInv
<1>1. Inv => IInv
  BY Implied
<1> QED
  BY <1>1, AlwaysInv, PTL

\* What polls returned of a log that only grows, and never between metadata
\* and read, is the log from where following began to offset
\* (FileFollower::poll).
THEOREM Delivery == Spec => []DeliversExactly
<1>1. Inv => DeliversExactly
  BY DEF Inv, Arrived, DeliversExactly, NewBytesOnly
<1> QED
  BY <1>1, AlwaysInv, PTL

\* When finish returns and nothing went wrong, the store holds every
\* non-blank line of the log from where following began, once and in order
\* (CaptureSession::finish).
THEOREM Captures == Spec => []CapturesAll
<1>1. Inv => CapturesAll
  <2> SUFFICES ASSUME Inv, pc = "finished", past = {}
               PROVE  records = RecordsOf(SubSeq(file, base + 1, Len(file)))
    BY DEF CapturesAll
  <2>1. \A ms : Avoided(ms)
    BY DEF Avoided
  <2>2. records = RecordsOf(stream)
    BY <2>1 DEF Inv, Stored, Intact
  <2>3. stream = SubSeq(file, base + 1, offset) /\ offset = Len(file)
    BY <2>1 DEF Inv, Arrived
  <2> QED
    BY <2>2, <2>3
<1> QED
  BY <1>1, AlwaysInv, PTL
=============================================================================
