------------------------- MODULE StdioEngineProofs --------------------------
(***************************************************************************)
(* Proofs about StdioEngine for every size of the pipe and every number of *)
(* requests and failures.                                                  *)
(***************************************************************************)
EXTENDS StdioEngine, SequenceTheorems, TLAPS

-----------------------------------------------------------------------------
(* Lines and chunks.                                                       *)

LEMMA PieceFields ==
  ASSUME NEW x \in Piece
  PROVE  /\ x.last \in BOOLEAN /\ x.of.id \in Nat /\ x.of.code \in Codes
         /\ x = [of |-> x.of, last |-> x.last]
BY DEF Piece

\* The end of the last line of a sound stream is its last or its last but one
\* piece.
LEMMA LastEnd ==
  ASSUME NEW s \in Seq(Piece), Framing(s)
  PROVE  /\ Max(Ends(s) \cup {0}) \in 0..Len(s)
         /\ Max(Ends(s) \cup {0}) # 0 => s[Max(Ends(s) \cup {0})].last
<1> DEFINE S == Ends(s) \cup {0}
           k == IF s = <<>> THEN 0 ELSE IF s[Len(s)].last THEN Len(s) ELSE Len(s) - 1
<1>1. Len(s) \in Nat /\ \A n \in 1..Len(s) : s[n].last \in BOOLEAN
  BY PieceFields
<1>2. \A n \in S : n \in 0..Len(s)
  BY <1>1 DEF Ends
<1>3. k \in 0..Len(s) /\ k \in S
  <2>1. CASE s = <<>>
    BY <2>1
  <2>2. CASE s # <<>> /\ s[Len(s)].last
    BY <1>1, <2>2 DEF Ends
  <2>3. CASE s # <<>> /\ ~s[Len(s)].last /\ Len(s) = 1
    BY <1>1, <2>3
  <2>4. CASE s # <<>> /\ ~s[Len(s)].last /\ Len(s) # 1
    <3> DEFINE m == Len(s)
    <3>0. m \in Nat /\ m # 0
      BY <2>4
    <3>1. Len(s) \in 2..Len(s) /\ Len(s) - 1 \in 1..Len(s)
      <4>1. m # 1
        BY <2>4
      <4> HIDE DEF m
      <4>2. m \in 2..m /\ m - 1 \in 1..m
        BY <3>0, <4>1
      <4> QED
        BY <4>2 DEF m
    <3>2. s[Len(s) - 1].last
      <4>1. IF s[Len(s)].last THEN s[Len(s) - 1] = Text(s[Len(s)].of)
            ELSE s[Len(s) - 1].last
        BY <3>1 DEF Framing
      <4> QED
        BY <2>4, <4>1
    <3> QED
      BY <2>4, <3>1, <3>2 DEF Ends
  <2> QED
    BY <2>1, <2>2, <2>3, <2>4
<1>4. \A n \in S : n <= k
  BY <1>1, <1>2 DEF Ends
<1> HIDE DEF S, k
<1>5. Max(S) = k
  <2>1. \A n \in S : n \in Nat
    BY <1>2
  <2>2. Max(S) = CHOOSE x \in S : \A y \in S : x >= y
    BY DEF Max
  <2>3. \A x \in S : (\A y \in S : x >= y) => x = k
    BY <1>3, <1>4, <2>1
  <2>4. \A y \in S : k >= y
    BY <1>3, <1>4, <2>1
  <2> QED
    BY <1>3, <2>2, <2>3, <2>4
<1>6. k # 0 => s[k].last
  BY <1>3 DEF S, Ends
<1> QED
  BY <1>3, <1>5, <1>6 DEF S

\* A client that has read a part of a sound stream sees whole lines only.
LEMMA NothingGarbled ==
  ASSUME NEW w \in Seq(Piece), Framing(w), NEW s \in Seq(Piece), Len(s) <= Len(w),
         \A i \in 1..Len(s) : s[i] = w[i]
  PROVE  Framing(s) /\ Garbled(s) = {}
<1>1. Framing(s)
  BY DEF Framing
<1>2. ASSUME NEW n \in Garbled(s)
      PROVE  FALSE
  <2>1. n \in 1..Len(s) /\ s[n].last
    BY DEF Garbled, Ends
  <2>2. n # 1
    BY <1>1, <2>1 DEF Framing
  <2>3. n \in 2..Len(s) /\ s[n - 1] = Text(s[n].of)
    BY <1>1, <2>1, <2>2 DEF Framing
  <2>4. n > 2 /\ ~s[n - 2].last
    BY <2>2, <2>3 DEF Garbled
  <2>5. n - 1 \in 2..Len(s) /\ (n - 1) - 1 = n - 2
    BY <2>1, <2>4
  <2>6. ~s[n - 1].last
    BY <2>3 DEF Text
  <2> QED
    BY <1>1, <2>4, <2>5, <2>6 DEF Framing
<1> QED
  BY <1>1, <1>2

\* What follows a line of a sound stream is sound.
LEMMA FramingRest ==
  ASSUME NEW w \in Seq(Piece), Framing(w), NEW k \in 0..Len(w), k # 0 => w[k].last,
         NEW v \in Seq(Piece), Len(v) = Len(w) - k,
         \A i \in 1..Len(v) : v[i] = w[k + i]
  PROVE  Framing(v)
<1>1. ASSUME v # <<>>
      PROVE  ~v[1].last
  <2>1. 1 \in 1..Len(v) /\ k + 1 \in 1..Len(w) /\ v[1] = w[k + 1]
    BY <1>1
  <2>2. CASE k = 0
    BY <2>1, <2>2 DEF Framing
  <2>3. CASE k # 0
    <3>1. k + 1 \in 2..Len(w) /\ (k + 1) - 1 = k
      BY <2>1, <2>3
    <3>2. w[k + 1].last => w[k] = Text(w[k + 1].of)
      BY <3>1 DEF Framing
    <3> QED
      BY <2>1, <2>3, <3>2 DEF Text
  <2> QED
    BY <2>2, <2>3
<1>2. ASSUME NEW n \in 2..Len(v)
      PROVE  IF v[n].last THEN v[n - 1] = Text(v[n].of) ELSE v[n - 1].last
  <2>1. /\ n \in 1..Len(v) /\ n - 1 \in 1..Len(v) /\ k + n \in 2..Len(w)
        /\ k + (n - 1) = (k + n) - 1
    OBVIOUS
  <2>2. v[n] = w[k + n] /\ v[n - 1] = w[(k + n) - 1]
    BY <2>1
  <2> QED
    BY <2>1, <2>2 DEF Framing
<1> QED
  BY <1>1, <1>2 DEF Framing

\* Adding a text behind a line, and its newline behind a text.
LEMMA FramingAppend ==
  ASSUME NEW w \in Seq(Piece), Framing(w), NEW x \in Piece,
         \/ ~x.last /\ (w = <<>> \/ w[Len(w)].last)
         \/ x.last /\ w # <<>> /\ w[Len(w)] = Text(x.of)
  PROVE  Framing(Append(w, x))
<1> DEFINE v == Append(w, x)
<1>1. v \in Seq(Piece) /\ Len(v) = Len(w) + 1 /\ v[Len(w) + 1] = x
      /\ \A i \in 1..Len(w) : v[i] = w[i]
  BY AppendProperties
<1> HIDE DEF v
<1>2. Len(w) \in Nat
  OBVIOUS
<1>3. ~v[1].last
  BY <1>1, <1>2 DEF Framing
<1>4. ASSUME NEW n \in 2..Len(v)
      PROVE  IF v[n].last THEN v[n - 1] = Text(v[n].of) ELSE v[n - 1].last
  <2>1. CASE n = Len(v)
    <3>1. v[n] = x /\ v[n - 1] = w[Len(w)] /\ w # <<>>
      BY <1>1, <1>2, <2>1
    <3> QED
      BY <3>1
  <2>2. CASE n # Len(v)
    <3>1. n \in 2..Len(w) /\ v[n] = w[n] /\ v[n - 1] = w[n - 1]
      BY <1>1, <1>2, <2>2
    <3> QED
      BY <3>1 DEF Framing
  <2> QED
    BY <2>1, <2>2
<1> QED
  BY <1>3, <1>4 DEF Framing, v

-----------------------------------------------------------------------------
(* What the engine does.                                                   *)

\* A step of the engine that writes neither to its store nor to its output.
Quietly == UNCHANGED <<client, stdout, log>> /\ synced' \in synced..Len(log)

\* Such a step disturbs only what the invariant says of the engine's progress.
LEMMA QuietStep ==
  ASSUME IInv, Quietly, faults' \in 0..MaxFaults, stdin' \in Seq(Nat),
         engine' \in {"starting", "reading", "dispatch", "respond", "newline", "dead",
                      "unspawned"},
         serving' \in Nat, reply' \in [id : Nat, code : Codes], Gone => Gone',
         engine' = "newline" => engine = "newline" /\ reply' = reply,
         engine' \in {"starting", "reading", "dispatch", "respond"} =>
           engine \in {"starting", "reading", "dispatch", "sync", "respond"},
         InOrder', Writing',
         \A i \in Ids : Past(i) => Past(i)'
  PROVE  IInv'
<1>1. TypeOK'
  BY DEF IInv, TypeOK, Quietly, client, InOrder, Ids
<1>2. (PendingExact /\ LinesReassembled /\ Ended)'
  BY DEF IInv, PendingExact, LinesReassembled, Ended, Quietly, client, Ids
<1>3. Framed'
  BY DEF IInv, Framed, Framing, Stream, Quietly, client, TypeOK
<1>4. ASSUME NEW i, NEW code, Told(i, code)
      PROVE  Told(i, code)'
  <2>1. /\ sent' = sent /\ log' = log
        /\ synced \in 0..Len(log) /\ synced' \in synced..Len(log) /\ Len(log) \in Nat
    BY DEF IInv, TypeOK, Quietly, client
  <2>2. \A p \in 1..synced : p \in 1..synced'
    BY <2>1
  <2>3. \A p \in 1..Len(log) : p <= synced => p <= synced'
    BY <2>1
  <2>4. DOMAIN log = 1..Len(log)
    BY DEF IInv, TypeOK
  <2> QED
    BY <1>4, <2>1, <2>2, <2>3, <2>4 DEF Told
<1>5. Heard'
  <2> SUFFICES ASSUME NEW i \in Ids
               PROVE  /\ (how[i] \in Codes => Past(i) /\ Told(i, how[i]))'
                      /\ (how[i] = "unwritable" => Gone /\ Told(i, how[i]))'
    BY DEF Heard, Quietly, client, Ids
  <2>1. PICK code : code = how[i]
    OBVIOUS
  <2>2. /\ code \in Codes => Past(i) /\ Told(i, code)
        /\ code = "unwritable" => Gone /\ Told(i, code)
    BY <2>1 DEF IInv, Truthful, Heard
  <2>3. Told(i, code) => Told(i, code)'
    BY <1>4
  <2>4. how'[i] = code
    BY <2>1 DEF Quietly, client
  <2> QED
    BY <2>2, <2>3, <2>4 DEF Told
<1>6. Underway'
  <2> SUFFICES ASSUME NEW n \in DOMAIN Stream, Stream[n].of.id # NoId
               PROVE  (Past(Stream[n].of.id) /\ Told(Stream[n].of.id, Stream[n].of.code))'
    BY DEF Underway, Stream, Quietly, client
  <2>1. PICK i, code : i = Stream[n].of.id /\ code = Stream[n].of.code
    OBVIOUS
  <2>2. Past(i) /\ Told(i, code)
    BY <2>1 DEF IInv, Truthful, Underway
  <2>3. Past(i)' /\ Told(i, code)'
    BY <1>4, <2>2 DEF Past
  <2>4. Stream' = Stream
    BY DEF Stream, Quietly, client
  <2> QED
    BY <2>1, <2>3, <2>4 DEF Past, Told
<1> QED
  BY <1>1, <1>2, <1>3, <1>5, <1>6 DEF IInv, Truthful

LEMMA QuietActions ==
  ASSUME IInv,
         \/ Start \/ StartRefused \/ SpawnFails \/ Kill \/ EngineExits \/ ReadLine
         \/ Refuse \/ RefuseOversize \/ Scan \/ AppendBatchFails \/ Sync \/ SyncFails
  PROVE  IInv'
<1> USE DEF IInv, Quietly, client
<1>0. /\ TypeOK /\ InOrder /\ Truthful
      /\ NoId = 0 /\ {"ok", "retryable", "unknown", "final"} \subseteq Codes
      /\ Len(log) \in Nat /\ synced \in 0..Len(log) /\ faults \in 0..MaxFaults
      /\ MaxFaults \in Nat
  BY StdioAssumption DEF NoId, Codes, TypeOK
<1>1. CASE Start \/ StartRefused \/ SpawnFails \/ Kill \/ EngineExits
  <2>1. UNCHANGED <<stdin, serving, reply>> /\ Quietly /\ faults' \in 0..MaxFaults
    BY <1>0, <1>1 DEF Start, StartRefused, SpawnFails, Kill, EngineExits, Fault
  <2>2. /\ (engine' = "reading" /\ engine = "starting") \/ engine' \in {"dead", "unspawned"}
        /\ Gone => Gone'
    BY <1>1 DEF Start, StartRefused, SpawnFails, Kill, EngineExits, Gone
  <2>3. InOrder' /\ Writing' /\ \A i \in Ids : Past(i) => Past(i)'
    BY <1>0, <2>1, <2>2 DEF InOrder, Writing, Past, Ids
  <2>4. stdin' \in Seq(Nat) /\ serving' \in Nat /\ reply' \in [id : Nat, code : Codes]
    BY <1>0, <2>1 DEF TypeOK
  <2> QED
    BY <2>1, <2>2, <2>3, <2>4, QuietStep
<1>2. CASE ReadLine
  <2>1. UNCHANGED <<reply, faults>> /\ Quietly /\ engine = "reading" /\ engine' = "dispatch"
    BY <1>0, <1>2 DEF ReadLine
  <2>2. /\ stdin' \in Seq(Nat) /\ serving' \in Nat /\ serving' = stdin[1]
        /\ 1 \in DOMAIN stdin
        /\ \A q \in DOMAIN stdin' : q + 1 \in DOMAIN stdin /\ stdin'[q] = stdin[q + 1]
    BY <1>0, <1>2 DEF ReadLine, TypeOK
  <2>3. InOrder'
    <3>1. \A q \in DOMAIN stdin' :
            serving' < stdin'[q] /\ stdin'[q] <= Len(sent)
      BY <1>0, <2>2 DEF InOrder, TypeOK
    <3>2. \A p, q \in DOMAIN stdin' : p < q => stdin'[p] < stdin'[q]
      BY <1>0, <2>2 DEF InOrder, TypeOK
    <3>3. serving < serving' /\ serving' <= Len(sent)
      BY <1>0, <2>2 DEF InOrder
    <3>4. \A p \in DOMAIN log : log[p] < serving'
      BY <1>0, <2>2, <3>3 DEF InOrder, TypeOK
    <3> QED
      BY <1>0, <2>1, <2>2, <3>1, <3>2, <3>3, <3>4 DEF InOrder, TypeOK
  <2>4. \A i \in Ids : Past(i) => Past(i)'
    BY <1>0, <2>1, <2>2 DEF Past, Ids, InOrder, TypeOK
  <2> QED
    BY <1>0, <2>1, <2>2, <2>3, <2>4, QuietStep DEF Writing, Gone, TypeOK
<1>3. CASE Refuse \/ RefuseOversize \/ Scan \/ AppendBatchFails \/ Sync \/ SyncFails
  <2>1. /\ UNCHANGED <<stdin, serving>> /\ Quietly /\ faults' \in 0..MaxFaults
        /\ engine \in {"dispatch", "sync"} /\ engine' = "respond"
    BY <1>0, <1>3
       DEF Refuse, RefuseOversize, Scan, AppendBatchFails, Sync, SyncFails, Responds, Fault,
           Serves, AtFlush
  <2>2. reply' \in [id : Nat, code : Codes]
    BY <1>0, <1>3
       DEF Refuse, RefuseOversize, Scan, AppendBatchFails, Sync, SyncFails, Responds,
           Response, TypeOK
  <2>3. Writing'
    <3>1. CASE Refuse \/ Scan \/ AppendBatchFails
      BY <1>0, <2>1, <3>1
         DEF Refuse, Scan, AppendBatchFails, Responds, Response, Writing, Told, Serves,
             InOrder, TypeOK
    <3>2. CASE RefuseOversize
      BY <3>2 DEF RefuseOversize, Responds, Response, Writing
    <3>3. CASE Sync
      BY <1>0, <2>1, <3>3 DEF Sync, Responds, Response, Writing, Told, AtFlush, Serves, InOrder
    <3>4. CASE SyncFails
      BY <1>0, <2>1, <3>4
         DEF SyncFails, Responds, Response, Writing, Told, AtFlush, Serves, InOrder
    <3> QED
      BY <1>3, <3>1, <3>2, <3>3, <3>4
  <2>4. InOrder' /\ \A i \in Ids : Past(i) => Past(i)'
    BY <1>0, <2>1 DEF InOrder, Past, Ids
  <2> QED
    BY <1>0, <2>1, <2>2, <2>3, <2>4, QuietStep DEF Gone, TypeOK
<1> QED
  BY <1>1, <1>2, <1>3

\* The batch that is appended was spoken of by no response before.
LEMMA AppendBatchStep ==
  ASSUME IInv, AppendBatch
  PROVE  IInv'
<1>0. TypeOK /\ InOrder /\ Truthful
  BY DEF IInv
<1>1. /\ UNCHANGED <<client, stdin, serving, reply, stdout, faults>>
      /\ engine = "dispatch" /\ engine' = "sync" /\ sent[serving] = "append"
      /\ synced' = synced
  BY DEF AppendBatch, Serves
<1>2. /\ log' \in Seq(Nat) /\ Len(log') = Len(log) + 1 /\ log'[Len(log) + 1] = serving
      /\ \A p \in 1..Len(log) : log'[p] = log[p]
      /\ Len(log) \in Nat /\ synced \in 0..Len(log)
  BY <1>0, AppendProperties DEF AppendBatch, TypeOK
<1>3. TypeOK'
  BY <1>0, <1>1, <1>2 DEF TypeOK, client, Ids
<1>4. (PendingExact /\ LinesReassembled /\ Ended /\ Framed)'
  BY <1>1 DEF IInv, PendingExact, LinesReassembled, Ended, Framed, Framing, Stream, client,
              Ids, Gone, TypeOK
<1>5. InOrder'
  <2>1. \A p \in DOMAIN log' : log'[p] <= serving'
    <3> SUFFICES ASSUME NEW p \in 1..Len(log) + 1
                 PROVE  log'[p] <= serving
      BY <1>1, <1>2
    <3>1. serving \in Nat /\ \A q \in 1..Len(log) : log[q] <= serving
      BY <1>0 DEF InOrder, TypeOK
    <3> QED
      BY <1>2, <3>1
  <2> QED
    BY <1>0, <1>1, <1>2, <2>1 DEF InOrder, client
<1>6. ASSUME NEW i \in Ids, NEW code, Past(i), Told(i, code), code # "unwritable"
      PROVE  Past(i)' /\ Told(i, code)'
  <2>1. i < serving /\ i \in Nat /\ i # serving /\ serving \in Nat
    BY <1>0, <1>1, <1>6 DEF Past, TypeOK, Ids
  <2>2. Past(i)'
    BY <1>1, <1>6, <2>1 DEF Past, client, Ids
  <2>3. (\E p \in 1..synced : log[p] = i) => \E p \in 1..synced' : log'[p] = i
    BY <1>1, <1>2
  <2>4. (\A p \in DOMAIN log : log[p] < i => p <= synced)
          => \A p \in DOMAIN log' : log'[p] < i => p <= synced'
    BY <1>1, <1>2, <2>1
  <2>5. (\A p \in DOMAIN log : log[p] # i) => \A p \in DOMAIN log' : log'[p] # i
    BY <1>1, <1>2, <2>1
  <2>6. (\E p \in DOMAIN log : log[p] = i) => \E p \in DOMAIN log' : log'[p] = i
    BY <1>1, <1>2
  <2> QED
    BY <1>1, <1>6, <2>2, <2>3, <2>4, <2>5, <2>6 DEF Told, client
<1>7. Truthful'
  <2>1. Heard'
    <3> SUFFICES ASSUME NEW i \in Ids
                 PROVE  /\ (how[i] \in Codes => Past(i) /\ Told(i, how[i]))'
                        /\ (how[i] = "unwritable" => Gone /\ Told(i, how[i]))'
      BY <1>1 DEF Heard, Ids, client
    <3>1. how'[i] = how[i] /\ how[i] # "unwritable"
      BY <1>0, <1>1 DEF Truthful, Heard, Gone, client
    <3>2. how[i] \in Codes => Past(i)' /\ Told(i, how[i])'
      BY <1>0, <1>1, <1>6, <3>1 DEF Truthful, Heard, client
    <3> QED
      BY <3>1, <3>2 DEF Told
  <2>2. Underway'
    <3> SUFFICES ASSUME NEW n \in DOMAIN Stream, Stream[n].of.id # NoId
                 PROVE  (Past(Stream[n].of.id) /\ Told(Stream[n].of.id, Stream[n].of.code))'
      BY <1>1 DEF Underway, Stream, client
    <3> DEFINE i == Stream[n].of.id
               c == Stream[n].of.code
    <3>1. Past(i) /\ Told(i, c)
      BY <1>0 DEF Truthful, Underway
    <3>2. Stream' = Stream
      BY <1>1 DEF Stream, client
    <3>3. Stream \in Seq(Piece)
      BY <1>0 DEF TypeOK, Stream
    <3>4. c # "unwritable"
      BY <3>3, PieceFields DEF Codes
    <3> QED
      BY <1>6, <3>1, <3>2, <3>4 DEF Past, Told
  <2>3. Writing'
    BY <1>1 DEF Writing
  <2> QED
    BY <2>1, <2>2, <2>3 DEF Truthful
<1> QED
  BY <1>3, <1>4, <1>5, <1>7 DEF IInv

\* What the engine has to say of the request it serves is on its way from the
\* moment the text is written.
LEMMA RespondStep ==
  ASSUME IInv, RespondText \/ RespondNewline
  PROVE  IInv'
<1> DEFINE x == IF RespondText THEN Text(reply) ELSE Newline(reply)
<1>0. TypeOK /\ InOrder /\ Truthful /\ Framed
  BY DEF IInv
<1>1. /\ UNCHANGED <<client, stdin, serving, reply, log, synced, faults>>
      /\ stdout' = Append(stdout, x) /\ Len(stdout) < PipeCap
      /\ x \in Piece /\ x.of = reply /\ x.last \in BOOLEAN
      /\ \/ engine = "respond" /\ engine' = "newline" /\ x = Text(reply) /\ ~x.last
         \/ engine = "newline" /\ engine' = "reading" /\ x = Newline(reply) /\ x.last
  <2>1. reply = [id |-> reply.id, code |-> reply.code] /\ reply \in [id : Nat, code : Codes]
    BY <1>0 DEF TypeOK
  <2>2. Text(reply) \in Piece /\ Newline(reply) \in Piece
    BY <2>1 DEF Text, Newline, Piece
  <2>3. CASE RespondText
    <3>1. x = Text(reply)
      BY <2>3
    <3> HIDE DEF x
    <3> QED
      BY <2>2, <2>3, <3>1 DEF RespondText, Text
  <2>4. CASE RespondNewline /\ ~RespondText
    <3>1. x = Newline(reply)
      BY <2>4
    <3> HIDE DEF x
    <3> QED
      BY <2>2, <2>4, <3>1 DEF RespondNewline, Newline
  <2> QED
    BY <2>3, <2>4
<1> HIDE DEF x
<1>2. /\ Stream \in Seq(Piece) /\ Stream' = Append(Stream, x)
      /\ Len(Stream) \in Nat /\ Len(Stream') = Len(Stream) + 1
      /\ Stream'[Len(Stream) + 1] = x
      /\ \A n \in 1..Len(Stream) : Stream'[n] = Stream[n]
  <2>1. stdout \in Seq(Piece) /\ buffer \in Seq(Piece) /\ buffer' = buffer
    BY <1>0, <1>1 DEF TypeOK, client
  <2>2. buffer \o Append(stdout, x) = Append(buffer \o stdout, x)
    BY <1>1, <2>1
  <2>3. Stream \in Seq(Piece) /\ Stream' = Append(Stream, x)
    BY <1>1, <2>1, <2>2 DEF Stream
  <2> QED
    BY <1>1, <2>3, AppendProperties
<1>3. TypeOK'
  <2>1. stdout' \in Seq(Piece) /\ Len(stdout') = Len(stdout) + 1
    BY <1>0, <1>1, AppendProperties DEF TypeOK
  <2>2. Len(stdout') <= PipeCap
    BY <1>0, <1>1, <2>1, StdioAssumption DEF TypeOK
  <2> QED
    BY <1>0, <1>1, <2>1, <2>2 DEF TypeOK, client, Ids
<1>4. (PendingExact /\ LinesReassembled /\ Ended)'
  BY <1>1 DEF IInv, PendingExact, LinesReassembled, Ended, client, Ids, Gone
<1>5. InOrder'
  BY <1>0, <1>1 DEF InOrder, client
<1>6. Framed'
  <2>1. \/ ~x.last /\ (Stream = <<>> \/ Stream[Len(Stream)].last)
        \/ x.last /\ Stream # <<>> /\ Stream[Len(Stream)] = Text(x.of)
    BY <1>0, <1>1 DEF Framed
  <2>2. Framing(Append(Stream, x))
    BY <1>0, <1>1, <1>2, <2>1, FramingAppend DEF Framed
  <2>3. Framing(Stream')
    BY <1>2, <2>2
  <2>4. Stream'[Len(Stream')] = x /\ Stream' # <<>>
    BY <1>2
  <2> QED
    BY <1>1, <2>3, <2>4 DEF Framed, Framing
<1>7. \A i \in Ids : Past(i) => Past(i)'
  BY <1>1 DEF Past, client, Ids
<1>8. Truthful'
  <2>1. Heard' /\ Writing'
    BY <1>0, <1>1, <1>7 DEF Truthful, Heard, Writing, Told, client, Ids, Gone
  <2>2. Underway'
    <3> SUFFICES ASSUME NEW n \in DOMAIN Stream', Stream'[n].of.id # NoId
                 PROVE  (Past(Stream[n].of.id) /\ Told(Stream[n].of.id, Stream[n].of.code))'
      BY DEF Underway
    <3>1. CASE n \in 1..Len(Stream)
      <4>1. Past(Stream[n].of.id) /\ Told(Stream[n].of.id, Stream[n].of.code)
        BY <1>0, <1>2, <3>1 DEF Truthful, Underway
      <4>2. Stream'[n] = Stream[n]
        BY <1>2, <3>1
      <4> QED
        BY <1>1, <4>1, <4>2 DEF Past, Told, client, Ids
    <3>2. CASE n \notin 1..Len(Stream)
      <4>1. Stream'[n].of = reply
        BY <1>1, <1>2, <3>2
      <4>2. reply.id = serving /\ Told(serving, reply.code) /\ serving \in 1..Len(sent)
        BY <1>0, <1>1, <4>1 DEF Truthful, Writing, InOrder, TypeOK, NoId
      <4> QED
        BY <1>1, <4>1, <4>2 DEF Past, Told, client, Ids
    <3> QED
      BY <3>1, <3>2
  <2> QED
    BY <2>1, <2>2 DEF Truthful
<1> QED
  BY <1>3, <1>4, <1>5, <1>6, <1>8 DEF IInv

-----------------------------------------------------------------------------
(* What the client does.                                                   *)

\* A step of the client that settles some of what is open and takes nothing
\* from the pipes.
LEMMA SettleStep ==
  ASSUME IInv, UNCHANGED <<sent, buffer, stdin, server, stdout, faults>>,
         NEW ids \in SUBSET pending, NEW outcome \in Errors \cup {"timeout", "unwritable"},
         Settle(ids, outcome),
         outcome = "unwritable" => Gone /\ \A i \in ids : i \in Range(stdin),
         terminal' \in Errors \cup {"none"}, terminal' # "invalid",
         exitSeen' \in BOOLEAN, endSeen' \in BOOLEAN,
         closing' \in {"no", "waiting", "done"}, Ended'
  PROVE  IInv'
<1>0. TypeOK /\ InOrder /\ Truthful
  BY DEF IInv
<1>1. how' \in [Ids -> Codes \cup Errors \cup {"open", "timeout", "unwritable"}]
      /\ (\A i \in Ids : how'[i] = IF i \in ids THEN outcome ELSE how[i])
      /\ pending' = pending \ ids
  BY <1>0 DEF TypeOK, Settle
<1>2. outcome \notin Codes /\ outcome # "open"
  BY DEF Codes, Errors
<1>3. TypeOK'
  BY <1>0, <1>1 DEF TypeOK, Ids, server
<1>4. PendingExact' /\ LinesReassembled'
  BY <1>1, <1>2 DEF IInv, PendingExact, LinesReassembled, Ids
<1>5. Framed' /\ InOrder'
  BY DEF IInv, Framed, Framing, Stream, InOrder, server
<1>6. Heard'
  <2> SUFFICES ASSUME NEW i \in Ids
               PROVE  /\ (how[i] \in Codes => Past(i) /\ Told(i, how[i]))'
                      /\ (how[i] = "unwritable" => Gone /\ Told(i, how[i]))'
    BY DEF Heard, Ids
  <2>1. CASE i \notin ids
    BY <1>0, <1>1, <2>1 DEF Truthful, Heard, Past, Told, Gone, Ids, server
  <2>2. CASE i \in ids /\ outcome # "unwritable"
    BY <1>1, <1>2, <2>2
  <2>3. CASE i \in ids /\ outcome = "unwritable"
    <3>1. PICK q \in DOMAIN stdin : stdin[q] = i
      BY <2>3 DEF Range
    <3>2. serving < i
      BY <1>0, <3>1 DEF InOrder
    <3>3. \A p \in DOMAIN log : log[p] # i
      BY <1>0, <3>2 DEF InOrder, TypeOK, Ids
    <3> QED
      BY <1>1, <1>2, <2>3, <3>3 DEF Told, Gone, server
  <2> QED
    BY <2>1, <2>2, <2>3
<1>7. Underway' /\ Writing'
  BY <1>0 DEF Truthful, Underway, Writing, Stream, Past, Told, Ids, server
<1> QED
  BY <1>3, <1>4, <1>5, <1>6, <1>7 DEF IInv, Truthful

LEMMA SettleActions ==
  ASSUME IInv,
         \/ \E i \in Ids : Timeout(i) \/ WriteFails(i)
         \/ ExitEvent \/ EndEvent \/ ErrorEvent \/ Close \/ CloseEvent
  PROVE  IInv'
<1>0. TypeOK /\ Ended /\ LinesReassembled
  BY DEF IInv
<1>1. CASE \E i \in Ids : Timeout(i)
  <2>1. PICK i \in Ids : Timeout(i)
    BY <1>1
  <2>2. Ended'
    BY <1>0, <2>1 DEF Ended, Timeout, Settle, Gone, server
  <2> QED
    BY <1>0, <2>1, <2>2, SettleStep DEF Timeout, TypeOK, LinesReassembled
<1>2. CASE \E i \in Ids : WriteFails(i)
  <2>1. PICK i \in Ids : WriteFails(i)
    BY <1>2
  <2>2. Ended'
    BY <1>0, <2>1 DEF Ended, WriteFails, Settle, Gone, server
  <2> QED
    BY <1>0, <2>1, <2>2, SettleStep DEF WriteFails, TypeOK, LinesReassembled
<1>3. CASE ExitEvent \/ EndEvent \/ ErrorEvent
  <2>1. UNCHANGED <<sent, buffer, closing, stdin, server, stdout, faults>>
        /\ exitSeen' \in BOOLEAN /\ endSeen' \in BOOLEAN
    BY <1>0, <1>3 DEF ExitEvent, EndEvent, ErrorEvent, TypeOK
  <2>2. PICK error \in {"exited", "ended", "unavailable"} :
          \/ Terminate(error)
          \/ UNCHANGED <<terminal, how, pending>> /\ (terminal = "none" => pending = {})
    BY <1>3 DEF ExitEvent, EndEvent, ErrorEvent, TerminateIfWaiting
  <2>3. (exitSeen \/ endSeen => Gone)' /\ (closing = "done" => exitSeen)'
    BY <1>0, <1>3, <2>1 DEF ExitEvent, EndEvent, ErrorEvent, Ended, Gone, server
  <2>4. error \in Errors /\ error # "invalid" /\ error # "none"
    BY DEF Errors
  <2>5. CASE Terminate(error)
    <3>1. Ended'
      BY <2>3, <2>5 DEF Ended, Terminate, Settle
    <3> QED
      BY <1>0, <2>1, <2>4, <2>5, <3>1, SettleStep DEF Terminate, TypeOK
  <2>6. CASE UNCHANGED <<terminal, how, pending>> /\ (terminal = "none" => pending = {})
    <3>1. Ended'
      BY <1>0, <2>3, <2>6 DEF Ended
    <3>2. Settle({}, "timeout")
      BY <1>0, <2>6 DEF Settle, TypeOK
    <3> QED
      BY <1>0, <2>1, <2>6, <3>1, <3>2, SettleStep DEF TypeOK, LinesReassembled
  <2> QED
    BY <2>2, <2>5, <2>6
<1>4. CASE Close \/ CloseEvent
  <2>1. /\ UNCHANGED <<sent, how, pending, terminal, buffer, exitSeen, endSeen>>
        /\ UNCHANGED <<stdin, server, stdout, faults>>
        /\ closing' \in {"waiting", "done"} /\ (closing' = "done" => exitSeen)
    BY <1>4 DEF Close, CloseEvent
  <2>2. Ended'
    BY <1>0, <2>1 DEF Ended, Gone, server
  <2>3. Settle({}, "timeout")
    BY <1>0, <2>1 DEF Settle, TypeOK
  <2> QED
    BY <1>0, <2>1, <2>2, <2>3, SettleStep DEF TypeOK, LinesReassembled
<1> QED
  BY <1>1, <1>2, <1>3, <1>4

LEMMA RequestStep ==
  ASSUME IInv, NEW k \in Kinds, Request(k)
  PROVE  IInv'
<1> DEFINE new == Len(sent) + 1
<1>0. TypeOK /\ InOrder /\ Truthful /\ PendingExact
  BY DEF IInv
<1>1. /\ UNCHANGED <<terminal, buffer, exitSeen, endSeen, closing, server, stdout, faults>>
      /\ sent' = Append(sent, k) /\ how' = Append(how, "open") /\ Len(sent) < MaxRequests
      /\ Len(sent') = new /\ pending' = pending \cup {new} /\ stdin' = Append(stdin, new)
      /\ terminal = "none" /\ ~exitSeen /\ closing = "no"
  <2>1. Len(sent') = new
    BY <1>0, AppendProperties DEF Request, TypeOK
  <2> QED
    BY <2>1 DEF Request, MayRequest
<1>2. /\ sent' \in Seq(Kinds) /\ new \in Nat /\ new <= MaxRequests
      /\ sent'[new] = k /\ \A i \in Ids : sent'[i] = sent[i]
  BY <1>0, <1>1, AppendProperties, StdioAssumption DEF TypeOK, Ids
<1>3. /\ how' \in [Ids' -> Codes \cup Errors \cup {"open", "timeout", "unwritable"}]
      /\ how'[new] = "open" /\ \A i \in Ids : how'[i] = how[i]
  <2> DEFINE T == Codes \cup Errors \cup {"open", "timeout", "unwritable"}
  <2>0. how \in [1..Len(sent) -> T] /\ Len(sent) \in Nat /\ "open" \in T
    BY <1>0 DEF TypeOK, Ids
  <2> HIDE DEF T
  <2>1. how \in Seq(T) /\ Len(how) = Len(sent)
    BY <2>0, SeqDef, LenProperties
  <2>2. "open" \in T
    BY <2>0
  <2>3. /\ Append(how, "open") \in Seq(T) /\ Len(Append(how, "open")) = new
        /\ Append(how, "open")[new] = "open"
        /\ \A i \in 1..Len(sent) : Append(how, "open")[i] = how[i]
    BY <2>1, <2>2, AppendProperties
  <2>4. how' \in [1..new -> T]
    BY <1>1, <2>3, LenProperties
  <2> QED
    BY <1>1, <2>3, <2>4 DEF T, Ids
<1>4. /\ stdin' \in Seq(Nat) /\ Len(stdin) \in Nat /\ Len(stdin') = Len(stdin) + 1
      /\ stdin'[Len(stdin) + 1] = new
      /\ \A q \in 1..Len(stdin) : stdin'[q] = stdin[q] /\ stdin[q] \in Nat
  BY <1>0, <1>1, <1>2, AppendProperties DEF TypeOK
<1> HIDE DEF new
<1>5. /\ Ids' = Ids \cup {new} /\ new \notin Ids /\ NoId = 0
      /\ \A i \in Ids : i \in Nat /\ i # 0 /\ i < new
  BY <1>0, <1>1 DEF Ids, new, TypeOK, NoId
<1>6. TypeOK'
  BY <1>0, <1>1, <1>2, <1>3, <1>4, <1>5 DEF TypeOK, server
<1>7. (PendingExact /\ LinesReassembled /\ Ended /\ Framed)'
  <2>1. PendingExact'
    BY <1>0, <1>1, <1>3, <1>5 DEF PendingExact
  <2> QED
    BY <1>1, <2>1
       DEF IInv, LinesReassembled, Ended, Gone, Framed, Framing, Stream, server
<1>8. InOrder'
  <2>1. serving < new /\ serving \in Nat /\ Len(sent) < new /\ Len(sent) \in Nat
    BY <1>0, <1>1 DEF InOrder, TypeOK, new
  <2>2. \A q \in DOMAIN stdin' : serving < stdin'[q] /\ stdin'[q] <= new
    <3> SUFFICES ASSUME NEW q \in 1..Len(stdin) + 1
                 PROVE  serving < stdin'[q] /\ stdin'[q] <= new
      BY <1>4
    <3>1. CASE q \in 1..Len(stdin)
      BY <1>0, <1>4, <2>1, <3>1 DEF InOrder
    <3>2. CASE q \notin 1..Len(stdin)
      BY <1>2, <1>4, <2>1, <3>2
    <3> QED
      BY <3>1, <3>2
  <2>3. \A p, q \in DOMAIN stdin' : p < q => stdin'[p] < stdin'[q]
    <3> SUFFICES ASSUME NEW p \in 1..Len(stdin) + 1, NEW q \in 1..Len(stdin) + 1, p < q
                 PROVE  stdin'[p] < stdin'[q]
      BY <1>4
    <3>1. p \in 1..Len(stdin)
      BY <1>4
    <3>2. CASE q \in 1..Len(stdin)
      BY <1>0, <1>4, <3>1, <3>2 DEF InOrder
    <3>3. CASE q \notin 1..Len(stdin)
      <4>1. stdin'[q] = new /\ stdin'[p] = stdin[p] /\ stdin[p] \in Nat
        BY <1>4, <3>1, <3>3
      <4>2. stdin[p] <= Len(sent)
        BY <1>0, <3>1 DEF InOrder
      <4> QED
        BY <1>2, <2>1, <4>1, <4>2
    <3> QED
      BY <3>2, <3>3
  <2>4. engine' = "sync" => sent'[serving] = "append"
    BY <1>0, <1>1, <1>2, <2>1 DEF InOrder, Ids, NoId, server, TypeOK
  <2>5. /\ serving' = serving /\ log' = log /\ engine' = engine /\ Len(sent') = new
        /\ serving <= new
    BY <1>1, <1>2, <2>1 DEF server, new
  <2> QED
    BY <1>0, <2>2, <2>3, <2>4, <2>5 DEF InOrder
<1>9. \A i \in Ids : \A code : (Past(i) => Past(i)') /\ (Told(i, code) => Told(i, code)')
  BY <1>1, <1>2, <1>5 DEF Past, Told, server
<1>10. Heard'
  <2> SUFFICES ASSUME NEW i \in Ids'
               PROVE  /\ (how[i] \in Codes => Past(i) /\ Told(i, how[i]))'
                      /\ (how[i] = "unwritable" => Gone /\ Told(i, how[i]))'
    BY DEF Heard
  <2>1. CASE i = new
    BY <1>3, <2>1 DEF Codes
  <2>2. CASE i \in Ids
    <3>1. /\ how'[i] = how[i] /\ (Gone => Gone')
          /\ how[i] \in Codes => Past(i)' /\ Told(i, how[i])
          /\ how[i] = "unwritable" => Gone /\ Told(i, how[i])
      BY <1>0, <1>1, <1>3, <1>9, <2>2 DEF Truthful, Heard, Gone, server
    <3>2. sent'[i] = sent[i] /\ log' = log /\ synced' = synced
      BY <1>1, <1>2, <2>2 DEF server
    <3> QED
      BY <3>1, <3>2 DEF Told
  <2> QED
    BY <1>5, <2>1, <2>2
<1>11. Underway'
  <2> SUFFICES ASSUME NEW n \in DOMAIN Stream, Stream[n].of.id # NoId
               PROVE  (Past(Stream[n].of.id) /\ Told(Stream[n].of.id, Stream[n].of.code))'
    BY <1>1 DEF Underway, Stream
  <2>1. Past(Stream[n].of.id) /\ Told(Stream[n].of.id, Stream[n].of.code)
    BY <1>0 DEF Truthful, Underway
  <2>2. Stream' = Stream
    BY <1>1 DEF Stream
  <2> QED
    BY <1>1, <1>2, <1>5, <2>1, <2>2 DEF Past, Told, server
<1>12. Writing'
  <2> SUFFICES ASSUME engine \in {"respond", "newline"}, reply.id # NoId
               PROVE  (reply.id = serving /\ Told(serving, reply.code))'
    BY <1>1 DEF Writing, server
  <2>1. reply.id = serving /\ Told(serving, reply.code) /\ serving \in Ids
    BY <1>0 DEF Truthful, Writing, InOrder, NoId, Ids, TypeOK
  <2> QED
    BY <1>1, <1>2, <2>1 DEF Told, server
<1> QED
  BY <1>6, <1>7, <1>8, <1>10, <1>11, <1>12 DEF IInv, Truthful

\* What is left of a sequence behind its first k elements.
LEMMA Suffix ==
  ASSUME NEW t \in Seq(Piece), NEW k \in 0..Len(t)
  PROVE  /\ SubSeq(t, k + 1, Len(t)) \in Seq(Piece)
         /\ Len(SubSeq(t, k + 1, Len(t))) = Len(t) - k
         /\ \A i \in 1..Len(t) - k : SubSeq(t, k + 1, Len(t))[i] = t[k + i]
<1>1. Len(t) \in Nat /\ \A i \in (k + 1)..Len(t) : t[i] \in Piece
  OBVIOUS
<1>2. k + 1 \in Int /\ Len(t) \in Int
  BY <1>1
<1>3. /\ SubSeq(t, k + 1, Len(t)) \in Seq(Piece)
      /\ Len(SubSeq(t, k + 1, Len(t))) = IF k + 1 <= Len(t) THEN Len(t) - (k + 1) + 1 ELSE 0
      /\ \A i \in 1..Len(t) - (k + 1) + 1 : SubSeq(t, k + 1, Len(t))[i] = t[(k + 1) + i - 1]
  BY <1>1, <1>2, SubSeqProperties
<1> QED
  BY <1>1, <1>3

\* A stream w is read up to some place: what is read, s, has whole lines, and
\* what is left with the rest is w from behind the end of a line.
LEMMA Consumed ==
  ASSUME NEW w \in Seq(Piece), Framing(w),
         NEW s \in Seq(Piece), Len(s) <= Len(w), \A i \in 1..Len(s) : s[i] = w[i],
         NEW rest \in Seq(Piece), Len(rest) = Len(w) - Len(s),
         \A i \in 1..Len(rest) : rest[i] = w[Len(s) + i]
  PROVE  /\ Garbled(s) = {}
         /\ Unread(s) \in Seq(Piece)
         /\ Unread(s) \o rest \in Seq(Piece)
         /\ \E k \in 0..Len(w) :
              /\ k # 0 => w[k].last
              /\ Len(Unread(s) \o rest) = Len(w) - k
              /\ \A i \in 1..Len(Unread(s) \o rest) : (Unread(s) \o rest)[i] = w[k + i]
<1> DEFINE k == Max(Ends(s) \cup {0})
           u == Unread(s)
           v == u \o rest
<1>1. Len(w) \in Nat /\ Len(s) \in Nat
  OBVIOUS
<1>2. Framing(s) /\ Garbled(s) = {}
  BY NothingGarbled
<1>3. k \in 0..Len(s) /\ (k # 0 => s[k].last)
  BY <1>2, LastEnd
<1>4. u = SubSeq(s, k + 1, Len(s))
  BY <1>2 DEF Unread
<1> HIDE DEF k
<1>5. /\ u \in Seq(Piece) /\ Len(u) = Len(s) - k
      /\ \A i \in 1..Len(s) - k : u[i] = s[k + i]
  <2> HIDE DEF u
  <2> QED
    BY <1>3, <1>4, Suffix
<1> HIDE DEF u
<1>6. /\ v \in Seq(Piece) /\ Len(v) = Len(u) + Len(rest)
      /\ \A i \in 1..Len(u) + Len(rest) : v[i] = IF i <= Len(u) THEN u[i] ELSE rest[i - Len(u)]
  BY <1>5, ConcatProperties
<1> HIDE DEF v
<1>7. k \in 0..Len(w) /\ (k # 0 => w[k].last) /\ Len(v) = Len(w) - k
  BY <1>1, <1>3, <1>5, <1>6
<1>8. ASSUME NEW i \in 1..Len(v)
      PROVE  v[i] = w[k + i]
  <2>1. CASE i <= Len(u)
    <3>1. i \in 1..Len(s) - k /\ k + i \in 1..Len(s)
      BY <1>1, <1>3, <1>5, <1>7, <2>1
    <3> QED
      BY <1>5, <1>6, <1>8, <2>1, <3>1
  <2>2. CASE ~(i <= Len(u))
    <3> DEFINE j == i - Len(u)
    <3>1. j \in 1..Len(rest) /\ Len(s) + j = k + i
      BY <1>1, <1>3, <1>5, <1>6, <1>8, <2>2
    <3>2. v[i] = rest[j]
      BY <1>6, <1>8, <2>2
    <3> HIDE DEF j
    <3>3. rest[j] = w[Len(s) + j]
      BY <3>1
    <3> QED
      BY <3>1, <3>2, <3>3
  <2> QED
    BY <2>1, <2>2
<1> QED
  BY <1>2, <1>5, <1>6, <1>7, <1>8 DEF u, v

\* A chunk of o behind what b keeps is such a part of the stream.
LEMMA Chunk ==
  ASSUME NEW b \in Seq(Piece), NEW o \in Seq(Piece), NEW n \in 1..Len(o)
  PROVE  /\ b \o SubSeq(o, 1, n) \in Seq(Piece)
         /\ SubSeq(o, n + 1, Len(o)) \in Seq(Piece)
         /\ Len(SubSeq(o, n + 1, Len(o))) <= Len(o)
         /\ b \o o \in Seq(Piece)
         /\ Len(b \o SubSeq(o, 1, n)) <= Len(b \o o)
         /\ \A i \in 1..Len(b \o SubSeq(o, 1, n)) :
              (b \o SubSeq(o, 1, n))[i] = (b \o o)[i]
         /\ Len(SubSeq(o, n + 1, Len(o))) = Len(b \o o) - Len(b \o SubSeq(o, 1, n))
         /\ \A i \in 1..Len(SubSeq(o, n + 1, Len(o))) :
              SubSeq(o, n + 1, Len(o))[i] = (b \o o)[Len(b \o SubSeq(o, 1, n)) + i]
<1> DEFINE w == b \o o
           a == SubSeq(o, 1, n)
           s == b \o a
           rest == SubSeq(o, n + 1, Len(o))
<1>1. /\ w \in Seq(Piece) /\ Len(w) = Len(b) + Len(o)
      /\ Len(b) \in Nat /\ Len(o) \in Nat /\ n \in 1..Len(o)
      /\ \A i \in 1..Len(b) + Len(o) : w[i] = IF i <= Len(b) THEN b[i] ELSE o[i - Len(b)]
  BY ConcatProperties
<1>2. /\ a \in Seq(Piece) /\ Len(a) = n /\ \A i \in 1..n : a[i] = o[i]
  <2>1. \A i \in 1..n : o[i] \in Piece
    OBVIOUS
  <2> QED
    BY <2>1, SubSeqProperties
<1>3. /\ rest \in Seq(Piece) /\ Len(rest) = Len(o) - n
      /\ \A i \in 1..Len(o) - n : rest[i] = o[n + i]
  BY <1>1, Suffix
<1> HIDE DEF w, a, rest
<1>4. /\ s \in Seq(Piece) /\ Len(s) = Len(b) + n
      /\ \A i \in 1..Len(b) + n : s[i] = IF i <= Len(b) THEN b[i] ELSE a[i - Len(b)]
  <2>1. /\ s \in Seq(Piece) /\ Len(s) = Len(b) + Len(a)
        /\ \A i \in 1..Len(b) + Len(a) : s[i] = IF i <= Len(b) THEN b[i] ELSE a[i - Len(b)]
    BY <1>2, ConcatProperties
  <2> QED
    BY <1>2, <2>1
<1> HIDE DEF s
<1>5. ASSUME NEW i \in 1..Len(s)
      PROVE  s[i] = w[i]
  <2>1. CASE i <= Len(b)
    BY <1>1, <1>4, <1>5, <2>1
  <2>2. CASE ~(i <= Len(b))
    <3>1. i - Len(b) \in 1..n /\ i \in 1..Len(b) + Len(o)
      BY <1>1, <1>4, <1>5, <2>2
    <3> QED
      BY <1>1, <1>2, <1>4, <1>5, <2>2, <3>1
  <2> QED
    BY <2>1, <2>2
<1>6. ASSUME NEW i \in 1..Len(rest)
      PROVE  rest[i] = w[Len(s) + i]
  <2>1. /\ Len(s) + i \in 1..Len(b) + Len(o) /\ ~(Len(s) + i <= Len(b))
        /\ (Len(s) + i) - Len(b) = n + i /\ i \in 1..Len(o) - n
    BY <1>1, <1>3, <1>4, <1>6
  <2> QED
    BY <1>1, <1>3, <2>1
<1>7. Len(s) <= Len(w) /\ Len(rest) <= Len(o) /\ Len(rest) = Len(w) - Len(s)
  BY <1>1, <1>3, <1>4
<1> QED
  BY <1>1, <1>3, <1>4, <1>5, <1>6, <1>7 DEF w, a, s, rest

\* A promise that a chunk settles is settled by a response that was on its way
\* to it.
LEMMA DataStep ==
  ASSUME IInv, NEW n, Data(n)
  PROVE  IInv'
<1> DEFINE s == buffer \o SubSeq(stdout, 1, n)
           rest == SubSeq(stdout, n + 1, Len(stdout))
           outcome(i) == {s[m].of.code : m \in {x \in Ends(s) : i \in Answers(s[x].of)}}
           settled == {i \in pending : outcome(i) # {}}
<1>0. TypeOK /\ InOrder /\ Truthful /\ PendingExact /\ LinesReassembled /\ Framed /\ Ended
  BY DEF IInv
<1>1. /\ Consumes(s) /\ buffer' = Unread(s) /\ stdout' = rest /\ n \in 1..Len(stdout)
      /\ UNCHANGED <<sent, exitSeen, endSeen, closing, stdin, server, faults>>
  BY DEF Data
<1>2. /\ s \in Seq(Piece) /\ rest \in Seq(Piece) /\ Len(rest) <= Len(stdout)
      /\ Stream \in Seq(Piece) /\ Framing(Stream)
      /\ Len(s) <= Len(Stream) /\ \A i \in 1..Len(s) : s[i] = Stream[i]
      /\ Len(rest) = Len(Stream) - Len(s)
      /\ \A i \in 1..Len(rest) : rest[i] = Stream[Len(s) + i]
  <2>1. stdout \in Seq(Piece) /\ buffer \in Seq(Piece) /\ n \in 1..Len(stdout)
    BY <1>0, <1>1 DEF TypeOK
  <2> DEFINE w == buffer \o stdout
  <2>2. /\ s \in Seq(Piece) /\ rest \in Seq(Piece) /\ Len(rest) <= Len(stdout)
        /\ w \in Seq(Piece)
        /\ Len(s) <= Len(w) /\ \A i \in 1..Len(s) : s[i] = w[i]
        /\ Len(rest) = Len(w) - Len(s)
        /\ \A i \in 1..Len(rest) : rest[i] = w[Len(s) + i]
    BY <2>1, Chunk
  <2>3. Stream = w
    BY DEF Stream
  <2>4. Framing(Stream)
    BY <1>0 DEF Framed
  <2> HIDE DEF w
  <2> QED
    BY <2>2, <2>3, <2>4
<1> HIDE DEF s, rest
<1>3. /\ Garbled(s) = {} /\ buffer' \in Seq(Piece) /\ Stream' \in Seq(Piece)
      /\ \E k \in 0..Len(Stream) :
           /\ k # 0 => Stream[k].last
           /\ Len(Stream') = Len(Stream) - k
           /\ \A i \in 1..Len(Stream') : Stream'[i] = Stream[k + i]
  <2> DEFINE v == Unread(s) \o rest
  <2>1. /\ Garbled(s) = {} /\ Unread(s) \in Seq(Piece) /\ v \in Seq(Piece)
        /\ \E k \in 0..Len(Stream) :
             /\ k # 0 => Stream[k].last
             /\ Len(v) = Len(Stream) - k
             /\ \A i \in 1..Len(v) : v[i] = Stream[k + i]
    BY <1>2, Consumed
  <2>2. Stream' = v /\ buffer' = Unread(s)
    BY <1>1 DEF Stream
  <2> HIDE DEF v
  <2> QED
    BY <2>1, <2>2
<1>4. PICK k \in 0..Len(Stream) :
        /\ k # 0 => Stream[k].last
        /\ Len(Stream') = Len(Stream) - k
        /\ \A i \in 1..Len(Stream') : Stream'[i] = Stream[k + i]
  BY <1>3
<1>5. /\ how' = [i \in DOMAIN how |->
                   IF i \in settled THEN CHOOSE c \in outcome(i) : TRUE ELSE how[i]]
      /\ pending' = pending \ settled
      /\ terminal' = terminal
  BY <1>1, <1>3 DEF Consumes
<1>6. ASSUME NEW i \in settled
      PROVE  how'[i] \in Codes /\ Past(i) /\ Told(i, how'[i])
  <2>1. i \in Ids /\ i # NoId /\ how'[i] \in outcome(i)
    BY <1>0, <1>5 DEF TypeOK, Ids, NoId
  <2>2. PICK m \in Ends(s) : i \in Answers(s[m].of) /\ how'[i] = s[m].of.code
    BY <2>1
  <2>3. m \in 1..Len(s) /\ s[m].of.id = i
    BY <1>2, <2>2 DEF Ends, Answers
  <2>4. m \in DOMAIN Stream /\ s[m] = Stream[m] /\ Stream[m] \in Piece
    BY <1>2, <2>3
  <2> QED
    BY <1>0, <2>1, <2>2, <2>3, <2>4, PieceFields DEF Truthful, Underway
<1>7. /\ how' \in [Ids -> Codes \cup Errors \cup {"open", "timeout", "unwritable"}]
      /\ \A i \in Ids \ settled : how'[i] = how[i]
      /\ settled \subseteq pending /\ pending \subseteq Ids
  BY <1>0, <1>5, <1>6 DEF TypeOK
<1> HIDE DEF settled
<1>8. TypeOK'
  <2>1. Len(rest) <= PipeCap
    BY <1>0, <1>2, StdioAssumption DEF TypeOK
  <2> QED
    BY <1>0, <1>1, <1>2, <1>3, <1>5, <1>7, <2>1 DEF TypeOK, Ids, server
<1>9. PendingExact'
  <2>1. "open" \notin Codes
    BY DEF Codes
  <2> QED
    BY <1>0, <1>1, <1>5, <1>6, <1>7, <2>1 DEF PendingExact, Ids
<1>10. LinesReassembled' /\ InOrder' /\ Ended'
  BY <1>0, <1>1, <1>5 DEF LinesReassembled, InOrder, Ended, Gone, server
<1>11. Framed'
  <2>1. Framing(Stream')
    BY <1>2, <1>3, <1>4, FramingRest
  <2>2. Len(Stream) \in Nat /\ Len(Stream') \in Nat
    BY <1>2, <1>3
  <2>3. Stream' # <<>> => Stream # <<>> /\ Stream'[Len(Stream')] = Stream[Len(Stream)]
    <3> SUFFICES ASSUME Stream' # <<>>
                 PROVE  Stream # <<>> /\ Stream'[Len(Stream')] = Stream[Len(Stream)]
      OBVIOUS
    <3>1. Len(Stream') \in 1..Len(Stream') /\ k + Len(Stream') = Len(Stream) /\ Len(Stream) # 0
      <4>1. Len(Stream') # 0
        BY <1>3
      <4>2. Len(Stream') = Len(Stream) - k /\ k \in Nat
        BY <1>4
      <4> QED
        BY <2>2, <4>1, <4>2
    <3> QED
      BY <1>2, <1>4, <3>1
  <2>4. engine = "newline" => Stream' # <<>>
    <3> SUFFICES ASSUME engine = "newline"
                 PROVE  Len(Stream') # 0
      BY <1>3
    <3>1. ~Stream[Len(Stream)].last /\ Len(Stream) # 0
      BY <1>0, <1>2 DEF Framed, Text
    <3> QED
      BY <1>4, <2>2, <3>1
  <2>5. engine' = engine /\ reply' = reply
    BY <1>1 DEF server
  <2> QED
    BY <1>0, <2>1, <2>3, <2>4, <2>5 DEF Framed, Framing
<1>12. Heard'
  <2> SUFFICES ASSUME NEW i \in Ids
               PROVE  /\ (how[i] \in Codes => Past(i) /\ Told(i, how[i]))'
                      /\ (how[i] = "unwritable" => Gone /\ Told(i, how[i]))'
    BY <1>1 DEF Heard, Ids
  <2>1. /\ how'[i] \in Codes => Past(i) /\ Told(i, how'[i])
        /\ how'[i] = "unwritable" => Gone /\ Told(i, how'[i])
    <3>1. "unwritable" \notin Codes
      BY DEF Codes
    <3> QED
      BY <1>0, <1>6, <1>7, <3>1 DEF Truthful, Heard
  <2> QED
    BY <1>1, <2>1 DEF Past, Told, Gone, Ids, server
<1>13. Underway'
  <2> SUFFICES ASSUME NEW m \in DOMAIN Stream', Stream'[m].of.id # NoId
               PROVE  (Past(Stream[m].of.id) /\ Told(Stream[m].of.id, Stream[m].of.code))'
    BY DEF Underway
  <2>1. k + m \in DOMAIN Stream /\ Stream'[m] = Stream[k + m]
    BY <1>2, <1>3, <1>4
  <2>2. Past(Stream[k + m].of.id) /\ Told(Stream[k + m].of.id, Stream[k + m].of.code)
    BY <1>0, <2>1 DEF Truthful, Underway
  <2> QED
    BY <1>1, <2>1, <2>2 DEF Past, Told, Ids, server
<1>14. Writing'
  BY <1>0, <1>1 DEF Truthful, Writing, Told, server
<1> QED
  BY <1>8, <1>9, <1>10, <1>11, <1>12, <1>13, <1>14 DEF IInv, Truthful

-----------------------------------------------------------------------------
(* The theorems.                                                           *)

LEMMA InitInv == Init => IInv
<1> SUFFICES ASSUME Init
             PROVE  IInv
  OBVIOUS
<1>1. TypeOK
  <2>1. /\ sent \in Seq(Kinds) /\ stdin \in Seq(Nat) /\ log \in Seq(Nat)
        /\ stdout \in Seq(Piece) /\ buffer \in Seq(Piece)
        /\ Len(sent) = 0 /\ Len(stdout) = 0 /\ Len(log) = 0 /\ Ids = {}
    BY EmptySeq DEF Init, Ids
  <2>2. how \in [Ids -> Codes \cup Errors \cup {"open", "timeout", "unwritable"}]
    <3> DEFINE T == Codes \cup Errors \cup {"open", "timeout", "unwritable"}
    <3> HIDE DEF T
    <3>1. <<>> \in Seq(T) /\ Len(<<>>) = 0
      OBVIOUS
    <3>2. <<>> \in [1..0 -> T]
      BY <3>1, LenProperties
    <3>3. 1..0 = {}
      OBVIOUS
    <3> QED
      BY <2>1, <3>2, <3>3 DEF Init, T
  <2>3. reply \in [id : Nat, code : Codes]
    BY DEF Init, Response, NoId, Codes
  <2> QED
    <3>1. /\ MaxRequests \in Nat /\ PipeCap \in Nat /\ MaxFaults \in Nat
          /\ 0 <= MaxRequests /\ 0 <= PipeCap /\ 0 \in 0..MaxFaults /\ 0 \in 0..0
      BY StdioAssumption
    <3>2. /\ pending \subseteq Ids /\ terminal \in Errors \cup {"none"} /\ serving \in Nat
          /\ synced \in 0..Len(log) /\ faults \in 0..MaxFaults
      BY <2>1, <3>1 DEF Init, NoId
    <3>3. /\ exitSeen \in BOOLEAN /\ endSeen \in BOOLEAN /\ closing = "no"
          /\ engine = "starting"
      BY DEF Init
    <3> QED
      BY <2>1, <2>2, <2>3, <3>1, <3>2, <3>3 DEF TypeOK
<1>2. Stream = <<>> /\ Len(Stream) = 0
  BY DEF Init, Stream
<1>3. Framed
  BY <1>2 DEF Init, Framed, Framing
<1>4. Truthful
  BY <1>2 DEF Init, Truthful, Heard, Underway, Writing, Ids
<1> QED
  BY <1>1, <1>3, <1>4
     DEF Init, IInv, PendingExact, LinesReassembled, InOrder, Ended, Ids, NoId

LEMMA StepInv == IInv /\ [Next]_vars => IInv'
<1> SUFFICES ASSUME IInv, [Next]_vars
             PROVE  IInv'
  OBVIOUS
<1>1. ASSUME NEW k \in Kinds, Request(k)
      PROVE  IInv'
  BY <1>1, RequestStep
<1>2. CASE \E i \in Ids : Timeout(i) \/ WriteFails(i)
  BY <1>2, SettleActions
<1>3. ASSUME NEW n \in 1..PipeCap, Data(n)
      PROVE  IInv'
  BY <1>3, DataStep
<1>4. CASE ExitEvent \/ EndEvent \/ ErrorEvent \/ Close \/ CloseEvent
  BY <1>4, SettleActions
<1>5. CASE Engine
  BY <1>5, QuietActions, AppendBatchStep, RespondStep DEF Engine
<1>6. CASE StartRefused \/ SpawnFails \/ Kill
  BY <1>6, QuietActions
<1>7. CASE UNCHANGED vars
  <2>1. TypeOK /\ LinesReassembled /\ Ended'
    BY <1>7 DEF IInv, Ended, Gone, vars, client, server
  <2>2. Settle({}, "timeout")
    BY <1>7, <2>1 DEF Settle, TypeOK, vars, client
  <2> QED
    BY <1>7, <2>1, <2>2, SettleStep DEF TypeOK, LinesReassembled, vars, client
<1> QED
  BY <1>1, <1>2, <1>3, <1>4, <1>5, <1>6, <1>7 DEF Next

\* The inductive invariant, for every size of the pipe and every number of
\* requests and failures: the client's map, its buffer, the responses on their
\* way and the engine's store always fit together.
THEOREM Invariance == Spec => []IInv
<1>1. Init => IInv
  BY InitInv
<1>2. IInv /\ [Next]_vars => IInv'
  BY StepInv
<1> QED
  BY <1>1, <1>2, PTL DEF Spec

\* However the pipe cuts the responses, NdjsonEngine never takes anything but a
\* whole line for one.
THEOREM Reassembled == Spec => []LinesReassembled
<1>1. IInv => LinesReassembled
  BY DEF IInv
<1> QED
  BY <1>1, Invariance, PTL

\* A caller of request who was told ok has a batch that is durable, a flush
\* that covered what was appended before it, and its own answer.
THEOREM Acknowledged == Spec => []AckedDurable
<1>1. IInv => AckedDurable
  <2> SUFFICES ASSUME IInv
               PROVE  AckedDurable
    OBVIOUS
  <2>1. \A i \in Ids : how[i] = "ok" => Told(i, how[i])
    BY DEF IInv, Truthful, Heard, Codes
  <2> QED
    BY <2>1 DEF AckedDurable, Told
<1> QED
  BY <1>1, Invariance, PTL

\* The errors of appendBatch are true: after a retryable or a final one and
\* after a failed write nothing of the batch is in the store, after
\* durability_unknown all of it.
THEOREM Truth == Spec => []ErrorsTellTheTruth
<1>1. IInv => ErrorsTellTheTruth
  <2> SUFFICES ASSUME IInv, NEW i \in Ids, sent[i] = "append"
               PROVE  /\ how[i] \in {"retryable", "final", "unwritable"} => i \notin Range(log)
                      /\ how[i] = "unknown" => i \in Range(log)
    BY DEF ErrorsTellTheTruth
  <2>1. how[i] \in {"retryable", "final", "unwritable", "unknown"} => Told(i, how[i])
    BY DEF IInv, Truthful, Heard, Codes
  <2> QED
    BY <2>1 DEF Told, Range
<1> QED
  BY <1>1, Invariance, PTL

\* When close() has returned, the engine is gone and nothing is open.
THEOREM Closed == Spec => []ClosedMeansSettled
<1>1. IInv => ClosedMeansSettled
  BY DEF IInv, Ended, ClosedMeansSettled
<1> QED
  BY <1>1, Invariance, PTL

\* No late answer, timer, failed write or event of the child settles a promise
\* for a second time.
THEOREM Once == Spec => SettlesOnce
<1> DEFINE Keeps == \A i \in Ids : how[i] # "open" => how'[i] = how[i]
<1>1. IInv /\ [Next]_vars => [Keeps]_vars
  <2> SUFFICES ASSUME IInv, Next, NEW i \in Ids, how[i] # "open"
               PROVE  how'[i] = how[i]
    BY DEF vars
  <2>1. TypeOK /\ i \notin pending /\ i \in DOMAIN how /\ pending \subseteq Ids
    BY DEF IInv, PendingExact, TypeOK
  <2>2. ASSUME NEW ids \in SUBSET pending, NEW outcome, Settle(ids, outcome)
        PROVE  how'[i] = how[i]
    BY <2>1, <2>2 DEF Settle
  <2>3. ASSUME NEW k \in Kinds, Request(k)
        PROVE  how'[i] = how[i]
    <3> DEFINE T == Codes \cup Errors \cup {"open", "timeout", "unwritable"}
    <3>1. how \in [1..Len(sent) -> T] /\ Len(sent) \in Nat /\ "open" \in T
      BY <2>1 DEF TypeOK, Ids
    <3> HIDE DEF T
    <3>2. how \in Seq(T) /\ Len(how) = Len(sent)
      BY <3>1, SeqDef, LenProperties
    <3>3. Append(how, "open")[i] = how[i]
      BY <3>1, <3>2, AppendProperties DEF Ids
    <3> QED
      BY <2>3, <3>3 DEF Request
  <2>4. ASSUME NEW j \in Ids, Timeout(j) \/ WriteFails(j)
        PROVE  how'[i] = how[i]
    BY <2>2, <2>4 DEF Timeout, WriteFails
  <2>5. ASSUME NEW n, Data(n)
        PROVE  how'[i] = how[i]
    BY <2>1, <2>5 DEF Data, Consumes
  <2>6. CASE ExitEvent \/ EndEvent \/ ErrorEvent
    BY <2>2, <2>6 DEF ExitEvent, EndEvent, ErrorEvent, TerminateIfWaiting, Terminate
  <2>7. CASE Close \/ CloseEvent
    BY <2>7 DEF Close, CloseEvent
  <2>8. CASE Engine \/ StartRefused \/ SpawnFails \/ Kill
    BY <2>8 DEF Engine, StartRefused, SpawnFails, Kill, Start, ReadLine, EngineExits, Refuse,
                RefuseOversize, Scan, AppendBatch, AppendBatchFails, Sync, SyncFails,
                RespondText, RespondNewline, Responds, client
  <2> QED
    BY <2>3, <2>4, <2>5, <2>6, <2>7, <2>8 DEF Next
<1>2. [][Keeps]_vars => SettlesOnce
  BY PTL DEF SettlesOnce
<1> QED
  BY <1>1, <1>2, Invariance, PTL DEF Spec
=============================================================================
