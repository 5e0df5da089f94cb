------------------------------ MODULE UslStore ------------------------------
(***************************************************************************)
(* The embedded store of crates/usl-core: one writer, one append-only file *)
(* of CRC-framed records, an in-memory index derived from it, and a        *)
(* recovery scan that rebuilds everything from the bytes on disk.          *)
(*                                                                         *)
(* The file is a sequence of cells.  Cell 0 stands for the 64 byte header, *)
(* offsets count cells from 0 (the cell at offset o is file[o + 1]) and    *)
(* DataStart is DATA_START.  A frame of record r with sequence number n    *)
(* occupies FrameSize[r] cells, the i-th of which is [seq |-> n,           *)
(* rec |-> r, part |-> i]: a frame passes its length and CRC checks        *)
(* exactly when all its cells are in place, in order.                      *)
(*                                                                         *)
(* Every step of append_batch, flush and open that can fail or be cut by a *)
(* crash is an action of its own.  Faults names the I/O failures the       *)
(* environment may inject; a crash is either a kill (the page cache        *)
(* survives) or a power loss (only what was synced surely survives, and a  *)
(* cut of the file that was not synced may not have happened).             *)
(***************************************************************************)
EXTENDS Integers, Sequences, FiniteSets

CONSTANTS
  Records,      \* record contents (session, kind, timestamp and body together)
  NoRec,        \* the content of a cell that belongs to no frame
  SessionOf,    \* SessionOf[r]: the session_id of record r
  FrameSize,    \* FrameSize[r]: cells taken by r's frame, length and CRC included
  MaxBatch,     \* bound: records in one append_batch call
  MaxRecords,   \* bound: sequence numbers assigned
  MaxFaults,    \* bound: crashes and injected failures in a behaviour
  Faults        \* the injected failures, a subset of AllFaults

AllFaults == {"write", "undo", "header", "plain", "power", "mixed"}

\* The failures the store recovers from: an append_batch write that fails and
\* is rolled back, and power loss.
HandledFaults == {"write", "power"}

ASSUME RecordsAssumption ==
  /\ NoRec \notin Records
  /\ FrameSize \in [Records -> Nat \ {0}]
  /\ DOMAIN SessionOf = Records

ASSUME BoundsAssumption ==
  /\ MaxBatch \in Nat
  /\ MaxRecords \in Nat
  /\ MaxFaults \in Nat

ASSUME FaultsAssumption == Faults \subseteq AllFaults

VARIABLES
  pc,            \* what the process is executing
  file,          \* the file as the page cache has it
  synced,        \* its first synced cells are on the platter
  pos,           \* the file cursor
  dataEnd,       \* Store.data_end
  nextSeq,       \* Store.next_seq
  sessionCount,  \* Store.session_count
  index,         \* Store.index
  truncation,    \* Recovered.truncation_offset.is_some() of the last open
  todo,          \* the records append_batch has still to write
  saved,         \* append_batch's restore point [end, seq]
  acked,         \* history: frames the callers were told are in the log
  stable,        \* history: acked frames covered by a completed sync_data
  seen,          \* history: the frames of the log the last crash left behind
  undone,        \* the file before each cut that is not yet synced
  cutLogs,       \* history: the frames found by each cut since the last sync_data
  faults         \* crashes and failures so far

mem == <<dataEnd, nextSeq, sessionCount, index, truncation>>
call == <<todo, saved>>
history == <<acked, stable, seen, undone, cutLogs>>
vars == <<pc, file, synced, pos, mem, call, history, faults>>

DataStart == 1
Blank == [seq |-> 0, rec |-> NoRec, part |-> 0]
HeaderCell == [seq |-> 0, rec |-> NoRec, part |-> 1]
Cells == [seq : Nat, rec : Records, part : Nat \ {0}] \cup {Blank, HeaderCell}
Metas == [seq : Nat, rec : Records, offset : Nat]

Smaller(a, b) == IF a < b THEN a ELSE b
Larger(a, b) == IF a > b THEN a ELSE b
EndOf(m) == m.offset + FrameSize[m.rec]

\* File::write_all of cells c[1..n] at the cursor; a hole reads as zeros.
Written(f, at, c, n) ==
  [i \in 1..Larger(Len(f), at + n) |->
     IF i > at /\ i <= at + n THEN c[i - at]
     ELSE IF i <= Len(f) THEN f[i] ELSE Blank]

\* File::set_len.
Resized(f, n) == [i \in 1..n |-> IF i <= Len(f) THEN f[i] ELSE Blank]

\* What a power loss leaves of f: n cells, those in lost unwritten.
Surviving(f, n, lost) == [i \in 1..n |-> IF i \in lost THEN Blank ELSE f[i]]

\* The same when each cell i behind the synced ones is that of version from[i].
Mixed(v, from, n, lost) ==
  [i \in 1..n |->
     IF i <= synced THEN v.file[i]
     ELSE IF i \in lost \/ i > Len(from[i].file) THEN Blank
     ELSE from[i].file[i]]

Frame(n, r) == [i \in 1..FrameSize[r] |-> [seq |-> n, rec |-> r, part |-> i]]

\* The bytes of f at m.offset are m's frame, complete and with its CRC.
Intact(f, m) ==
  /\ EndOf(m) <= Len(f)
  /\ \A i \in 1..FrameSize[m.rec] :
        f[m.offset + i] = [seq |-> m.seq, rec |-> m.rec, part |-> i]

\* The frame whose first cell is at offset o, when its cell is a first cell.
MetaAt(f, o) == [seq |-> f[o + 1].seq, rec |-> f[o + 1].rec, offset |-> o]

\* recover_from: the length, CRC and payload checks at offset o all pass.
FrameAt(f, o) ==
  /\ o < Len(f)
  /\ f[o + 1].rec \in Records
  /\ f[o + 1].part = 1
  /\ Intact(f, MetaAt(f, o))

\* read_frame_at: the record read through m, NoRec when the bytes there are
\* no complete frame of m's length.
ReadAt(f, m) ==
  IF /\ FrameAt(f, m.offset)
     /\ FrameSize[MetaAt(f, m.offset).rec] = FrameSize[m.rec]
  THEN f[m.offset + 1].rec ELSE NoRec

SessionsIn(idx) == {SessionOf[m.rec] : m \in idx}

\* Mutant: the bound is inclusive.
TruncatedFrom_Inclusive(idx, n) == {m \in idx : m.seq <= n}

\* Index::truncate_from_seq.
TruncatedFrom(idx, n) == {m \in idx : m.seq < n}

\* The frames that a crash now could leave in the log: those of the open
\* store, or those of the process that died.
Whole == IF pc \in {"down", "scan"} THEN seen ELSE index

\* set_len cuts the file.  Nothing syncs it: until the next sync_data the
\* platter may hold the file with its tail, and so the frames now in the log.
Cut ==
  /\ undone' = undone \cup {[file |-> file, frames |-> index, todo |-> <<>>]}
  /\ cutLogs' = cutLogs \cup {index}

\* The file and those it was cut from since the last sync, each with the log
\* it holds and the records that were still to follow.
Versions == {[file |-> file, frames |-> Whole, todo |-> todo]} \cup undone

\* Something fails: one more of the failures the bound allows.
Failure == faults < MaxFaults /\ faults' = faults + 1

-----------------------------------------------------------------------------
(***************************************************************************)
(* Opening.  The process starts with no store open; the file is as         *)
(* Store::create left it, or empty when create died before its header.     *)
(***************************************************************************)
Init ==
  /\ pc = "down"
  /\ file \in {<<>>, <<HeaderCell>>}
  /\ synced = Len(file)
  /\ pos = 0
  /\ dataEnd = DataStart
  /\ nextSeq = 0
  /\ sessionCount = 0
  /\ index = {}
  /\ truncation = FALSE
  /\ todo = <<>>
  /\ saved = [end |-> DataStart, seq |-> 0]
  /\ acked = {}
  /\ stable = {}
  /\ seen = {}
  /\ undone = {}
  /\ cutLogs = {}
  /\ faults = 0

\* Store::open up to the first iteration of recover_from's loop.
Open ==
  /\ pc = "down"
  /\ pc' = "scan"
  /\ pos' = DataStart
  /\ dataEnd' = DataStart
  /\ nextSeq' = 0
  /\ sessionCount' = 0
  /\ index' = {}
  /\ truncation' = FALSE
  /\ UNCHANGED <<file, synced, call, history, faults>>

\* Mutant: next_seq becomes the last sequence number, not the one after it.
ScanFrame_SeqOffByOne ==
  /\ pc = "scan"
  /\ FrameAt(file, dataEnd)
  /\ LET m == MetaAt(file, dataEnd) IN
       /\ index' = index \cup {m}
       /\ nextSeq' = Larger(m.seq, nextSeq)
       /\ dataEnd' = EndOf(m)
       /\ pos' = EndOf(m)
  /\ UNCHANGED <<pc, file, synced, sessionCount, truncation, call, history, faults>>

\* Mutant: the scan does not move past the frame it read.
ScanFrame_Stays ==
  /\ pc = "scan"
  /\ FrameAt(file, dataEnd)
  /\ index' = index \cup {MetaAt(file, dataEnd)}
  /\ UNCHANGED <<pc, file, synced, pos, dataEnd, nextSeq, sessionCount, truncation>>
  /\ UNCHANGED <<call, history, faults>>

\* One iteration of recover_from that finds a complete frame.
ScanFrame ==
  /\ pc = "scan"
  /\ FrameAt(file, dataEnd)
  /\ LET m == MetaAt(file, dataEnd) IN
       /\ index' = index \cup {m}
       /\ nextSeq' = IF m.seq >= nextSeq THEN m.seq + 1 ELSE nextSeq
       /\ dataEnd' = EndOf(m)
       /\ pos' = EndOf(m)
  /\ UNCHANGED <<pc, file, synced, sessionCount, truncation, call, history, faults>>

\* Mutant: the torn tail stays in the file.
ScanEnd_KeepsTail ==
  /\ pc = "scan"
  /\ ~FrameAt(file, dataEnd)
  /\ pc' = "ready"
  /\ truncation' = (dataEnd < Len(file))
  /\ pos' = dataEnd
  /\ sessionCount' = Cardinality(SessionsIn(index))
  /\ acked' = index
  /\ seen' = {}
  /\ todo' = <<>>
  /\ UNCHANGED <<file, synced, dataEnd, nextSeq, index, saved>>
  /\ UNCHANGED <<stable, undone, cutLogs, faults>>

\* Mutant: the cursor stays where the last read left it.
ScanEnd_NoSeek ==
  /\ pc = "scan"
  /\ ~FrameAt(file, dataEnd)
  /\ pc' = "ready"
  /\ truncation' = (dataEnd < Len(file))
  /\ file' = IF truncation' THEN Resized(file, dataEnd) ELSE file
  /\ synced' = Smaller(synced, Len(file'))
  /\ IF truncation' THEN Cut ELSE UNCHANGED <<undone, cutLogs>>
  /\ pos' = Larger(pos, Len(file))
  /\ sessionCount' = Cardinality(SessionsIn(index))
  /\ acked' = index
  /\ seen' = {}
  /\ todo' = <<>>
  /\ UNCHANGED <<dataEnd, nextSeq, index, saved, stable, faults>>

\* The scan stops at the end of the file or at a torn frame, which is cut
\* off; the rest of Store::open.
ScanEnd ==
  /\ pc = "scan"
  /\ ~FrameAt(file, dataEnd)
  /\ pc' = "ready"
  /\ truncation' = (dataEnd < Len(file))
  /\ file' = IF truncation' THEN Resized(file, dataEnd) ELSE file
  /\ synced' = Smaller(synced, Len(file'))
  /\ IF truncation' THEN Cut ELSE UNCHANGED <<undone, cutLogs>>
  /\ pos' = dataEnd
  /\ sessionCount' = Cardinality(SessionsIn(index))
  /\ acked' = index
  /\ seen' = {}
  /\ todo' = <<>>
  /\ UNCHANGED <<dataEnd, nextSeq, index, saved, stable, faults>>

-----------------------------------------------------------------------------
(***************************************************************************)
(* Appending.  Push is the effect of a successful append of r: the frame   *)
(* goes where the cursor is, the bookkeeping where data_end is.            *)
(***************************************************************************)
Push(r) ==
  /\ file' = Written(file, pos, Frame(nextSeq, r), FrameSize[r])
  /\ pos' = pos + FrameSize[r]
  /\ dataEnd' = dataEnd + FrameSize[r]
  /\ nextSeq' = nextSeq + 1
  /\ index' = index \cup {[seq |-> nextSeq, rec |-> r, offset |-> dataEnd]}
  /\ sessionCount' = IF SessionOf[r] \in SessionsIn(index)
                     THEN sessionCount ELSE sessionCount + 1
  /\ UNCHANGED <<synced, truncation>>

\* write_all of r's frame fails after n cells (n = 0: encode_frame refused it).
TornWrite(r, n) ==
  /\ n < FrameSize[r]
  /\ file' = Written(file, pos, Frame(nextSeq, r), n)
  /\ pos' = pos + n
  /\ UNCHANGED <<synced, mem>>

Batches == UNION {[1..n -> Records] : n \in 1..MaxBatch}

\* append_batch is called with records b.
BeginBatch(b) ==
  /\ pc = "ready"
  /\ nextSeq + Len(b) <= MaxRecords
  /\ pc' = "batch"
  /\ todo' = b
  /\ saved' = [end |-> dataEnd, seq |-> nextSeq]
  /\ UNCHANGED <<file, synced, pos, mem, history, faults>>

\* One iteration of append_batch's loop: append returns Ok.
BatchWrite ==
  /\ pc = "batch"
  /\ todo # <<>>
  /\ Push(Head(todo))
  /\ todo' = Tail(todo)
  /\ UNCHANGED <<pc, saved, history, faults>>

\* append returns Err inside the loop.
BatchWriteFails ==
  /\ pc = "batch"
  /\ todo # <<>>
  /\ "write" \in Faults
  /\ Failure
  /\ \E n \in 0..FrameSize[Head(todo)] : TornWrite(Head(todo), n)
  /\ pc' = "undo"
  /\ UNCHANGED <<call, history>>

\* Mutant: the file is not cut back.
Undo_NoSetLen ==
  /\ pc = "undo"
  /\ pos' = saved.end
  /\ dataEnd' = saved.end
  /\ nextSeq' = saved.seq
  /\ index' = TruncatedFrom(index, saved.seq)
  /\ sessionCount' = Cardinality(SessionsIn(index'))
  /\ todo' = <<>>
  /\ pc' = "ready"
  /\ UNCHANGED <<file, synced, truncation, saved, history, faults>>

\* Mutant: the cursor stays behind the torn frame.
Undo_NoSeek ==
  /\ pc = "undo"
  /\ file' = Resized(file, saved.end)
  /\ synced' = Smaller(synced, saved.end)
  /\ Cut
  /\ dataEnd' = saved.end
  /\ nextSeq' = saved.seq
  /\ index' = TruncatedFrom(index, saved.seq)
  /\ sessionCount' = Cardinality(SessionsIn(index'))
  /\ todo' = <<>>
  /\ pc' = "ready"
  /\ UNCHANGED <<pos, truncation, saved, acked, stable, seen, faults>>

\* Mutant: session_count is not recomputed.
Undo_CountKept ==
  /\ pc = "undo"
  /\ file' = Resized(file, saved.end)
  /\ synced' = Smaller(synced, saved.end)
  /\ Cut
  /\ pos' = saved.end
  /\ dataEnd' = saved.end
  /\ nextSeq' = saved.seq
  /\ index' = TruncatedFrom(index, saved.seq)
  /\ todo' = <<>>
  /\ pc' = "ready"
  /\ UNCHANGED <<sessionCount, truncation, saved, acked, stable, seen, faults>>

\* The restore path of append_batch.
Undo ==
  /\ pc = "undo"
  /\ file' = Resized(file, saved.end)
  /\ synced' = Smaller(synced, saved.end)
  /\ Cut
  /\ pos' = saved.end
  /\ dataEnd' = saved.end
  /\ nextSeq' = saved.seq
  /\ index' = TruncatedFrom(index, saved.seq)
  /\ sessionCount' = Cardinality(SessionsIn(index'))
  /\ todo' = <<>>
  /\ pc' = "ready"
  /\ UNCHANGED <<truncation, saved, acked, stable, seen, faults>>

\* set_len fails in the restore path: its error is returned at once.
UndoFails ==
  /\ pc = "undo"
  /\ "undo" \in Faults
  /\ Failure
  /\ todo' = <<>>
  /\ pc' = "ready"
  /\ UNCHANGED <<file, synced, pos, mem, saved, history>>

\* append_batch returns Ok(seqs).
BatchDone ==
  /\ pc = "batch"
  /\ todo = <<>>
  /\ pc' = "ready"
  /\ acked' = acked \cup {m \in index : m.seq >= saved.seq}
  /\ UNCHANGED <<file, synced, pos, mem, call>>
  /\ UNCHANGED <<stable, seen, undone, cutLogs, faults>>

\* Store::append outside a batch (CaptureSession's use of it).
Append1(r) ==
  /\ pc = "ready"
  /\ nextSeq < MaxRecords
  /\ Push(r)
  /\ acked' = acked \cup (index' \ index)
  /\ UNCHANGED <<pc, call, stable, seen, undone, cutLogs, faults>>

\* The same when write_all fails: the error is returned, nothing is restored.
Append1Fails(r) ==
  /\ pc = "ready"
  /\ "plain" \in Faults
  /\ Failure
  /\ \E n \in 0..FrameSize[r] : TornWrite(r, n)
  /\ UNCHANGED <<pc, call, history>>

-----------------------------------------------------------------------------
(***************************************************************************)
(* Store::flush.  A failing sync_data leaves everything as it was.         *)
(***************************************************************************)
\* Mutant: the data is not synced before the header is written.
SyncData_Skipped ==
  /\ pc = "ready"
  /\ pc' = "header"
  /\ stable' = acked
  /\ cutLogs' = {}
  /\ UNCHANGED <<file, synced, pos, mem, call, acked, seen, undone, faults>>

SyncData ==
  /\ pc = "ready"
  /\ pc' = "header"
  /\ synced' = Len(file)
  /\ stable' = acked
  /\ undone' = {}
  /\ cutLogs' = {}
  /\ UNCHANGED <<file, pos, mem, call, acked, seen, faults>>

\* Mutant: no seek back to the end.
WriteHeader_NoSeek ==
  /\ pc = "header"
  /\ file' = Written(file, 0, <<HeaderCell>>, 1)
  /\ pos' = DataStart
  /\ pc' = "ready"
  /\ UNCHANGED <<synced, mem, call, history, faults>>

\* Seek to 0, write the header, sync_all, seek back to the end.
WriteHeader ==
  /\ pc = "header"
  /\ file' = Written(file, 0, <<HeaderCell>>, 1)
  /\ pos' = dataEnd
  /\ pc' = "ready"
  /\ UNCHANGED <<synced, mem, call, history, faults>>

\* write_all or sync_all of the header fails: flush returns where it is, the
\* cursor inside the header or just behind it.
WriteHeaderFails ==
  /\ pc = "header"
  /\ "header" \in Faults
  /\ Failure
  /\ pos' \in 0..DataStart
  /\ pc' = "ready"
  /\ UNCHANGED <<file, synced, mem, call, history>>

-----------------------------------------------------------------------------
(***************************************************************************)
(* Crashes.  Open forgets what the process knew; until then seen, todo and *)
(* acked tell the properties what the dead process had been doing.         *)
(***************************************************************************)
Alive == pc \in {"scan", "ready", "batch", "undo", "header"}

Dies ==
  /\ Alive
  /\ Failure
  /\ pc' = "down"
  /\ UNCHANGED <<pos, mem, saved, stable>>

\* The process is killed: the kernel still has every completed write.
Kill ==
  /\ Dies
  /\ seen' = Whole
  /\ UNCHANGED <<file, synced, todo, acked, undone, cutLogs>>

\* Power loss: unsynced cells may be missing or read as zeros, and so may be
\* the last cuts of the file: no sync follows set_len before the next flush.
PowerLoss ==
  /\ "power" \in Faults
  /\ Dies
  /\ \E v \in Versions :
       /\ \E n \in synced..Len(v.file) : \E lost \in SUBSET ((synced + 1)..n) :
            file' = Surviving(v.file, n, lost)
       /\ seen' = v.frames
       /\ todo' = v.todo
  /\ synced' = Len(file')
  /\ acked' = stable
  /\ undone' = {}
  /\ cutLogs' = {}

\* Power loss when the cells after the synced ones reached the platter one by
\* one: each is as some version of the file has it, or zeros.
MixedLoss ==
  /\ "mixed" \in Faults
  /\ Dies
  /\ \E v \in Versions : \E n \in synced..Len(v.file) :
       \E from \in [(synced + 1)..n -> Versions] :
       \E lost \in SUBSET ((synced + 1)..n) :
         file' = Mixed(v, from, n, lost)
  /\ seen' = UNION {v.frames : v \in Versions}
  /\ todo' = <<>>
  /\ synced' = Len(file')
  /\ acked' = stable
  /\ undone' = {}
  /\ cutLogs' = {}

-----------------------------------------------------------------------------
Next ==
  \/ Open
  \/ ScanFrame
  \/ ScanEnd
  \/ \E b \in Batches : BeginBatch(b)
  \/ BatchWrite
  \/ BatchWriteFails
  \/ Undo
  \/ UndoFails
  \/ BatchDone
  \/ \E r \in Records : Append1(r)
  \/ \E r \in Records : Append1Fails(r)
  \/ SyncData
  \/ WriteHeader
  \/ WriteHeaderFails
  \/ Kill
  \/ PowerLoss
  \/ MixedLoss

Spec == Init /\ [][Next]_vars

\* The code runs the loop of recover_from to its end unless it dies.
FairSpec == Spec /\ WF_vars(ScanFrame) /\ WF_vars(ScanEnd)
-----------------------------------------------------------------------------
(***************************************************************************)
(* Properties.                                                             *)
(***************************************************************************)

\* The types of the store's state; part of the inductive invariant.
TypeOK ==
  /\ pc \in {"down", "scan", "ready", "batch", "undo", "header"}
  /\ file \in Seq(Cells)
  /\ synced \in 0..Len(file)
  /\ pos \in Nat /\ dataEnd \in Nat /\ nextSeq \in Nat /\ sessionCount \in Nat
  /\ index \subseteq Metas /\ IsFiniteSet(index)
  /\ truncation \in BOOLEAN
  /\ todo \in Seq(Records)
  /\ saved \in [end : Nat, seq : Nat]
  /\ acked \subseteq Metas /\ stable \subseteq Metas /\ seen \subseteq Metas
  /\ undone \subseteq [file : Seq(Cells), frames : SUBSET Metas, todo : {<<>>}]
  /\ cutLogs \subseteq SUBSET Metas
  /\ faults \in 0..MaxFaults

\* Between calls the index holds exactly the acknowledged records and a read
\* of any of them returns the record that was appended, also after failed and
\* rolled back batches, failed syncs and reopening (append, append_batch,
\* scan_limited and get together).
CommittedReadable ==
  pc = "ready" => /\ index = acked
                  /\ \A m \in index : ReadAt(file, m) = m.rec

\* Between calls sequence numbers are dense from 0 and each names one record,
\* so that a reader resuming at next_seq misses and repeats nothing.
SeqDense ==
  pc = "ready" => /\ {m.seq : m \in index} = 0..(nextSeq - 1)
                  /\ \A m1, m2 \in index : m1.seq = m2.seq => m1 = m2

\* session_count, kept incrementally by append and recomputed by rollback and
\* recovery, is the number of sessions the index knows.
SessionCountExact ==
  pc \notin {"down", "scan"} => sessionCount = Cardinality(SessionsIn(index))

\* "prior frames are never mutated by later appends" (tests/concurrency.rs):
\* while the process lives no step damages an acknowledged frame.
AppendOnly ==
  [][pc' # "down" => \A m \in acked : Intact(file, m) => Intact(file', m)]_vars

\* Reopening after a crash loses no acknowledged record: none at all after a
\* kill, none that a completed sync_data covers after a power loss.
NothingDurableLost ==
  [][pc = "scan" /\ pc' = "ready" => acked \subseteq index']_vars

\* Reopening invents nothing: what it finds is a part of one log, that of the
\* process that died or, after a power loss, what the log was when a roll back
\* or a recovery cut the file and no sync_data has completed since.  A rolled
\* back batch may so come back until the next flush (set_len at store.rs:153
\* is not synced); after it, or after a mere kill, it never does.
NothingInvented ==
  [][/\ pc = "scan" /\ pc' = "ready" => index' \subseteq seen
     /\ Alive /\ pc' = "down" =>
          seen' = Whole \/ (cutLogs' = {} /\ seen' \in cutLogs)]_vars

\* Whatever happened before, a reopened store is sound: every frame it lists
\* is intact, no byte follows them and the cursor is at the end of the log.
ReopenHeals ==
  [][pc = "scan" /\ pc' = "ready" =>
       /\ \A m \in index' : Intact(file', m)
       /\ pos' = dataEnd'
       /\ Len(file') <= dataEnd']_vars

\* The recovery scan always comes to an end.
RecoveryCompletes == pc = "scan" ~> pc \in {"ready", "down"}

\* The frames of s in sequence order, as the records a caller sees.
AsLog(s) ==
  LET first == (CHOOSE m \in s : \A x \in s : m.seq <= x.seq).seq
  IN  [i \in 1..Cardinality(s) |-> (CHOOSE m \in s : m.seq = first + i - 1).rec]

\* The records among them, and yet to come, that were not acknowledged.
Pending ==
  IF pc \in {"ready", "header"} THEN <<>> ELSE AsLog(Whole \ acked) \o todo

\* The log as its callers see it.
Log == INSTANCE AppendLog WITH
  up <- pc \notin {"down", "scan"},
  log <- AsLog(acked),
  stable <- Cardinality(stable),
  pending <- Pending,
  withdrawn <- {AsLog(s \ stable) : s \in cutLogs}

\* The store implements the append-only log with a durable prefix.
ImplementsLog == Log!Spec

-----------------------------------------------------------------------------
(***************************************************************************)
(* The inductive invariant of a store whose failed writes are all rolled   *)
(* back, that is with Faults \subseteq {"write", "power"}.                 *)
(***************************************************************************)

\* The frames of S lie one behind the other from DataStart to end and carry
\* the sequence numbers 0..n-1.
Laid(S, n, end) ==
  /\ \A m \in S : m.seq < n /\ DataStart <= m.offset /\ EndOf(m) <= end
  /\ \A k \in 0..(n - 1) : \E m \in S : m.seq = k
  /\ \A m1, m2 \in S : m1.seq = m2.seq => m1 = m2
  /\ \A m \in S : m.seq = 0 => m.offset = DataStart
  /\ \A m1, m2 \in S : m2.seq = m1.seq + 1 => m2.offset = EndOf(m1)
  /\ \A m \in S : m.seq = n - 1 => EndOf(m) = end
  /\ n = 0 => end = DataStart

\* What a crash may not take is an unbroken run of frames from DataStart.
Gapless(S) ==
  /\ S # {} => \E m \in S : m.seq = 0 /\ m.offset = DataStart
  /\ \A m, y \in S : m.seq < y.seq =>
        \E x \in S : x.seq = m.seq + 1 /\ x.offset = EndOf(m)

\* A scan of f that starts in S stays in S.
Closed(f, S) ==
  /\ FrameAt(f, DataStart) =>
        MetaAt(f, DataStart) \in S /\ MetaAt(f, DataStart).seq = 0
  /\ \A m \in S : FrameAt(f, EndOf(m)) =>
        MetaAt(f, EndOf(m)) \in S /\ MetaAt(f, EndOf(m)).seq = m.seq + 1

StableInv ==
  /\ stable \subseteq acked
  /\ Gapless(stable)
  /\ \A m \in stable : EndOf(m) <= synced

OpenInv ==
  pc \in {"ready", "batch", "undo", "header"} =>
    /\ Laid(index, nextSeq, dataEnd)
    /\ \A m \in index : Intact(file, m)
    /\ ~FrameAt(file, dataEnd)
    /\ sessionCount = Cardinality(SessionsIn(index))
    /\ pc # "undo" => pos = dataEnd /\ Len(file) <= dataEnd
    /\ pc \in {"ready", "header"} => acked = index
    /\ pc \in {"batch", "undo"} =>
          /\ acked = TruncatedFrom(index, saved.seq)
          /\ Laid(acked, saved.seq, saved.end)

ClosedInv ==
  pc \in {"down", "scan"} =>
    /\ acked \subseteq seen
    /\ Gapless(acked)
    /\ \A m \in acked : Intact(file, m)
    /\ \A m1, m2 \in seen : m1.seq = m2.seq => m1 = m2
    /\ Closed(file, seen)

UndoneInv ==
  /\ \A s \in cutLogs : stable \subseteq s
  /\ \A v \in undone :
    /\ v.frames \in cutLogs
    /\ stable \subseteq v.frames
    /\ \A m \in stable : Intact(v.file, m)
    /\ \A m1, m2 \in v.frames : m1.seq = m2.seq => m1 = m2
    /\ Closed(v.file, v.frames)

ScanInv ==
  pc = "scan" =>
    /\ Laid(index, nextSeq, dataEnd)
    /\ index \subseteq seen
    /\ \A m \in index : Intact(file, m)
    /\ \/ acked \subseteq index
       \/ \E x \in acked : /\ x.offset = dataEnd
                           /\ \A y \in acked : y.seq < x.seq => y \in index

\* What makes the safety properties of the store inductive.
IInv == TypeOK /\ StableInv /\ OpenInv /\ ClosedInv /\ ScanInv /\ UndoneInv
=============================================================================
