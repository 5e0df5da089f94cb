------------------------------ MODULE Capture -------------------------------
(***************************************************************************)
(* Live capture of one session log (crates/usl-capture): a harness writes  *)
(* the log, FileFollower.poll reads what is new in it, Framer cuts the     *)
(* bytes into lines and CaptureSession appends each line to its store.     *)
(* The caller is the loop of examples/live_convert.rs: poll, write, and    *)
(* finish once the harness has ended and the last poll found nothing.      *)
(*                                                                         *)
(* Framing is about bytes, so the log is a sequence of them; three are     *)
(* enough to tell apart what the code tells apart.  The store is the log   *)
(* of its records (module UslStore says what stands behind it); the        *)
(* session header that start appends is left out of records.               *)
(***************************************************************************)
EXTENDS Integers, Sequences, SequencesExt, FiniteSets

CONSTANTS
  NL, CR, Char,   \* newline; carriage return, also the blank; any other byte
  MaxLine,        \* Framer.max_line
  MaxOld,         \* bound: bytes in the log before following begins
  MaxBytes,       \* bound: changes the harness makes to its log
  MaxFailures     \* bound: appends that fail

ASSUME CaptureAssumption ==
  /\ Cardinality({NL, CR, Char}) = 3
  /\ MaxLine \in Nat /\ MaxOld \in Nat
  /\ MaxBytes \in Nat /\ MaxFailures \in Nat

Bytes == {NL, CR, Char}

\* The log grew between metadata and read; it was cut back; it grew after the
\* last poll and the harness ended; a line was over the cap; an append failed.
Mishaps == {"race", "cut", "late", "cap", "failure"}

VARIABLES
  file,      \* the session log
  exited,    \* the harness has ended
  wrote,     \* how many changes it made to the log
  pc,        \* what the caller is executing
  offset,    \* FileFollower.offset
  len,       \* poll's len
  found,     \* the bytes the last poll returned
  buf,       \* Framer.buf
  lines,     \* lines that write has still to append
  records,   \* the raw lines in the store
  count,     \* CaptureSession.line_count
  base,      \* history: the offset following began at
  stream,    \* history: every byte polls returned
  failures,  \* appends that failed
  past       \* history: which of Mishaps have happened

harness == <<file, exited, wrote>>
follower == <<offset, len, found, stream>>
framer == <<buf, lines>>
store == <<records, count, failures>>
vars == <<harness, pc, follower, framer, store, base, past>>

-----------------------------------------------------------------------------
(* Lines: what framing a byte stream gives, byte by byte.                  *)

Newlines(s) == {i \in DOMAIN s : s[i] = NL}

FirstNewline(s) == CHOOSE i \in Newlines(s) : \A j \in Newlines(s) : i <= j

\* Mutant: the carriage return stays.
Stripped_KeepsCR(l) == l

\* A line without the carriage return of its CRLF.
Stripped(l) == IF l # <<>> /\ Last(l) = CR THEN Front(l) ELSE l

\* What one more byte does to the lines so far and the bytes behind them.
Framing(f, b) ==
  IF b # NL THEN [f EXCEPT !.partial = Append(@, b)]
  ELSE LET l == f.partial
       IN  [lines |-> Append(f.lines, IF l # <<>> /\ Last(l) = CR THEN Front(l) ELSE l),
            partial |-> <<>>]

Framed(s) ==
  LET upto[n \in 0..Len(s)] ==
        IF n = 0 THEN [lines |-> <<>>, partial |-> <<>>] ELSE Framing(upto[n - 1], s[n])
  IN  upto[Len(s)]

LinesOf(s) == Framed(s).lines

\* What follows the last newline of s.
PartialOf(s) == Framed(s).partial

Blank(l) == \A i \in DOMAIN l : l[i] # Char

NonBlank(ls) ==
  LET upto[n \in 0..Len(ls)] ==
        IF n = 0 THEN <<>>
        ELSE IF Blank(ls[n]) THEN upto[n - 1] ELSE Append(upto[n - 1], ls[n])
  IN  upto[Len(ls)]

\* All records a stream gives, its unterminated last line included.
RecordsOf(s) == NonBlank(Append(LinesOf(s), PartialOf(s)))

-----------------------------------------------------------------------------
Init ==
  /\ file \in BoundedSeq(Bytes, MaxOld)
  /\ exited = FALSE
  /\ wrote = 0
  /\ pc = "poll"
  /\ offset \in {0, Len(file)}    \* from_start, tail
  /\ len = 0
  /\ found = <<>>
  /\ buf = <<>>
  /\ lines = <<>>
  /\ records = <<>>
  /\ count = 0
  /\ base = offset
  /\ stream = <<>>
  /\ failures = 0
  /\ past = {}

(***************************************************************************)
(* The harness, which writes at any moment, also while a poll is running.  *)
(* A log replaced by another one is a cut and appends; with the path       *)
(* reopened by every poll a rename is one too.                             *)
(***************************************************************************)
MayWrite == ~exited /\ wrote < MaxBytes

Happened(m) == past' = past \cup {m}

HarnessAppends(b) ==
  /\ MayWrite
  /\ file' = Append(file, b)
  /\ wrote' = wrote + 1
  /\ IF pc = "read" THEN Happened("race") ELSE UNCHANGED past
  /\ UNCHANGED <<exited, pc, follower, framer, store, base>>

HarnessCuts(n) ==
  /\ MayWrite
  /\ n < Len(file)
  /\ file' = SubSeq(file, 1, n)
  /\ wrote' = wrote + 1
  /\ Happened("cut")
  /\ UNCHANGED <<exited, pc, follower, framer, store, base>>

HarnessExits ==
  /\ ~exited
  /\ exited' = TRUE
  /\ IF pc = "check" /\ found = <<>> /\ offset # Len(file)
     THEN Happened("late") ELSE UNCHANGED past
  /\ UNCHANGED <<file, wrote, pc, follower, framer, store, base>>

-----------------------------------------------------------------------------
(***************************************************************************)
(* FileFollower::poll: open and metadata; read_to_end.                     *)
(***************************************************************************)
\* Mutant: a log that shrank goes unnoticed.
Stat_NoReset ==
  /\ pc = "poll"
  /\ len' = Len(file)
  /\ UNCHANGED offset
  /\ IF offset >= len'
     THEN found' = <<>> /\ pc' = "check"
     ELSE UNCHANGED found /\ pc' = "read"
  /\ UNCHANGED <<harness, stream, framer, store, base, past>>

Stat ==
  /\ pc = "poll"
  /\ len' = Len(file)
  /\ offset' = IF len' < offset THEN 0 ELSE offset
  /\ IF offset' >= len'
     THEN found' = <<>> /\ pc' = "check"
     ELSE UNCHANGED found /\ pc' = "read"
  /\ UNCHANGED <<harness, stream, framer, store, base, past>>

\* Mutant: the offset moves by what was read, one byte short.
Read_OffByOne ==
  /\ pc = "read"
  /\ found' = SubSeq(file, offset + 1, Len(file))
  /\ stream' = stream \o found'
  /\ offset' = len - 1
  /\ pc' = "feed"
  /\ UNCHANGED <<harness, len, framer, store, base, past>>

\* Everything from offset to the end the file has now; offset becomes the
\* length it had then.
Read ==
  /\ pc = "read"
  /\ found' = SubSeq(file, offset + 1, Len(file))
  /\ stream' = stream \o found'
  /\ offset' = len
  /\ pc' = "feed"
  /\ UNCHANGED <<harness, len, framer, store, base, past>>

-----------------------------------------------------------------------------
(***************************************************************************)
(* CaptureSession::write: Framer::feed, then one append per line.          *)
(***************************************************************************)
Feed ==
  /\ pc = "feed"
  /\ buf' = buf \o found
  /\ pc' = "drain"
  /\ UNCHANGED <<harness, follower, lines, store, base, past>>

\* One iteration of feed's loop.
DrainLine ==
  /\ pc = "drain"
  /\ Newlines(buf) # {}
  /\ lines' = Append(lines, Stripped(SubSeq(buf, 1, FirstNewline(buf) - 1)))
  /\ buf' = SubSeq(buf, FirstNewline(buf) + 1, Len(buf))
  /\ UNCHANGED <<harness, pc, follower, store, base, past>>

DrainEnd ==
  /\ pc = "drain"
  /\ Newlines(buf) = {}
  /\ Len(buf) <= MaxLine
  /\ pc' = "append"
  /\ UNCHANGED <<harness, follower, framer, store, base, past>>

\* feed returns LineTooLong; the lines it drained go with its stack frame.
LineTooLong ==
  /\ pc = "drain"
  /\ Newlines(buf) = {}
  /\ Len(buf) > MaxLine
  /\ lines' = <<>>
  /\ pc' = "check"
  /\ Happened("cap")
  /\ UNCHANGED <<harness, follower, buf, store, base>>

Record(l) ==
  /\ records' = Append(records, l)
  /\ count' = count + 1

SkipBlank ==
  /\ pc = "append"
  /\ lines # <<>>
  /\ Blank(Head(lines))
  /\ lines' = Tail(lines)
  /\ UNCHANGED <<harness, pc, follower, buf, store, base, past>>

AppendLine ==
  /\ pc = "append"
  /\ lines # <<>>
  /\ ~Blank(Head(lines))
  /\ Record(Head(lines))
  /\ lines' = Tail(lines)
  /\ UNCHANGED <<harness, pc, follower, buf, failures, base, past>>

\* Store::append fails: write returns, the lines not yet appended are lost.
AppendFails ==
  /\ pc = "append"
  /\ lines # <<>>
  /\ ~Blank(Head(lines))
  /\ failures < MaxFailures
  /\ failures' = failures + 1
  /\ Happened("failure")
  /\ lines' = <<>>
  /\ pc' = "check"
  /\ UNCHANGED <<harness, follower, buf, records, count, base>>

WriteDone ==
  /\ pc = "append"
  /\ lines = <<>>
  /\ pc' = "check"
  /\ UNCHANGED <<harness, follower, framer, store, base, past>>

-----------------------------------------------------------------------------
(* The caller's loop, and finish.                                          *)

PollAgain ==
  /\ pc = "check"
  /\ ~(exited /\ found = <<>>)
  /\ pc' = "poll"
  /\ UNCHANGED <<harness, follower, framer, store, base, past>>

\* Mutant: the partial line is dropped.
Finish_NoPartial ==
  /\ pc = "check"
  /\ exited /\ found = <<>>
  /\ pc' = "finished"
  /\ buf' = <<>>
  /\ UNCHANGED <<harness, follower, lines, store, base, past>>

Finish ==
  /\ pc = "check"
  /\ exited /\ found = <<>>
  /\ pc' = "finished"
  /\ buf' = <<>>
  /\ IF Blank(buf) THEN UNCHANGED <<records, count>> ELSE Record(buf)
  /\ UNCHANGED <<harness, follower, lines, failures, base, past>>

\* The append of the partial line fails; finish has already taken it.
FinishFails ==
  /\ pc = "check"
  /\ exited /\ found = <<>>
  /\ ~Blank(buf)
  /\ failures < MaxFailures
  /\ failures' = failures + 1
  /\ Happened("failure")
  /\ pc' = "finished"
  /\ buf' = <<>>
  /\ UNCHANGED <<harness, follower, lines, records, count, base>>

Next ==
  \/ \E b \in Bytes : HarnessAppends(b)
  \/ \E n \in 0..MaxBytes : HarnessCuts(n)
  \/ HarnessExits
  \/ Stat \/ Read
  \/ Feed \/ DrainLine \/ DrainEnd \/ LineTooLong
  \/ SkipBlank \/ AppendLine \/ AppendFails \/ WriteDone
  \/ PollAgain \/ Finish \/ FinishFails

Spec == Init /\ [][Next]_vars

\* The caller polls in a loop and nothing in the loop waits for another.
Caller ==
  \/ Stat \/ Read \/ Feed \/ DrainLine \/ DrainEnd \/ LineTooLong
  \/ SkipBlank \/ AppendLine \/ AppendFails \/ WriteDone
  \/ PollAgain \/ Finish \/ FinishFails

FairSpec == Spec /\ WF_vars(Caller)

-----------------------------------------------------------------------------
(***************************************************************************)
(* Properties.  NewBytesOnly is what the crate's comments promise, without *)
(* conditions; in the others the mishaps named are the conditions under    *)
(* which the code keeps them.                                              *)
(***************************************************************************)
Avoided(ms) == past \cap ms = {}

TypeOK ==
  /\ file \in Seq(Bytes)
  /\ exited \in BOOLEAN
  /\ wrote \in 0..MaxBytes
  /\ pc \in {"poll", "read", "feed", "drain", "append", "check", "finished"}
  /\ offset \in Nat /\ len \in Nat /\ base \in Nat /\ count \in Nat
  /\ found \in Seq(Bytes) /\ stream \in Seq(Bytes)
  /\ buf \in Seq(Bytes)
  /\ lines \in Seq(Seq(Bytes)) /\ records \in Seq(Seq(Bytes))
  /\ failures \in 0..MaxFailures
  /\ past \subseteq Mishaps

\* s is t with some elements left out.
IsSubsequence(s, t) ==
  LET at[i \in 0..Len(s)] ==
        IF i = 0 THEN 0
        ELSE LET before == at[i - 1]
                 later == {j \in (before + 1)..Len(t) : t[j] = s[i]}
             IN  IF later = {} THEN Len(t) + 1
                 ELSE CHOOSE j \in later : \A k \in later : j <= k
  IN  at[Len(s)] <= Len(t)

\* Until an append fails or a line is over the cap, at every moment the
\* records, the lines still to append and the bytes not yet framed are
\* together the lines of what polls returned: "framing is independent of how
\* the byte stream is chunked" (framer.rs).  After that whole lines are missing.
Conserved ==
  LET unframed == IF pc = "feed" THEN buf \o found ELSE buf
      captured == records \o NonBlank(lines) \o NonBlank(LinesOf(unframed))
  IN  pc # "finished" =>
        /\ PartialOf(unframed) = PartialOf(stream)
        /\ IsSubsequence(captured, NonBlank(LinesOf(stream)))
        /\ Avoided({"cap", "failure"}) => captured = NonBlank(LinesOf(stream))

\* What is pending where in the loop.
Pending ==
  /\ pc # "drain" => Newlines(buf) = {}
  /\ pc \notin {"drain", "append"} => lines = <<>>
  /\ pc = "finished" => exited

\* Where polls are in a log that is never cut back.
Position ==
  /\ base <= offset /\ offset <= Len(file)
  /\ pc = "read" => offset < len /\ len <= Len(file)
  /\ pc = "read" /\ Avoided({"race"}) => len = Len(file)
  /\ pc \in {"feed", "drain", "append"} => found # <<>>
  /\ pc = "check" /\ exited /\ found = <<>> /\ Avoided({"late"}) => offset = Len(file)

Between == pc \in {"poll", "check"}

\* Lines over the cap, failed appends and a log cut back cost whole lines:
\* no record is ever torn, merged or out of order with respect to the bytes
\* that were fed, and line_count counts the records (write and finish).
OnlyWholeLines ==
  /\ IsSubsequence(records, RecordsOf(stream))
  /\ count = Len(records)

\* As long as the log only grows, no byte between base and offset is missing
\* from what polls returned, also when the log grows during a poll.
NoGaps ==
  Avoided({"cut"}) => IsSubsequence(SubSeq(file, base + 1, offset), stream)

\* What the loop maintains: types, framing, and what polls and mishaps may cost.
IInv ==
  /\ TypeOK /\ Pending /\ Conserved /\ OnlyWholeLines /\ NoGaps
  /\ Avoided({"cut"}) => Position

\* poll returns "new bytes, in order, no gaps" (follow.rs): what it returned
\* so far of a log that only grows is the log from where following began to
\* offset.
NewBytesOnly ==
  Avoided({"cut"}) /\ Between => stream = SubSeq(file, base + 1, offset)

\* It is, as long as the log never grows between a poll's metadata and its
\* read.
DeliversExactly == Avoided({"race"}) => NewBytesOnly

\* When finish returns, the store holds every non-blank line of the log from
\* where following began, the unterminated last one included, unless the log
\* was cut, grew in the middle of a poll or after the last one, a line was
\* over the cap or an append failed.
CapturesAll ==
  pc = "finished" /\ past = {} =>
    records = RecordsOf(SubSeq(file, base + 1, Len(file)))

\* If the harness falls silent, the follower arrives at the end of its log; if
\* it ends, so does the loop: polls do not go on finding bytes in a log that no
\* longer changes (live_convert.rs).
CatchesUp == <>[](pc = "finished" \/ (offset = Len(file) /\ ~exited))
=============================================================================
