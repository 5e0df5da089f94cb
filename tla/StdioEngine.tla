---------------------------- MODULE StdioEngine -----------------------------
(***************************************************************************)
(* The stdio transport of sesdb: NdjsonEngine (packages/sesdb, engine.ts)  *)
(* spawns sesdb-engine (crates/sesdb-engine, main.rs) and talks to it in   *)
(* lines of JSON over two pipes.  The engine answers one request after the *)
(* other; the client may have many under way, each with a timer, and       *)
(* handles the events of its child in whatever order node delivers them.   *)
(*                                                                         *)
(* A response crosses the pipe in two pieces, its text and its newline, so *)
(* that a chunk may end inside a line.  A request is its number and what   *)
(* becomes of it in the engine; an appended batch is the number of its     *)
(* request.  Module UslStore stands behind log: a failing append_batch is  *)
(* rolled back, what flush has synced survives.  A barrier fails here in   *)
(* its sync_data; what a failing header write does to later batches is the *)
(* subject of UslStoreHeaderFault.                                         *)
(***************************************************************************)
EXTENDS Naturals, Sequences, SequencesExt

CONSTANTS
  Kinds,        \* kinds of requests callers make, a subset of AllKinds
  PipeCap,      \* how many pieces the response pipe holds
  MaxRequests,  \* bound: requests
  MaxFaults     \* bound: failures and kills

\* scan also stands for stats, verify and capabilities; bad for a request
\* that dispatch rejects; oversize for a line of more than MAX_REQUEST_BYTES.
AllKinds == {"append", "scan", "flush", "bad", "oversize"}

ASSUME StdioAssumption ==
  /\ Kinds \subseteq AllKinds
  /\ PipeCap \in Nat \ {0}
  /\ MaxRequests \in Nat /\ MaxFaults \in Nat

VARIABLES
  sent,      \* the requests made so far, by id
  how,       \* how the promise of each was settled, or "open"
  pending,   \* NdjsonEngine.#pending
  terminal,  \* #terminalError
  buffer,    \* #buffer
  exitSeen,  \* the child's exit (or error) event was handled
  endSeen,   \* the end of its stdout was handled
  closing,   \* how far close() has come
  stdin,     \* requests on their way to the engine
  engine,    \* what the engine is doing
  serving,   \* the request it serves
  reply,     \* the response it writes
  stdout,    \* response pieces on their way to the client
  log,       \* the store: appended batches
  synced,    \* how many of them flush has made durable
  faults     \* failures and kills

client == <<sent, how, pending, terminal, buffer, exitSeen, endSeen, closing>>
server == <<engine, serving, reply, log, synced>>
vars == <<client, stdin, server, stdout, faults>>

-----------------------------------------------------------------------------
NoId == 0
Ids == 1..Len(sent)

Response(i, code) == [id |-> i, code |-> code]
Codes == {"ok", "retryable", "unknown", "final"}

Text(r) == [of |-> r, last |-> FALSE]
Newline(r) == [of |-> r, last |-> TRUE]

Init ==
  /\ sent = <<>>
  /\ how = <<>>
  /\ pending = {}
  /\ terminal = "none"
  /\ buffer = <<>>
  /\ exitSeen = FALSE
  /\ endSeen = FALSE
  /\ closing = "no"
  /\ stdin = <<>>
  /\ engine = "starting"
  /\ serving = NoId
  /\ reply = Response(NoId, "ok")
  /\ stdout = <<>>
  /\ log = <<>>
  /\ synced = 0
  /\ faults = 0

Fault == faults < MaxFaults /\ faults' = faults + 1

Gone == engine \in {"dead", "unspawned"}

-----------------------------------------------------------------------------
(***************************************************************************)
(* The client: request, its timer and its write callback.                  *)
(***************************************************************************)
Settle(ids, outcome) ==
  /\ how' = [i \in DOMAIN how |-> IF i \in ids THEN outcome ELSE how[i]]
  /\ pending' = pending \ ids

\* stdin.writable, and no terminal error.
MayRequest == terminal = "none" /\ ~exitSeen /\ closing = "no"

Request(k) ==
  /\ MayRequest
  /\ Len(sent) < MaxRequests
  /\ sent' = Append(sent, k)
  /\ how' = Append(how, "open")
  /\ pending' = pending \cup {Len(sent')}
  /\ stdin' = Append(stdin, Len(sent'))
  /\ UNCHANGED <<terminal, buffer, exitSeen, endSeen, closing>>
  /\ UNCHANGED <<server, stdout, faults>>

\* Mutant: the timer rejects, but the request stays in the map.
Timeout_KeepsPending(i) ==
  /\ i \in pending
  /\ how' = [how EXCEPT ![i] = "timeout"]
  /\ UNCHANGED <<sent, pending, terminal, buffer, exitSeen, endSeen, closing>>
  /\ UNCHANGED <<stdin, server, stdout, faults>>

Timeout(i) ==
  /\ i \in pending
  /\ Settle({i}, "timeout")
  /\ UNCHANGED <<sent, terminal, buffer, exitSeen, endSeen, closing>>
  /\ UNCHANGED <<stdin, server, stdout, faults>>

\* Mutant: the promise is rejected, the entry forgotten in the map.
WriteFails_KeepsPending(i) ==
  /\ Gone
  /\ i \in pending /\ i \in Range(stdin)
  /\ how' = [how EXCEPT ![i] = "unwritable"]
  /\ UNCHANGED <<sent, pending, terminal, buffer, exitSeen, endSeen, closing>>
  /\ UNCHANGED <<stdin, server, stdout, faults>>

\* The write callback gets an error: the engine is gone and did not read it.
WriteFails(i) ==
  /\ Gone
  /\ i \in pending /\ i \in Range(stdin)
  /\ Settle({i}, "unwritable")
  /\ UNCHANGED <<sent, terminal, buffer, exitSeen, endSeen, closing>>
  /\ UNCHANGED <<stdin, server, stdout, faults>>

-----------------------------------------------------------------------------
(***************************************************************************)
(* The client: what the child's events do.                                 *)
(***************************************************************************)
\* #terminate, for a first error.
Terminate(error) ==
  /\ terminal' = error
  /\ Settle(pending, error)

\* Where the lines of s end, and the ends of those that are not JSON: a line
\* that is not both pieces of one response.
Ends(s) == {n \in DOMAIN s : s[n].last}

Garbled(s) ==
  {n \in Ends(s) : \/ n = 1
                   \/ s[n - 1] # Text(s[n].of)
                   \/ n > 2 /\ ~s[n - 2].last}

\* Mutant: a response settles the request that has waited longest.
Answers_Oldest(r) ==
  IF r.id = NoId \/ pending = {} THEN {}
  ELSE {CHOOSE i \in pending : \A j \in pending : i <= j}

\* The pending request a response is for.
Answers(r) == {r.id} \cap pending

\* The responses read, each with its own outcome; parsing stops at a garbled
\* line.
Consumes(s) ==
  LET read == {n \in Ends(s) : \A bad \in Garbled(s) : n < bad}
      outcome(i) == {s[n].of.code : n \in {m \in read : i \in Answers(s[m].of)}}
      settled == {i \in pending : outcome(i) # {}}
      after == [i \in DOMAIN how |->
                  IF i \in settled THEN CHOOSE c \in outcome(i) : TRUE ELSE how[i]]
  IN  IF Garbled(s) = {}
      THEN /\ how' = after
           /\ pending' = pending \ settled
           /\ UNCHANGED terminal
      ELSE /\ terminal' = IF terminal = "none" THEN "invalid" ELSE terminal
           /\ how' = [i \in DOMAIN how |->
                        IF i \in pending \ settled THEN terminal' ELSE after[i]]
           /\ pending' = {}

\* What #buffer keeps: the text after the last line, or after the garbled one.
Unread(s) ==
  LET upTo == IF Garbled(s) = {} THEN Max(Ends(s) \cup {0}) ELSE Min(Garbled(s))
  IN  SubSeq(s, upTo + 1, Len(s))

\* A chunk of n pieces arrives: #consume.
Data(n) ==
  /\ n \in 1..Len(stdout)
  /\ LET s == buffer \o SubSeq(stdout, 1, n) IN
       /\ Consumes(s)
       /\ buffer' = Unread(s)
  /\ stdout' = SubSeq(stdout, n + 1, Len(stdout))
  /\ UNCHANGED <<sent, exitSeen, endSeen, closing, stdin, server, faults>>

\* If nothing waits, the error is not recorded.
TerminateIfWaiting(error) ==
  IF terminal = "none" /\ pending # {} THEN Terminate(error)
  ELSE UNCHANGED <<terminal, how, pending>>

\* The process is gone; its output may not have been read yet.
ExitEvent ==
  /\ engine = "dead" /\ ~exitSeen
  /\ exitSeen' = TRUE
  /\ TerminateIfWaiting("exited")
  /\ UNCHANGED <<sent, buffer, endSeen, closing, stdin, server, stdout, faults>>

EndEvent ==
  /\ Gone /\ stdout = <<>> /\ ~endSeen
  /\ endSeen' = TRUE
  /\ TerminateIfWaiting("ended")
  /\ UNCHANGED <<sent, buffer, exitSeen, closing, stdin, server, stdout, faults>>

\* spawn failed.
ErrorEvent ==
  /\ engine = "unspawned" /\ ~exitSeen
  /\ exitSeen' = TRUE
  /\ IF terminal = "none" THEN Terminate("unavailable")
     ELSE UNCHANGED <<terminal, how, pending>>
  /\ UNCHANGED <<sent, buffer, endSeen, closing, stdin, server, stdout, faults>>

\* Mutant: close does not wait for the child.
Close_NoWait ==
  /\ closing = "no"
  /\ closing' = "done"
  /\ UNCHANGED <<sent, how, pending, terminal, buffer, exitSeen, endSeen>>
  /\ UNCHANGED <<stdin, server, stdout, faults>>

\* close(): end stdin and wait for the child's close event; at once if it has
\* exited.
Close ==
  /\ closing = "no"
  /\ closing' = IF exitSeen THEN "done" ELSE "waiting"
  /\ UNCHANGED <<sent, how, pending, terminal, buffer, exitSeen, endSeen>>
  /\ UNCHANGED <<stdin, server, stdout, faults>>

CloseEvent ==
  /\ closing = "waiting"
  /\ exitSeen /\ endSeen
  /\ closing' = "done"
  /\ UNCHANGED <<sent, how, pending, terminal, buffer, exitSeen, endSeen>>
  /\ UNCHANGED <<stdin, server, stdout, faults>>

-----------------------------------------------------------------------------
(***************************************************************************)
(* The engine: start, read a line, dispatch, write a line.                 *)
(***************************************************************************)
\* The token is there, the lock is taken, the store opened.
Start ==
  /\ engine = "starting"
  /\ engine' = "reading"
  /\ UNCHANGED <<client, stdin, serving, reply, log, synced, stdout, faults>>

\* No token, another engine owns the store, or the store cannot be opened.
StartRefused ==
  /\ engine = "starting"
  /\ Fault
  /\ engine' = "dead"
  /\ UNCHANGED <<client, stdin, serving, reply, log, synced, stdout>>

SpawnFails ==
  /\ engine = "starting"
  /\ Fault
  /\ engine' = "unspawned"
  /\ UNCHANGED <<client, stdin, serving, reply, log, synced, stdout>>

ReadLine ==
  /\ engine = "reading"
  /\ stdin # <<>>
  /\ serving' = Head(stdin)
  /\ stdin' = Tail(stdin)
  /\ engine' = "dispatch"
  /\ UNCHANGED <<client, reply, log, synced, stdout, faults>>

\* The end of its input: the engine returns from main.
EngineExits ==
  /\ engine = "reading"
  /\ stdin = <<>> /\ closing # "no"
  /\ engine' = "dead"
  /\ UNCHANGED <<client, stdin, serving, reply, log, synced, stdout, faults>>

Serves(k) == engine = "dispatch" /\ sent[serving] = k

Responds(i, code) ==
  /\ reply' = Response(i, code)
  /\ engine' = "respond"
  /\ UNCHANGED <<client, stdin, serving, stdout>>

\* Mutant: a request that cannot be parsed is skipped.
Refuse_NoAnswer ==
  /\ Serves("bad")
  /\ engine' = "reading"
  /\ UNCHANGED <<client, stdin, serving, reply, log, synced, stdout, faults>>

\* Validation, limits, unknown methods: before anything is written.
Refuse ==
  /\ Serves("bad")
  /\ Responds(serving, "final")
  /\ UNCHANGED <<log, synced, faults>>

\* The line is discarded, with it its id.
RefuseOversize ==
  /\ Serves("oversize")
  /\ Responds(NoId, "final")
  /\ UNCHANGED <<log, synced, faults>>

\* A read that fails is answered like Refuse.
Scan ==
  /\ Serves("scan")
  /\ Responds(serving, "ok")
  /\ UNCHANGED <<log, synced, faults>>

AppendBatch ==
  /\ Serves("append")
  /\ log' = Append(log, serving)
  /\ engine' = "sync"
  /\ UNCHANGED <<client, stdin, serving, reply, synced, stdout, faults>>

AppendBatchFails ==
  /\ Serves("append")
  /\ Fault
  /\ Responds(serving, "retryable")
  /\ UNCHANGED <<log, synced>>

AtFlush == engine = "sync" \/ Serves("flush")

Sync ==
  /\ AtFlush
  /\ synced' = Len(log)
  /\ Responds(serving, "ok")
  /\ UNCHANGED <<log, faults>>

\* Mutant: a failed barrier is reported like a failed append.
SyncFails_Retryable ==
  /\ AtFlush
  /\ Fault
  /\ Responds(serving, "retryable")
  /\ UNCHANGED <<log, synced>>

\* durability_unknown for a batch, a retryable storage_error for flush.
SyncFails ==
  /\ AtFlush
  /\ Fault
  /\ Responds(serving, IF engine = "sync" THEN "unknown" ELSE "retryable")
  /\ UNCHANGED <<log, synced>>

\* write_response, which waits while the pipe is full.
RespondText ==
  /\ engine = "respond"
  /\ Len(stdout) < PipeCap
  /\ stdout' = Append(stdout, Text(reply))
  /\ engine' = "newline"
  /\ UNCHANGED <<client, stdin, serving, reply, log, synced, faults>>

RespondNewline ==
  /\ engine = "newline"
  /\ Len(stdout) < PipeCap
  /\ stdout' = Append(stdout, Newline(reply))
  /\ engine' = "reading"
  /\ UNCHANGED <<client, stdin, serving, reply, log, synced, faults>>

\* The engine is killed, or ends with an error, at any moment.
Kill ==
  /\ ~Gone
  /\ Fault
  /\ engine' = "dead"
  /\ UNCHANGED <<client, stdin, serving, reply, log, synced, stdout>>

-----------------------------------------------------------------------------
Engine ==
  \/ Start \/ ReadLine \/ EngineExits
  \/ Refuse \/ RefuseOversize \/ Scan
  \/ AppendBatch \/ AppendBatchFails \/ Sync \/ SyncFails
  \/ RespondText \/ RespondNewline

Next ==
  \/ \E k \in Kinds : Request(k)
  \/ \E i \in Ids : Timeout(i) \/ WriteFails(i)
  \/ \E n \in 1..PipeCap : Data(n)
  \/ ExitEvent \/ EndEvent \/ ErrorEvent
  \/ Close \/ CloseEvent
  \/ Engine
  \/ StartRefused \/ SpawnFails \/ Kill

Spec == Init /\ [][Next]_vars

\* The engine's loop never rests and node delivers every event.  No timer has
\* to fire.
FairSpec ==
  /\ Spec
  /\ WF_vars(Engine)
  /\ WF_vars(\E n \in 1..PipeCap : Data(n))
  /\ WF_vars(ExitEvent) /\ WF_vars(EndEvent) /\ WF_vars(ErrorEvent)
  /\ WF_vars(CloseEvent)

-----------------------------------------------------------------------------
(***************************************************************************)
(* Properties.                                                             *)
(***************************************************************************)
Errors == {"exited", "ended", "invalid", "unavailable"}

Piece == [of : [id : Nat, code : Codes], last : BOOLEAN]

TypeOK ==
  /\ sent \in Seq(Kinds) /\ Len(sent) <= MaxRequests
  /\ how \in [Ids -> Codes \cup Errors \cup {"open", "timeout", "unwritable"}]
  /\ pending \subseteq Ids
  /\ terminal \in Errors \cup {"none"}
  /\ exitSeen \in BOOLEAN /\ endSeen \in BOOLEAN
  /\ closing \in {"no", "waiting", "done"}
  /\ stdin \in Seq(Nat)
  /\ engine \in {"starting", "reading", "dispatch", "sync", "respond", "newline",
                 "dead", "unspawned"}
  /\ serving \in Nat
  /\ reply \in [id : Nat, code : Codes]
  /\ stdout \in Seq(Piece) /\ buffer \in Seq(Piece)
  /\ Len(stdout) <= PipeCap
  /\ log \in Seq(Nat) /\ synced \in 0..Len(log)
  /\ faults \in 0..MaxFaults

\* The map holds exactly the requests whose promise is open: timers, write
\* callbacks, responses and the end of the child each remove what they settle.
PendingExact == pending = {i \in Ids : how[i] = "open"}

\* However the pipe cuts the responses, the client never takes anything but a
\* whole line for one.
LinesReassembled == terminal # "invalid"

\* The pieces that were written and not yet consumed: texts and newlines in
\* turn, each newline behind its text, the last one as far as the engine got.
Stream == buffer \o stdout

Framing(w) ==
  /\ w # <<>> => ~w[1].last
  /\ \A n \in 2..Len(w) : IF w[n].last THEN w[n - 1] = Text(w[n].of) ELSE w[n - 1].last

Framed ==
  /\ Framing(Stream)
  /\ engine \in {"starting", "reading", "dispatch", "sync", "respond"} =>
       Stream = <<>> \/ Stream[Len(Stream)].last
  /\ engine = "newline" => Stream # <<>> /\ Stream[Len(Stream)] = Text(reply)

\* Requests are served in the order in which they were made, and the log has
\* those of the past and perhaps the one being served.
InOrder ==
  /\ serving <= Len(sent)
  /\ engine \in {"dispatch", "sync", "respond", "newline"} => serving # NoId
  /\ \A q \in DOMAIN stdin : serving < stdin[q] /\ stdin[q] <= Len(sent)
  /\ \A p, q \in DOMAIN stdin : p < q => stdin[p] < stdin[q]
  /\ \A p \in DOMAIN log : log[p] <= serving
  /\ engine = "dispatch" => \A p \in DOMAIN log : log[p] < serving
  /\ engine = "sync" => sent[serving] = "append" /\ \E p \in DOMAIN log : log[p] = serving

\* What code tells the caller of request i is the case.
Told(i, code) ==
  /\ code = "ok" =>
       /\ sent[i] = "append" => \E p \in 1..synced : log[p] = i
       /\ sent[i] = "flush" => \A p \in DOMAIN log : log[p] < i => p <= synced
  /\ sent[i] = "append" =>
       /\ code \in {"retryable", "final", "unwritable"} => \A p \in DOMAIN log : log[p] # i
       /\ code = "unknown" => \E p \in DOMAIN log : log[p] = i

\* The engine will not append i any more.
Past(i) ==
  /\ i \in Ids /\ i <= serving
  /\ engine \in {"dispatch", "sync", "respond"} => i < serving

\* So it is for every response: those received, those on their way and the one
\* being written.
Heard ==
  \A i \in Ids :
    /\ how[i] \in Codes => Past(i) /\ Told(i, how[i])
    /\ how[i] = "unwritable" => Gone /\ Told(i, how[i])

Underway ==
  \A n \in DOMAIN Stream :
    Stream[n].of.id # NoId =>
      Past(Stream[n].of.id) /\ Told(Stream[n].of.id, Stream[n].of.code)

Writing ==
  engine \in {"respond", "newline"} /\ reply.id # NoId =>
    reply.id = serving /\ Told(serving, reply.code)

Truthful == Heard /\ Underway /\ Writing

\* Once the child has ended or the stream failed nothing is open any more.
Ended ==
  /\ exitSeen \/ endSeen => Gone
  /\ terminal # "none" \/ exitSeen => pending = {}
  /\ closing = "done" => exitSeen

\* What every callback of the client and every step of the engine maintains.
IInv ==
  /\ TypeOK /\ PendingExact /\ LinesReassembled
  /\ Framed /\ InOrder /\ Truthful /\ Ended

\* A promise is settled once: a late answer to a request that timed out, or
\* one that races the child's exit, changes nothing.
SettlesOnce ==
  [][\A i \in Ids : how[i] # "open" => how'[i] = how[i]]_vars

\* "appendBatch success means durably flushed" (docs, modules/sesdb.md): a
\* batch whose caller was told ok is synced, and so is, after an ok to flush,
\* every batch appended before it; an answer never goes to another request.
AckedDurable ==
  \A i \in Ids : how[i] = "ok" =>
    /\ sent[i] = "append" => \E p \in 1..synced : log[p] = i
    /\ sent[i] = "flush" => \A p \in DOMAIN log : log[p] < i => p <= synced

\* What an error tells the caller of appendBatch is true: nothing of the batch
\* is in the store when it may retry, all of it when durability is unknown,
\* nothing when the request was refused.
ErrorsTellTheTruth ==
  \A i \in Ids : sent[i] = "append" =>
    /\ how[i] \in {"retryable", "final", "unwritable"} => i \notin Range(log)
    /\ how[i] = "unknown" => i \in Range(log)

\* When close() has returned the engine is gone, its lock with it, and no
\* promise is open any more, not even that of an oversize request.
ClosedMeansSettled == closing = "done" => Gone /\ pending = {}

\* A request is answered or rejected without its timer, whatever happens to
\* the engine and although it stops while its pipe is full; only an oversize
\* one is not, for its answer carries no id.
AnsweredWithoutTimers ==
  \A i \in 1..MaxRequests :
    (i \in pending /\ sent[i] # "oversize") ~> (i \notin pending)
=============================================================================
