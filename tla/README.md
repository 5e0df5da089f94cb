# TLA+ models of the Universal Session Log

This directory models the parts of the repository that can go wrong in ways
tests hardly reach: the embedded store of `usl-core`, the live capture of
`usl-capture`, the writer of the sesdb daemon with its SQLite sidecar, the review
of memories, the stdio engine with its client, the SDK that finds a daemon and
queries it, and the conversion of sessions between harnesses by `usl-convert`.
Every module is translated from the code; `PROJECT.json` maps each definition to
the lines it stands for.

    tlasany UslStore.tla
    tlc -config UslStore.cfg MCUslStore.tla
    tlapm UslStoreProofs.tla
    tlapm StdioEngineProofs.tla

## 1. The system

| part | code | state | operations | talks to |
|---|---|---|---|---|
| store | `crates/usl-core/src/store.rs`, `recover.rs`, `index.rs`, `format.rs` | one file of CRC-framed records; index, `next_seq`, `data_end`, `session_count` in memory | `create`, `open` (recovery scan), `append`, `append_batch`, `flush`, `get`/`scan*`, `verify` | the file system |
| capture | `crates/usl-capture/src/follow.rs`, `framer.rs`, `capture.rs`, `examples/live_convert.rs` | follower offset, partial line, line count | `poll`, `feed`, `write`, `finish` | a log a harness is writing; a store |
| daemon writer | `crates/sesdb-engine/src/daemon.rs` | L1 (a store), replay state (event ids, checkpoints), `degraded`, `missing_since`, `hot_files`, config | `reconcile_at`, `watch_tick_at`, `reconcile_source`, `retract_missing`, `append_project`, `ensure_projection`, `enable`, `disable`, `propose_memory`, `decide_memory` | provider files, store, sidecar |
| sidecar | `crates/sesdb-engine/src/index.rs` | SQLite tables, `built_through_seq`, `generation` | `project`, `catch_up`, `repair_live`, `rebuild`, queries | L1 |
| providers | `crates/sesdb-engine/src/provider.rs` | none | `discover`, `snapshot`, `parse`, `is_append`, `canonical_id` | provider files |
| HTTP surface | `daemon.rs` from `run` on | descriptor file, tokens, browser codes, page cursors | handlers under one writer mutex; the watcher's loop | writer; clients |
| stdio engine | `crates/sesdb-engine/src/main.rs` | a store under a lock file | one request line at a time | `NdjsonEngine` |
| SDK | `packages/sesdb/src/engine.ts`, `index.ts`, `query.ts`, `bin/sesdbd.rs` | pending requests, buffer; the descriptor file and the lock many processes share | `ensureDaemon`, `request`, `stop`, `query`, `recent`, `raw` | daemon or stdio engine |
| conversion | `packages/usl-convert/src` | an import's open run, declared calls, counters; files on disk | `import`, `verify`, `export` of four harnesses' formats | a log a harness goes on writing |
| evidence | `packages/usl-convert/src/asp-schema`, `evidence.ts`, `materialize.ts` | none | validation, materialization | importers |

One writer mutex serialises all handlers and the watcher's ticks; one lock file
keeps a second process from the store. What is concurrent is everything
outside: harnesses write, rewrite, move and remove their logs at any moment, and
the process can be killed, or the machine lose power, between any two system
calls. What is hard is therefore

* failures in the middle of a multi-step operation (a batch, a flush, a
  projection, a retraction) and what is left in memory after them;
* crashes between the steps, and what a restart rebuilds from disk;
* facts kept in memory only that a later step relies on;
* a log read while it is written, cut in chunks, replaced or truncated;
* processes that meet in one file and one lock, neither of which they hold while
  they decide what to do next;
* four formats with as many notions of a turn, a tool result and a failure, read
  and written by code that keeps a run open over many records.

What makes each component correct: the store keeps what it acknowledged,
readable, dense and immutable, and after a crash what was synced, with nothing
invented; capture records each line of the log once, whole and in order; the
daemon's memory and sidecar are functions of L1, L1 holds an event once, and
searches come to show what the harnesses' files hold; a query answers as of one
moment of a log that grows, and a caller finds a daemon in the end; a converted
session says what the log said, and what a target cannot say is known.
`PROJECT.json` lists the
single places where this can break under `hazards`.

## 2. Modules

### `AppendLog`, `UslStore`, `MCUslStore`, `UslStoreProofs`

`UslStore` is the store. The file is a sequence of cells: cell 0 is the header,
a frame of record `r` takes `FrameSize[r]` cells, each carrying the frame's
sequence number and its own place, so that a frame passes the length and CRC
checks exactly when all its cells are there in order. Torn writes, overwritten
frames and holes are thus visible without bytes.

`open` is three actions (`Open`, `ScanFrame`, `ScanEnd`), `append_batch` five
(`BeginBatch`, `BatchWrite`, `BatchWriteFails`, `Undo` or `UndoFails`,
`BatchDone`), `flush` three (`SyncData`, `WriteHeader`, `WriteHeaderFails`);
`Append1` and `Append1Fails` are `append` on its own. `Kill` keeps all completed
writes. Nothing syncs the `set_len` of a roll back (store.rs:153) or of a recovery
(store.rs:92): until the next `sync_data` the platter may hold the file as it was
before the cut. `undone` has these files, each with the log in it, and `PowerLoss`
picks the present file or one of them (`Versions`), keeps its synced cells and an
arbitrary part of the others. So a batch that was rolled back can come back, even
over appends that followed it. That the cells left behind the synced ones are all of
one version is an assumption about the file system: pages written back one by
one may mix versions. `MixedLoss` (the fault `mixed`) leaves each cell as any of the versions has it;
section 6 says what the store then keeps and what it does not.
`Faults` chooses which failures are injected. `acked`, `stable`, `seen` and
`cutLogs` are history: what callers were told, what a completed sync covers, what a
crash left, what each cut since the last sync took its tail from. The header is one
cell that nothing reads back: `open` derives everything from the frames.

`AppendLog` is what callers are promised: a log that grows, a stable prefix,
after a crash possibly a prefix of the interrupted call, and after a power loss
possibly, behind the stable prefix, a prefix of what was there when a tail was cut
since the last barrier (`withdrawn`). `ImplementsLog`
says that the store implements it under the mapping in `UslStore`: `log` lists the
acknowledged frames in order, `stable` counts those a sync covers, `pending` is what
the call in progress adds (`Pending`), `withdrawn` comes from `cutLogs`.

### `Capture`, `CaptureProofs`

The loop of `live_convert.rs`: `Stat` and `Read` are `FileFollower::poll`,
`Feed`, `DrainLine`, `DrainEnd` and `LineTooLong` are `Framer::feed`,
`SkipBlank`, `AppendLine`, `AppendFails` and `WriteDone` the rest of
`CaptureSession::write`, `Finish` and `FinishFails` are `finish`. The harness
writes byte by byte (`HarnessAppends`), cuts its log back (`HarnessCuts`) and
ends. Framing is about bytes, so the log is a sequence of three of them:
newline, carriage return (which is also what a blank line is made of) and any
other. `LinesOf`, `PartialOf` and `RecordsOf` say what framing the whole stream
at once gives: the reference the incremental code is compared with. The store is
abstracted to its log of records; `UslStore` is the store behind it. With the
path reopened by every poll a rotation is a cut followed by appends. `past` is
history: which mishaps have happened (`race`: growth between `metadata` and
`read_to_end`; `cut`; `late`: growth after the last poll; `cap`; `failure`). All
of them may happen in every run; a property that the code keeps only without
some of them names those.

### `Ingest`, `MCIngest`, `IngestProofs`, `Numbers`

The writer for one provider. A line of a native log is a value with an
identity; two lines with one identity are two revisions of an entity. A file is
a sequence of distinct lines and whether the last one is still open. L1 is a
sequence of evidence, event, checkpoint and visibility records; the sidecar is
the rows of its `events` table and `built_through_seq`. `ProjectAll` says without
a loop what projecting a batch leaves in the table; `SidecarExact` compares it,
over every way a sidecar can come about, with `ProjectRecord` applied to one
record of L1 after the other.

A round is `StartReconcile` (an audit or a reconcile) or `StartTick`, then one
`ReconcileStep` or `TickStep` per source, for an audit then `NoticeMissing` or
`RetractMissing` for each source discovery did not see, then `EndRound`.
Harnesses change files between these steps. `ReconcileSource` is the whole of
`reconcile_source` on the snapshot it took; `AppendProject` has the outcomes of
`append_project`: `Projects`, `ProjectionFails`, `FlushFails`, `AppendFails`.
`KillInBatch` leaves any prefix of the batch in L1, `Kill` falls between steps;
`Restart` and `RestartRebuilds` are `Writer::open` with the two ways the sidecar
can be opened.

Times are left out: an audit may come at any moment and a grace period that has
begun may end at any moment (`GraceEnds`), which contains every timing of the
code. `settled` is history: which sources' present state was taken in; so is
`past`: which kinds of change and failure there were, and whether a retracted
source came back and went again before an audit saw it (`Mishaps`).
A failing `append_batch` is a no-op here: that its roll back really restores
everything is what `UslStore` shows. The two failures it does not restore are
findings of that module and are not repeated in this one.

### `MemoryReview`, `MemoryReviewProofs`

Memories live in L1 as records of their revisions and in the sidecar's `memories`
table. `Propose` and `Decide` are `propose_memory` and `decide_memory`: checks
against the sidecar, then `append_project` of one record with its outcomes
(`Projects`, `AppendFails`, `FlushFails`, `ProjectionFails`, or a kill behind the
append, the flush or the projection). A decision may name any revision, so that
requests of any number of reviewers, retries and stale ones are all there.
`ensure_projection` runs before rounds only, not before decisions: the sidecar a
decision is checked against may lag, and one is then appended and answered with an
error. `EnsureProjection`, `RepairFails`, `Rebuild` and `RebuildFails` are the
repairs; `sidecar.live` is false while the connection is the placeholder of
`rebuild_live`. `acked` is history.

### `StdioEngine`, `StdioEngineProofs`

The other way to a store: `NdjsonEngine` spawns `sesdb-engine` and exchanges lines
with it over two pipes. `Request`, `Timeout`, `WriteFails`, `Data` (a chunk of any
length, `#consume`), `ExitEvent`, `EndEvent`, `ErrorEvent`, `Close` and
`CloseEvent` are the callbacks of the client, one action each, since node runs
each to its end; `how` is what became of each promise. The engine's loop is
`ReadLine`, one of `Refuse`, `RefuseOversize`, `Scan`, `AppendBatch`, `Sync` or
their failures, then `RespondText` and `RespondNewline`, which wait while the pipe
is full. `Kill` ends it at any moment; what it had written can still be read, and
its exit may be noticed before that. The store is its log of batches and how far
it is synced; a roll back always succeeds here and a barrier fails in its sync
(`UslStore` has what happens otherwise). Two requests are enough: what could go
wrong between requests, an answer that settles another one's promise, a batch
behind a failed barrier, an exit between two answers, is between two.

### `SessionQL`, `SessionQLText`, `SesdbClient`, `MCSesdbClient`, `SesdbClientProofs`

`SessionQLText` is the text of a query, parsed and printed: a text is a sequence
of tokens, `Parse` is `parseSessionQL` with every refusal and its code,
`PrintQuery` is `printSessionQL`. `SessionQL` evaluates a plan over rows
(`Execute`), with the type errors the code throws. Before a run TLC evaluates
the assumption `QueriesReadBackHolds` on all texts of up to four tokens behind
`where`, on generated longer ones and on all triples of stages (111,862 texts, of
which 1,403 parse): the printed plan of a text reads back as the plan, unless a
number prints with an exponent. And it evaluates `QueriesAnsweredHolds`: for five
queries, every log of 4 records out of 4 (events with evidence and without, bytes that
do not decode, two records of one event) and every snapshot of it, the rows are the
events of the snapshot that pass every filter, each once, in the order asked for and
as many as the limits allow. What a query makes of its snapshot is a function of it,
so `SesdbClient` stops at the snapshot, and at the refusals, which come before.

`SesdbClient` is several processes with the SDK and one home directory.
`ReadDescriptor`, `CheckHealth`, `Unlink`, `Spawn`, `PollDescriptor`, `PollHealth`
and `Deadline` are `ensureDaemon`, cut where it awaits; `StartDaemon`, `Publish`,
`RemoveDescriptor` and `Exit` are what a daemon does with the lock and the
descriptor; `Crash`, `BecomeBusy` and `Stop` happen at any moment.
`BeginQuery` and `ScanPage`, `BeginRecent` and `ScanRecent`, `BeginRaw` and
`ScanRaw` are one request each, with `Commit` between any two. A daemon's number
stands for its port and token. A number is used again once no process and no
file knows it.

### `Evidence`, `Materializer`, `MCMaterializer`

`Evidence` is the vendored ASP code that usl-convert uses: `ValidEnvelope` with the
tool linkage of messages, and `MaterializeRun`, `MaterializeTurn`,
`MaterializeMessage`, `MaterializeTool`. `Materializer` lets observations of one
entity arrive in any order and more than once. A `filter` of the code is a selection
here: the same observations at the same places, without the others.

### `Bundle`, `ClaudeLog`, `CodexLog`, `PiLog`, `DimagentLog`, `Convert`, `MCConvert`, `ConvertProofs`

`Bundle` is the builder that all importers share, `buildSnapshot`, `sealBundle`
and its verification. The four `*Log` modules have the importer, and for three
harnesses the exporter, of one format: pure functions of a log. `Convert` is the
command line around them: a harness writes (`Write`), the log is imported
(`Import`), grows (`Grow`), the bundle is verified (`Verify`), exported
(`Export`), and the target imports it (`Resume`). `Said`, `DeclaredIn` and
`AnswersIn` read the native logs without the importers: the reference imports
are compared with. Values are sequences of the native pieces they are made of;
event ids are hashes, of which only the order matters, and both orders are taken.
`IsLog` says which logs a harness writes, and a step of the environment leaves a
log (`Write` and `Grow` have it as a guard). This is all it leaves out:

* in every format, a record or block with a value where its type has none;
* codex: a rollout that does not begin with its `session_meta`. Records and payloads
  of any type are logs, `event_msg` of any kind among them;
* pi: a session file that does not begin with its only `session` entry (which has no
  value here: its id, time and directory go to `session.started`, pi.ts:84), and the
  optional `toolResultId` on a message (pi.ts:30). `toolResult` blocks are allowed in
  the message of any role, and may name any call or none;
* claude: results outside user entries or without the id of their call (which are a
  declared loss, claude.ts:152), and thinking and calls outside assistant entries or
  calls without an id. `IsLog` and the theorems
  allow sidechain entries; `MCConvert` generates none;
* dimagent: a result with another id than the one its call stands for.

What `IsLog` allows and an importer does not take is `Refused`, what an importer
takes and drops is `LeftOut`; both are named in `EveryRecordAccounted`.
`ConvertProofs` is about `Materializer` and about `Convert`.

## 3. Runs

Bounds are named constants, in the guards of the actions. Deadlock is checked
in the store's runs. The other runs have `CHECK_DEADLOCK FALSE`: there the
bounded environment may fall silent for good while the system rightly rests
(the loop of `Capture` also ends).

| run | shows | bounds |
|---|---|---|
| `UslStore` | readability, density, count, immutability, durability, the store implements `AppendLog`, what a reopening finds is a part of one log and a roll back is undone by a power loss before the next flush only (`NothingInvented`), and the proofs' invariant, under failed batches, kills and power loss | 3 records in frames of 1 and 2 cells, batches of 2, 2 crashes or failures: a crash during the recovery from a crash, a failed batch before a power loss, with appends in between |
| `UslStoreFaults` | the recovery scan ends and reopening heals, under every failure, handled or not, mixed versions included | 2 records, batches of 1, 3 crashes or failures: a failed append, a power loss, and another that undoes the cut of the recovery |
| `UslStoreHeaderFault` | a violation (section 6) | 3 records, 1 failure |
| `Capture` | what polls return is the log (`DeliversExactly`), framing does not depend on chunks and only whole lines are lost (`IInv`), nothing is missing at the end (`CapturesAll`), outside the mishaps each names; the loop catches up with a silent harness and ends (`CatchesUp`) | logs of up to 2 old bytes, 3 changes, cap 1, 1 failing append: a CRLF, a blank line, a line cut in two, an over-long line fit |
| `Ingest` | once all is taken in, a search finds exactly what the files hold (`SearchSurvives`), and with silent harnesses it comes to do so for good, unless a retracted source came and went between two audits | 2 sources (one that grows in place or has revisions, one that is always rewritten), files of 1 line, hot set of 1, 4 changes (a source comes, is retracted, comes back and goes), 1 failing projection |
| `IngestFaults` | the sidecar is the projection of a prefix of L1; events point at their evidence and the writer's memory agrees with L1 (`IInv`); no event is there twice unless a flush failed; searches show the files unless a rewrite or deletion met a kill or a failing append (`SearchSurvives`) | the same sources and hot set, files of 2 lines, 2 changes, disabling included, 2 failures of all kinds |
| `MemoryReview` | the table is the projection of L1; decisions in L1 were due; a revision is decided with success once, and that stands; reviewers who keep trying get there | 2 memories of up to 4 records, 2 failures of all kinds, a collected record |
| `StdioEngine` | a promise is settled once, by its own answer or a true error; an acknowledged batch or flush is durable; chunks never tear a line; `close` leaves neither an engine nor an open promise; all but an oversize request are settled without their timers | 2 requests of every kind, 2 failures, a pipe of 2 pieces |
| `Convert` | every import says what the log says, in its order (`ImportsTheConversation`), with the tools it answers and their state (`ToolsAnswered`), every reference resolved and no run left open (`PivotWellFormed`); no record disappears (`EveryRecordAccounted`); the way to another harness keeps what `Kept` says (`KeepsConversation`); a bundle verifies exactly against a source that still gives it (`VerifiedIffUnchanged`) | logs of 3 records of 20 kinds (the render stream of codex kept, repeated and unknown, an output without a call, pi results as blocks of one call, of two, or quoted), 2 calls of which one fails, 2 runs, 1 record of growth, both orders of hashes, distinct or equal times |
| `ConvertAbort` | a violation (section 6) | codex logs of 3 records |
| `Materializer` | an entity is a function of the set of its observations; a late, lower one takes nothing back | 17 observations of each of four kinds of entity in two cohorts, revisions and times, 3 arrivals |
| `SesdbClient` | `query` is a snapshot, and its rows are those the plan asks for (an assumption, evaluated first); `recent` and `raw` have no gaps; every caller is served again and again, unless callers keep removing each other's descriptors | 2 callers, 4 daemon numbers, 5 records in pages of 2, a scan limit of 4, 5 queries, 1 crash, stop or busy spell |

Why small bounds are enough: the store's steps look at one frame and its
neighbour, so three frames of two sizes, one of a single cell and one that can be torn,
have every adjacency; the framer looks
at one newline and the byte before it; the writer compares one snapshot with one
checkpoint, so two changes to a source give a checkpoint, a change and a change
of the change (a retraction and what comes after it take four, in `Ingest`), and two sources are needed only where one's failure meets the
other's batch; an importer's state is one open run, one open message and the
calls declared, so three records have each of these open, continued and closed;
`ensureDaemon` of one caller meets another's only in the file and the lock, and
two callers, one that reads and one that only starts and stops, take every
step of it between any two of the other's.

Each property has a mutant in `PROJECT.json`: a variant of one definition
(kept next to it in the module, commented "Mutant") under which TLC finds the
property violated.

## 4. Fairness

* `UslStore!FairSpec`: weak fairness of the two scan steps. `recover_from` is a
  loop without waiting.
* `Capture!FairSpec`: weak fairness of the caller's steps together. The loop
  polls every 10 ms and calls nothing that waits for the harness.
* `Ingest!FairSpec`: strong fairness of `StartReconcile` (the watcher's loop
  asks for an audit every 30 s under the writer mutex; other rounds may hold the
  mutex again and again but each ends), weak fairness of the steps, the end of a
  round and opening together (one of them at a time is what the daemon does
  next; the next client starts a dead one), and of the end of grace periods. No fairness is assumed of harnesses or failures.
* `MemoryReview!FairSpec`: weak fairness of `EnsureProjection` (rounds come every
  few seconds), of `Restart` (the next client starts a dead daemon) and of the
  approval of each memory: `Reviewed` speaks of reviewers who do not give up.
* `StdioEngine!FairSpec`: weak fairness of the engine's loop (it only waits for a
  line or for room in the pipe) and of each of node's events. Not of `Timeout`: the
  liveness property says that timers are not needed.
* `SesdbClient!Fairness`: weak fairness of each process (it runs on), of a child
  that was spawned, and of the daemons' own steps (their main loop looks every
  250 ms, and what holds the writer lock ends); strong fairness of `Deadline`,
  since the clock reaches the deadline of a caller that polls again and again.
  Crashes, stops and busy spells are bounded and have no fairness.

## 5. What is proved

### The store

`UslStoreProofs` proves for every set of records, every frame size and every
bound, under `RecordsAssumption` and `BoundsAssumption`, and, but for `TypeCorrect`
and `Heals`, under `Faults \subseteq HandledFaults` (the failures the store handles):

* `Invariance`: `IInv` is an invariant. The safety properties are not inductive:
  they speak of a moment between calls, and what they say after a crash depends
  on the file. `IInv` adds, for an open store, that the frames of the index lie
  one behind the other with numbers from 0 (`Laid`), are intact and are followed
  by no frame, and what a rollback returns to (`OpenInv`); for a closed one, that
  what a crash may not take is a gapless run of intact frames and that a scan
  starting at `DataStart` can only meet frames of the dead process's log
  (`ClosedInv`, `Closed`); the same of every file a power loss may bring back
  (`UndoneInv`); and how far a running scan has come (`ScanInv`). One
  lemma per action; the operators on files and frames have lemmas of their own
  (`WrittenKeeps`, `ResizedKeeps`, `SurvivingFrames`, `LaidPush`, `LaidClosed`).
* `Readable`, `Dense`, `Counted`: the invariants `CommittedReadable`, `SeqDense`,
  `SessionCountExact`.
* `Durable`, `Invents`, `Immutable`: the action properties
  `NothingDurableLost`, `NothingInvented`, `AppendOnly`. All three take one version
  of the file to survive a power loss (`"mixed"` is not among `HandledFaults`).
  `Invents` does not say that a batch which was rolled back stays away: it says when it may
  come back. What a reopening finds is a part of `seen`, and `seen` is the log of
  the process that died or, after a power loss, one of `cutLogs`, which a completed
  `sync_data` empties.
* `TypeCorrect` and `Heals` hold whatever fails: types, and `ReopenHeals`, which
  needs only what a scan has already checked (`HealInv`), not what it finds.

The same module proves `Refinement`: the store implements `AppendLog`. The
invariant is strengthened once more: at any moment the frames that a sync covers,
those acknowledged and those the file will keep are each a run numbered from 0
(`LogInv`), so that a crash leaves a log between the stable and the whole one.
The mapping lists the records of a run; `RunSplit` and `RunPush` say what that list
becomes when frames are added or cut off. `ScanEnd` is the log's recovery,
`BeginBatch`, `BatchDone` and `Undo` its call, commit and abort, `Append1` its
append, `SyncData` its flush, `Kill` and `PowerLoss` its crashes; the other steps
change nothing a caller sees.

### The stdio transport

`StdioEngineProofs` proves about `StdioEngine`, for every number of requests and
failures, every choice of kinds and every size of the pipe:

* `Invariance`: `IInv` is an invariant. What callers are told is true because it
  was true of each response from the moment the engine began to write it: the
  stream of pieces between the two (`Stream`) is texts and newlines in turn, as far
  as the engine has got (`Framed`); each names a request the engine is done with
  (`Past`) and tells it the truth (`Told`), as does the response being written and
  each promise already settled (`Truthful`). What makes that last is that requests
  are served in order, so that no batch is appended late (`InOrder`).
  `NothingGarbled`, `Consumed` and `Chunk` are the lemmas about a stream read at any
  place; one lemma per step, or per group of steps that disturb the same part.
* `Reassembled`, `Acknowledged`, `Truth`, `Closed`: the invariants
  `LinesReassembled` (a part of `IInv`), `AckedDurable`, `ErrorsTellTheTruth`,
  `ClosedMeansSettled`; `Once`: the action property `SettlesOnce`.

### The collector

`IngestProofs` proves about `Ingest`, for every set of sources and lines, every
choice of operations and failures and every bound, under `IngestAssumption`:

* `Invariance`: `IInv` is an invariant, `NoDuplicates` and `Exactness`: so are
  `NoDuplicatesUnlessFlushFails` and `SidecarExact`. `IInv` is inductive as it
  stands; the other two follow from it step by step. The argument is about
  batches: what `reconcile_source` and `retract_missing` hand to `append_project`,
  and every prefix of it that a kill may leave, points at its own evidence and
  brings ids that are new and distinct (`Acceptable`, `BatchAcceptable`,
  `PrefixAcceptable`). `LogGrows` says what such a batch does to a log.
* What the running writer adds to its memory is what a restart would read:
  `IdsJoined` and `CheckpointsJoined` for the event ids and the last checkpoints of
  a log with a batch behind it, whoever's they are.
* A batch projected in one transaction is its records projected one by one
  (`ProjectAppend`), on top of a sidecar at any place in the log
  (`ProjectionJoined`); so all ways to bring a sidecar up to date agree.

The second half of `IngestProofs` proves `Survival`: `SearchSurvives` is an invariant, for every
set of sources and lines and every bound. Two premises are in the property itself:
the sources do not share lines (`SessionsApart`: `canonical_id` hashes the native
session but not the path, so a moved or copied file is another matter, section 6),
and no mishap of section 6 befell the writer (`Undamaged`). `GoneAssumption` says that a file with nothing in it is not a file
that is gone.

* `ActiveRows` and `FoundIsShown` turn the question into one about the log: with
  `SidecarExact` and without duplicates, a search finds the events that no later
  record hides. An event is hidden by a later revision of its entity or by a
  control of its generation behind it (`Retired`); so a log that holds the lines of
  a file in their order in one generation, and retires every other, shows the
  last revisions of the file (`Recorded`, `ShowsLatest`), and one that retires all
  of a source shows nothing of it (`ShowsNothing`).
* `SearchSurvives` is far from inductive: it speaks of moments at which the writer
  rests. `SearchInv` adds what L1 must hold of every source at every moment,
  settled or not, and why. There are two reasons, and either is enough.
  Where files only grew (`GrowingOK`), L1 holds the first lines of every file, also
  beyond the checkpoint: a kill may leave a part of a batch, and the next batch
  brings exactly the lines that are not there (`FreshInterval`, `GrowsByBatch`).
  Where every batch was appended whole by a writer that kept its memory
  (`RememberingOK`), L1 holds the last snapshot of every source that is not
  retracted, everything older is retired, and what `missing_since` says of a source
  is true of L1: a source that returns is forced exactly if it was retracted.
  Neither holds for ever, and which of them a behaviour keeps is open until the
  other one ends; so the invariant carries both, each under its condition. TLC
  agreed with it on five small instances before it was proved.
* `PieceOfBatch`, `RecordedMore`, `PieceControls` say what part of a batch, cut
  anywhere, adds to a log; `ForeignKeeps` that it changes nothing for other
  sources. `GrowingStep` and `RememberingStep` have one case per action.

Where the data are sequences the induction is by the least counterexample
(`Numbers`, from the library's theorems on well-founded relations): the
library's induction rules take an operator, which the provers cannot instantiate.

### Memory review

`MemoryReviewProofs` proves about `MemoryReview`, for any memories, every choice of
failures and every bound, under `ReviewAssumption`:

* `Invariance`: `IInv` is an invariant; `InOrder` and `Standing`: so are
  `ReviewedInOrder` and `DecisionsStand`. To `ProjectionExact` the inductive
  invariant adds that a record's revision tells its action (in `TypeOK`), that what
  was answered with success is both durable and projected (`AckedKept`), so that
  neither power loss nor a rebuild takes it from the table, and that the ids in L1
  were given out (`GivenOut`).
* `ProjectionReflects` says what a table tells of the log it is the projection of:
  every row comes from a record and none is behind one. A decision checked against
  a lagging sidecar is therefore due in L1 all the same, and no decision can
  succeed twice: after the first the row has left the revision expected.
  `ProjectRest` shows that catching up gives what rebuilding does.

### Capture

`CaptureProofs` proves about `Capture`, for every cap on lines, every log to begin
with and every bound, under `CaptureAssumption`:

* `Invariance`: `IInv` is an invariant; `Delivery` and `Captures`: so are
  `DeliversExactly` and `CapturesAll`. The first is the claim of framer.rs that
  framing does not depend on how the stream is cut: framing a concatenation is
  framing its first part and then the partial line with the second
  (`FramedConcat`, by induction on the second part), and the first line of a buffer
  is what `drain` takes off it (`FirstLine`). So at every step the records, the
  lines still to append and the bytes not yet framed are together the lines of the
  whole stream, until a mishap takes some away.
* "With some elements left out" is proved as the existence of an embedding (`Embeds`,
  `Sub`), for which concatenation is easy (`SubConcat`); the invariants say it by
  taking the first element that fits, as TLC computes it, and `SubGreedy` shows that
  one implies the other.
* What the inductive invariant adds to `IInv` is what finish leaves (`Stored`) and
  that, without the race, what polls returned is the log up to `offset` at every
  moment, not only between polls (`Arrived`).

### Materialization

The first part of `ConvertProofs` is about `Materializer`, for every set of observations of an
entity, under `MaterializerAssumption`: observations are valid envelopes, and an
event id stands for one of them (ids are hashes of session, native event and type).

* `OrderIsFree`: `OrderFree` is an invariant. `Below` is a strict order in which only
  equal ranks cannot be compared (`BelowOrder`), so among finitely many observations
  one is highest (`Highest`), and since `FieldRank` ends in the id it is the only one
  (`OneWinner`). Whatever is read of an entity's observations is read of those that a
  selection leaves and of the winner among them, and neither depends on their places
  (`Selections`, `SameFields`); for messages the linkage of the content is put into the
  correlation first, which changes no rank (`LinkageKeeps`). `SameRun`, `SameTurn`,
  `SameMessage` and `SameTool` put this together: entities of alike cohorts differ in
  the list of their sources only.
* `LateKeeps`: the action property `LateNeverReverts`. A lower observation leaves the
  cohort as it is (`LowerStaysOut`), one of the same rank joins it (`PeerJoins`), and
  then either leaves the ending observations as they were (`PeerKeepsEnds`) or does
  not win over one that ended the entity, since ending comes first in `FieldRank`
  (`EndedWins`).

Where an importer gives two events one id (`SharedIds` in `Convert`) the assumption
does not hold; of such two the first counts.

### Conversion

The second part of `ConvertProofs` is about `Convert`, for every log of every harness, of
any length, whatever the header and the next records are, under `ConvertAssumption`. What
the proofs need of it is `HarnessesWriteLogs`: the harnesses are the four there are, and
what each begins with is one of its logs.

* `Accounting`: `EveryRecordAccounted` is an invariant. An importer is a fold over a
  log. Its builder only ever gains events and never recovers from a refusal
  (`Continues`), so that what a step told the bundle tells (`HasStill`, `TellsStill`).
  A fold is a chain of stages, one after each record (`Iterates`, `Stages`); its steps go
  on from each other, so do the stages (`Folding`), and for each record there is a stage
  that takes it in (`StageOf`). That a fold of the library is such a chain is
  `PiFold`, `CodexFold`, `ClaudeFold` and `DimagentFold`; the folds inside a record,
  over the results or the calls it has, are `ResultFold` and `CallFold`.
* The other half of the argument is that nothing throws: each event an importer emits for
  a log is a valid envelope (`ValidByKind`, `ValidMessage`). The hard part is the
  linkage of tools, by which a message that has two calls, or names another one than its
  block, is refused: `AboutOne` is what all messages here satisfy, and `ClaudeAnswers`,
  `CodexItems`, `PiMessages` and `RowAbout` show it. `Refused` are the exceptions: a
  message of pi or a row of dimagent that has a call or result without an id, or is
  about two calls, and a pi message without an id. The theorem says that nothing else
  makes an import throw, and `NotAtOdds` that a record which is not `AtOdds` with itself
  is about one call.
* What an import drops (`LeftOut`) is of codex only. An output without a call must be
  among the losses the bundle declares, so the invariant of the builder follows those
  too. Of the render stream the property claims no such thing, see section 6.
* `ClaudeSteps` tells all entries of a message at the last of them, where the
  timeline has it; `ClaudeSpokenFor` finds that entry for each. `ParsedRows` shows that
  ordering the rows by their keys loses none, although keys repeat.
* `Verification`: the action property `VerifiedIffUnchanged`. A bundle names its source
  (`ImportNamesSource`), and one that an import made is valid; so a verification passes if
  and only if the artifact on disk is the log that was imported. A bundle whose import
  threw is never verified.
* `SessionInv` is the invariant of both: after the import, the bundle is what the
  importer makes of some log of the harness, each record of which is in the log now, since
  a log only grows. That the log is still one keeps it so (`LogsAreRows`).

### Reads

`SesdbClientProofs` proves `Snapshots`: `ReadsAreSnapshots` is an invariant of
`SesdbClient`, for every set of callers and daemons, every log, page size and limit,
under `SesdbClientAssumption` (logs are sequences, a page has at least one record).

* `ReadInv` is inductive. A call on its way has, in order and once each, everything
  it looks for before the page it asks for next (`Scanning`); a query never asks for
  a page beyond the end of its snapshot; a call that was answered has everything up
  to some record no earlier than its beginning (`Reached`). None of this can be
  undone by what is appended (`Grows`).
* `PageIs` says what a page is, whatever the log holds by then: without more it lists
  all there is, with more it is full and lists what there is up to where the next one
  begins, and that is further on; so a loop never stops on `nextFromSeq <= fromSeq`
  with something left. `ListsCut` is the cut at the end of the snapshot, `ListsConcat`
  the next page behind the last. That recent() with one page always reaches the end
  of what was there follows from the page being full (`ScanRecentKeeps`).

### Only model-checked

Of `Convert`: `ImportsTheConversation`, `ToolsAnswered`, `PivotWellFormed` and
`KeepsConversation`. They compare sequences that two computations over a whole log make
in their order (the importer's, sorted and materialized, and the reference's), where
`EveryRecordAccounted` asks for each record only whether its values are there.
What `SessionQL` makes of a snapshot: it is recursive, which the prover does not take.
And every liveness property: liveness under fairness is outside the prover's reach.

## 6. Where code and texts disagree

Two are runs that TLC finds violated; `PROJECT.json` quotes the sentences.

* `UslStoreHeaderFault`: after a failed header write the cursor stays in the
  header and later appends destroy acknowledged frames.
* `ConvertAbort`: a codex turn that was aborted is closed again, as completed,
  by whatever comes next (codex.ts:133), and is imported as completed when that
  is later.

Four more are steps that the passing runs go through; with the constants named,
TLC finds the property violated:

* A log that grows between `metadata` and `read_to_end` is delivered twice
  (follow.rs:68): `Capture`, with `Spec`, `MaxLine = 9`, `MaxOld = 2`, `MaxBytes = 2`,
  `MaxFailures = 0` and the property `NewBytesOnly`.
* After a failed flush the same events are appended again (daemon.rs:629):
  `Ingest` with one source of one line, `MaxChanges = 2`, `Ops = {}`,
  `Faults = {"flush"}`, and `NoDuplicateEvents`.
* A moved file's session disappears (daemon.rs:346): two sources that share their
  lines, both able to append, `MaxHot = 2`, `MaxChanges = 3`, `Ops = {"delete"}`,
  `Faults = {}`, and `SearchMatchesSources`.
* A rebuild that fails while nothing lags leaves all queries failing until
  something is appended or the daemon restarts (index.rs:216): `MemoryReview` with
  `Failures = {"rebuild"}` and `RepairsItself`.

More behaviours of store and capture, which the runs go through as well:

* `append` outside a batch does not restore after a failed write; records appended
  later cannot be read (store.rs:122). With `Faults = {"plain"}`, `MaxFaults = 1` and
  `MaxRecords = 3`, `CommittedReadable` is violated; hence the condition of the
  proofs and of the run `UslStore`.
* A batch that was rolled back, whose caller was told so, can be in the log again
  after a power loss, and what was appended after it is then gone: the file that
  store.rs:140 says is restored is the page cache's until the next flush
  (store.rs:153). `PowerLoss` does this with an element of `undone`.
* The scan takes any frame whose CRC is right, not only one whose number is the next
  (recover.rs:97). If a power loss mixes pages from before and after a cut, a frame
  of a withdrawn batch can follow a frame of a later one, or be reached again behind
  a hole that an append later fills. With `Faults = {"mixed"}`, `MaxFaults = 2` and
  `MaxRecords = 3` `SeqDense` is violated, with `"write"` and `MaxFaults = 3` so is
  `NothingInvented`; `AppendLog` has no such step. What was synced is
  still there and what a reopening lists can be read: with `Faults = {"write", "mixed"}`,
  `MaxFaults = 2` and `MaxRecords = 2` `NothingDurableLost` and `CommittedReadable`
  hold.
* Complete lines fed together with an over-long one are lost, so that framing does
  depend on the chunks (framer.rs:52, against framer.rs:3); hence `cap` in `past`.
* A log cut back and grown past `offset` between two polls, or rotated to one at
  least as long, is read from its middle, although data-flow.md:35 says it is read
  from the start (follow.rs:59); hence `cut` in `past`.
* A decision that was answered with an error may be in L1, and its retry is appended
  again with the same revision, although data-flow.md:71 says that a stale revision
  is refused: the sidecar it is checked against lags (daemon.rs:722).

Seven more behaviours of the writer are steps of `Ingest` that the runs pass
through, and but for the last two they are the reason for the conditions of
`SearchSurvives` and `EventuallyConsistent` (`Undamaged`). With one source, files
of one line and the constants named, `SearchMatchesSources` is violated by
each of the first four. The third and the fifth also stand against the delivery
roadmap's sentence that the audit makes collection eventually consistent (A3):
there `<>[](Found = Expected)` is violated under `FairSpec`, after the harness has
fallen silent.

* `Ops = {"delete"}`, `Faults = {"kill"}`, 3 changes: a source that was
  retracted and reappears unchanged after a restart stays hidden, since what
  `missing_since` knew is gone and the snapshot equals the checkpoint
  (daemon.rs:323, 469).
* `Ops = {"rewrite"}`, `Faults = {"torn"}`, 2 changes: a kill inside the first
  batch of a source, then a rewrite: generation 1 is begun again without a
  visibility control and events of the old content stay visible (daemon.rs:483).
* `Ops = {"delete"}`, `Faults = {"append"}`, 2 changes: a retraction whose append
  failed is recorded as done (daemon.rs:349).
* `Ops = {"delete"}`, `Faults = {}`, 5 changes: an audit takes the mark off a
  retracted source that is back (daemon.rs:323) before it takes its snapshot; if
  the file is gone again by then, and returns within the grace period, nothing
  forces its reconciliation and it stays hidden.
* `Ops = {"delete"}`, `Faults = {}`, 4 changes: a watch tick takes in a retracted
  source that is back, but leaves it marked as retracted (daemon.rs:395); deleted
  again before an audit, it is skipped by the audits (daemon.rs:339) and its
  events stay visible for as long as it is gone.
* After a failed projection the round goes on appending its other sources,
  although the delivery roadmap says collection stops (`ProjectionFails` leaves
  `round` as it is; daemon.rs:327).
* A disabled provider's hot sources are still read by watch ticks (`StartTick`;
  daemon.rs:401).

Of the SDK:

* Callers that find a daemon dead or busy remove the descriptor by name, whatever
  it says by then (engine.ts:158): the fresh daemon of another caller loses its
  descriptor and exits, and two callers can go on doing that to each other. A
  daemon that holds its writer lock for longer than a health check waits is
  treated as stale. Without its condition (`RemovesLive`) `EveryCallerServed` is
  violated.
* `stop` returns up to 250 ms before the old process frees the lock; a start in
  between finds it taken and polls until its deadline.
* `printSessionQL` gives a text that does not parse for a number that
  `JSON.stringify` writes with an exponent (query.ts:296), and a parameter named as
  a keyword (`$not`, `$in`) is taken for it (query.ts:123). The keys of a sort are
  not checked against the fields of events, those of `where` and `project` are.

Of the conversion, all of them conditions or exceptions named in the properties:

* A message of a dimagent export loses its place when there are more than 10,000
  of them, since the key's number wraps (dimagent.ts:299), and runs that begin at
  one instant are exported in the order of their hashes (`SameInstant`).
* Entries of one native entry and type share an event id and become one entry of
  a pi log (`SharedIds`).
* codex keeps no failure of a tool result, dimagent only one the result itself
  states; neither has a system speaker's text, codex none of any other speaker, and
  no target that of a tool message without a call (`Kept`).
* A dimagent row with results of two different calls makes the whole import throw
  (dimagent.ts:165), and so do, in a pi session, `toolResult` blocks of two calls in
  one message, of another call than the message's, or without an id (pi.ts:42,
  `Refused`).
* A result that a message of another role than tool quotes is in the evidence and in
  the message, but makes no tool, and is lost on the way to any target (`Kept`).
* Of codex' render stream only `token_count` and `turn_aborted` are kept. Three more
  kinds repeat response items; any other kind (say `stream_error`) has no counterpart
  and leaves neither evidence nor an entry in `loss` (codex.ts:128-137, `LeftOut`).
  data-flow.md:28 says that `conformance` requires for each record evidence, an
  explicit loss or a deterministic failure. It does pass such a record as a declared
  loss, but only since the fidelity texts of other axes contain the word `event_msg`
  (conformance.ts:51-55). `EveryRecordAccounted` says what is claimed of such records:
  this, and nothing about their values.
* `conformance` accounts for every Claude entry by its session id and for every
  codex record by its type, so that it can hardly fail for these two;
  `EveryRecordAccounted` compares the values themselves.

## 7. Not modelled

Bytes of frames and JSON (a frame is intact or not); hashing (ids are injective);
wording and layout of answers; file permissions. In `Ingest` one provider
stands for all, since providers share the log and the mutex but no source, and a
snapshot is one step, although a multi-file source is read file by file.

* Branches left out of functions that are modelled, none of which a property here
  depends on: `toolUseResult` of an entry, read when a result block has no content
  (claude.ts:157); `thinking` and a missing turn index in materialized entities, the
  index being 0 instead (materializer.ts:191, 155); the order of two refusals over
  several parameters of a query (index.ts:298); a source whose snapshot or parse fails,
  which is skipped until the next round (daemon.rs:453, 498; provider.rs:1028); a daemon
  that cannot be spawned or cannot start for another reason than the lock, and a
  descriptor that is not JSON or not private (engine.ts:141, 167; daemon.rs:790): all
  three end the call with an error. `content` of codex reasoning (codex.ts:163) is
  kept and written back beside `encrypted_content`, which stands for both.
* Several cohorts of one entity: no importer emits them, so `OrderFree` and
  `LateNeverReverts` state the contract of the vendored materializer, of which
  `Convert` uses a part.
* A power loss under the stdio engine, and a failing roll back there: both are in
  `UslStore` only.
* The parsers of `provider.rs`: a line has an identity, whatever the format. Their
  hazards (two records with one identity) are about data, not steps.
* The sessions and full-text tables of the sidecar, its switch of files in
  `rebuild`, and the signed page cursors of the catalogue (daemon.rs:1606).
* Tokens and browser codes of the HTTP surface, the approvals and memories
  commands of the CLI, `explain` and ranges of evidence in query results.
* Of the ASP schema: approvals, control requests and actions, and projections to
  snapshots, which no importer here emits; of usl-convert: artifacts, and the
  SQLite transaction that writes a dimagent session.
* `usl-fuse` (paused), console, site, scripts, benchmarks and the architecture
  page: presentation and generators, without state a property could be about.

## 8. What is left

In this order: `PageCursor`, signed cursors against
catch-up and rebuild; `SidecarFile`, the switch of files with kills, composed with
`Ingest`; the identities of the five provider formats.
