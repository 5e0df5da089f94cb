------------------------------- MODULE Ingest -------------------------------
(***************************************************************************)
(* The writer of the sesdb daemon (crates/sesdb-engine, daemon.rs) for one *)
(* provider: it discovers the session logs of a harness, appends what is   *)
(* new in them to the L1 log and projects the log into the SQLite sidecar  *)
(* that searches read.  What the writer knows is replayed from L1 when it  *)
(* opens; the times since when a source is missing and the hot set are in  *)
(* memory only.                                                            *)
(*                                                                         *)
(* One lock serialises the handlers, so one round (a reconcile, an audit   *)
(* or a watch tick) runs at a time, but harnesses change their files       *)
(* between its steps and the daemon may be killed at each of them.  L1 is  *)
(* the log of UslStore: append_batch is all or nothing unless a kill cuts  *)
(* it, and then any prefix of the batch may stay.  A line of a native log  *)
(* is a value: two lines are equal when their bytes are.  Clock times are  *)
(* left out: an audit may happen at any moment, and a grace period that    *)
(* has begun may end at any moment.                                        *)
(***************************************************************************)
EXTENDS Integers, Sequences, SequencesExt, FiniteSets

CONSTANTS
  Sources,       \* source paths below the provider's root
  Lines,         \* native lines
  LinesAt,       \* LinesAt[s]: the lines a harness may write to s
  Identity,      \* Identity[l]: native_identity of line l
  AppendCapable, \* sources of one plain file: growth is recognised
  Gone,          \* the state of a source without a file
  MaxHot,        \* MAX_HOT_FILES
  MaxLines,      \* bound: lines in a file
  MaxChanges,    \* bound: changes harnesses make
  MaxFaults,     \* bound: failures and kills
  Ops,           \* what harnesses and users do, a subset of AllOps
  Faults         \* what may go wrong, a subset of AllFaults

AllOps == {"rewrite", "delete", "disable"}
\* A failing append_batch, flush or SQLite transaction; a kill between two
\* steps, a kill in append_project.
AllFaults == {"append", "flush", "project", "kill", "torn"}
\* A source that was retracted came back and went before an audit saw it.
Mishaps == {"fleeting"}

ASSUME IngestAssumption ==
  /\ LinesAt \in [Sources -> SUBSET Lines]
  /\ DOMAIN Identity = Lines
  /\ AppendCapable \subseteq Sources
  /\ MaxHot \in Nat \ {0} /\ MaxLines \in Nat
  /\ MaxChanges \in Nat /\ MaxFaults \in Nat
  /\ Ops \subseteq AllOps /\ Faults \subseteq AllFaults

VARIABLES
  files,     \* the provider's files
  enabled,   \* Config.providers[..].enabled
  log,       \* L1
  sidecar,   \* the SQLite file: rows of table events, built_through_seq
  up,        \* the daemon runs
  eventIds,  \* ReplayState.event_ids
  sources,   \* ReplayState.sources: the last checkpoint of each path
  degraded,  \* Writer.degraded
  missing,   \* Writer.missing_since
  hot,       \* Writer.hot_files
  round,     \* the round in progress
  settled,   \* history: sources whose present state was taken in
  changes,   \* changes made by harnesses
  faults,    \* failures and kills
  past       \* history: which of Ops, Faults and Mishaps have happened

replay == <<eventIds, sources>>
memory == <<replay, degraded, missing, hot>>
trouble == <<faults, past>>
bounds == <<changes, trouble>>
vars == <<files, enabled, log, sidecar, up, memory, round, settled, bounds>>

-----------------------------------------------------------------------------
(***************************************************************************)
(* Files.  open: the last line still lacks its newline (or, in a plain     *)
(* file, the rest of its bytes).                                           *)
(***************************************************************************)
Injective(ls) == \A i, j \in DOMAIN ls : ls[i] = ls[j] => i = j

Contents(s) ==
  [lines : {ls \in BoundedSeq(LinesAt[s], MaxLines) : Injective(ls)},
   open : BOOLEAN]

ContentOf(s) ==
  {c \in Contents(s) : c.open => s \in AppendCapable /\ c.lines # <<>>}

\* A file that holds nothing is not a file that is gone.
ASSUME GoneAssumption == \A s \in Sources : Gone \notin ContentOf(s)

\* complete_offset, in lines.
Completed(c) == IF c.open THEN Len(c.lines) - 1 ELSE Len(c.lines)

\* Mutant: a longer file is taken for a grown one.
IsAppend_ByLength(old, new) == Len(old.lines) <= Len(new.lines)

\* is_append: the bytes of old are a prefix of those of new.
IsAppend(old, new) ==
  /\ IsPrefix(old.lines, new.lines)
  /\ old.lines = new.lines /\ new.open => old.open

-----------------------------------------------------------------------------
(* L1 records, replay and projection.                                      *)

Evidence(s, g, l) == [kind |-> "evidence", src |-> s, gen |-> g, line |-> l]
Event(s, g, l, n) ==
  [kind |-> "event", src |-> s, gen |-> g, line |-> l, evidence |-> n]
Checkpoint(s, g, c) == [kind |-> "checkpoint", src |-> s, gen |-> g, snap |-> c]
Visibility(s, g) == [kind |-> "visibility", src |-> s, gen |-> g]

OfKind(recs, k) == {i \in DOMAIN recs : recs[i].kind = k}

\* canonical_id: provider, native session, generation, identity, type and
\* digest of the line, and not the path.
IdOf(r) == <<r.gen, r.line>>

IdsIn(recs) == {IdOf(recs[i]) : i \in OfKind(recs, "event")}

\* Mutant: only events before the last checkpoint count.
ReplayedIds_Checkpointed(recs) ==
  {IdOf(recs[i]) : i \in {j \in OfKind(recs, "event") :
                            \E k \in OfKind(recs, "checkpoint") : j < k}}

ReplayedIds(recs) == IdsIn(recs)

LastCheckpoint(recs, s) ==
  LET of == {i \in OfKind(recs, "checkpoint") : recs[i].src = s}
  IN  recs[CHOOSE i \in of : \A j \in of : j <= i]

CheckpointsIn(recs) ==
  [s \in {recs[i].src : i \in OfKind(recs, "checkpoint")} |->
     [gen |-> LastCheckpoint(recs, s).gen, snap |-> LastCheckpoint(recs, s).snap]]

\* The row goes inactive: a visibility control names its generation, or an
\* event is a newer revision of its entity.
Hides(r, row) ==
  /\ r.kind \in {"event", "visibility"}
  /\ r.src = row.src /\ r.gen = row.gen
  /\ r.kind = "event" => Identity[r.line] = Identity[row.line]

Row(r, active) ==
  [src |-> r.src, gen |-> r.gen, line |-> r.line, active |-> active]

\* project_record, as far as the table of events goes: rows are hidden, then
\* the event is inserted unless its event_id is there.
ProjectRecord(rows, r) ==
  LET kept == {[row EXCEPT !.active = @ /\ ~Hides(r, row)] : row \in rows}
  IN  IF r.kind = "event" /\ ~\E row \in rows : IdOf(row) = IdOf(r)
      THEN kept \cup {Row(r, TRUE)} ELSE kept

\* Sidecar::project and catch_up: project_record for each of recs in turn.
\* Said without the loop: of the events with one id the first is inserted, and
\* a row is active as long as no record behind it hides it.
ProjectAll(rows, recs) ==
  LET hidden(row, n) == \E k \in n..Len(recs) : Hides(recs[k], row)
      inserted == {i \in OfKind(recs, "event") :
                     /\ ~\E row \in rows : IdOf(row) = IdOf(recs[i])
                     /\ \A k \in OfKind(recs, "event") :
                          IdOf(recs[k]) = IdOf(recs[i]) => i <= k}
  IN  {[row EXCEPT !.active = @ /\ ~hidden(row, 1)] : row \in rows}
      \cup {Row(recs[i], ~hidden(Row(recs[i], TRUE), i + 1)) : i \in inserted}

\* Sidecar::catch_up against recs.  A rebuild gives ProjectAll({}, recs).
CaughtUp(sc, recs) ==
  [rows |-> ProjectAll(sc.rows, SubSeq(recs, sc.built + 1, Len(recs))),
   built |-> Len(recs)]

-----------------------------------------------------------------------------
Idle == [kind |-> "idle", todo |-> {}, seen |-> {}, absent |-> {}]

Init ==
  /\ files = [s \in Sources |-> Gone]
  /\ enabled = TRUE
  /\ log = <<>>
  /\ sidecar = [rows |-> {}, built |-> 0]
  /\ up = TRUE
  /\ eventIds = {}
  /\ sources = <<>>
  /\ degraded = FALSE
  /\ missing = [s \in Sources |-> "no"]
  /\ hot = {}
  /\ round = Idle
  /\ settled = {}
  /\ changes = 0
  /\ faults = 0
  /\ past = {}

Happened(o) == past' = past \cup {o}

Fault(f) ==
  /\ f \in Faults
  /\ faults < MaxFaults
  /\ faults' = faults + 1
  /\ Happened(f)

(***************************************************************************)
(* The world: harnesses write, replace and remove their logs at any time;  *)
(* a user switches the provider off and on between rounds.                 *)
(***************************************************************************)
Changes(s, c) ==
  /\ changes < MaxChanges
  /\ changes' = changes + 1
  /\ files' = [files EXCEPT ![s] = c]
  /\ settled' = settled \ {s}
  /\ UNCHANGED <<enabled, log, sidecar, up, memory, round, faults>>

HarnessCreates(s) ==
  /\ files[s] = Gone
  /\ \E c \in ContentOf(s) : Changes(s, c)
  /\ UNCHANGED past

HarnessAppends(s) ==
  /\ files[s] # Gone
  /\ \E c \in ContentOf(s) : c # files[s] /\ IsAppend(files[s], c) /\ Changes(s, c)
  /\ UNCHANGED past

HarnessRewrites(s) ==
  /\ "rewrite" \in Ops
  /\ files[s] # Gone
  /\ \E c \in ContentOf(s) : ~IsAppend(files[s], c) /\ Changes(s, c)
  /\ Happened("rewrite")

HarnessDeletes(s) ==
  /\ "delete" \in Ops
  /\ files[s] # Gone
  /\ Changes(s, Gone)
  /\ past' = past \cup {"delete"}
                  \cup (IF missing[s] = "retracted" THEN {"fleeting"} ELSE {})

Toggle ==
  /\ "disable" \in Ops
  /\ up /\ round = Idle
  /\ changes < MaxChanges
  /\ changes' = changes + 1
  /\ enabled' = ~enabled
  /\ Happened("disable")
  /\ UNCHANGED <<files, log, sidecar, up, memory, round, settled, faults>>

\* The five seconds of the deletion grace are over.
GraceEnds(s) ==
  /\ up
  /\ missing[s] = "since"
  /\ missing' = [missing EXCEPT ![s] = "due"]
  /\ UNCHANGED <<files, enabled, log, sidecar, up, replay, degraded, hot>>
  /\ UNCHANGED <<round, settled, bounds>>

-----------------------------------------------------------------------------
(***************************************************************************)
(* append_project: append_batch, flush, replay, projection.  Each outcome  *)
(* says whether the call returned Ok.                                      *)
(***************************************************************************)
Replayed(recs) ==
  /\ eventIds' = eventIds \cup IdsIn(recs)
  /\ sources' = [s \in DOMAIN sources \cup DOMAIN CheckpointsIn(recs) |->
                   IF s \in DOMAIN CheckpointsIn(recs)
                   THEN CheckpointsIn(recs)[s] ELSE sources[s]]

\* Mutant: project takes any batch, contiguous or not.
Projects_IgnoresGap(recs) ==
  /\ log' = log \o recs
  /\ Replayed(recs)
  /\ sidecar' = [rows |-> ProjectAll(sidecar.rows, recs), built |-> Len(log')]
  /\ degraded' = FALSE
  /\ UNCHANGED trouble

Projects(recs) ==
  /\ sidecar.built = Len(log)
  /\ log' = log \o recs
  /\ Replayed(recs)
  /\ sidecar' = [rows |-> ProjectAll(sidecar.rows, recs), built |-> Len(log')]
  /\ degraded' = FALSE
  /\ UNCHANGED trouble

\* The transaction fails, or the sidecar lags behind the batch.
ProjectionFails(recs) ==
  /\ log' = log \o recs
  /\ Replayed(recs)
  /\ degraded' = TRUE
  /\ IF sidecar.built # Len(log) THEN UNCHANGED trouble ELSE Fault("project")
  /\ UNCHANGED sidecar

\* flush fails: the batch is in L1, and nobody is told.
FlushFails(recs) ==
  /\ Fault("flush")
  /\ log' = log \o recs
  /\ UNCHANGED <<sidecar, replay, degraded>>

\* append_batch fails and rolls back.
AppendFails(recs) ==
  /\ Fault("append")
  /\ UNCHANGED <<log, sidecar, replay, degraded>>

AppendProject(recs, ok) ==
  IF ok THEN Projects(recs)
  ELSE ProjectionFails(recs) \/ FlushFails(recs) \/ AppendFails(recs)

-----------------------------------------------------------------------------
(***************************************************************************)
(* reconcile_source.                                                       *)
(***************************************************************************)
Known(s) == s \in DOMAIN sources

Grew(s, force) ==
  /\ ~force
  /\ s \in AppendCapable
  /\ Known(s)
  /\ IsAppend(sources[s].snap, files[s])

NothingNew(s, force) ==
  \/ ~force /\ Known(s) /\ sources[s].snap = files[s]
  \/ Grew(s, force) /\ Completed(files[s]) <= Completed(sources[s].snap)

GenerationFor(s, force) ==
  IF ~Known(s) THEN 1
  ELSE IF Grew(s, force) THEN sources[s].gen ELSE sources[s].gen + 1

\* Where the lines parsed from the committed offset on are whose event is not
\* in L1.
Fresh(s, force) ==
  LET from == IF Grew(s, force) THEN Completed(sources[s].snap) ELSE 0
  IN  {i \in (from + 1)..Completed(files[s]) :
         <<GenerationFor(s, force), files[s].lines[i]>> \notin eventIds}

\* The n-th of the numbers in I, and the new lines in the order of the file.
Nth(I, n) == CHOOSE i \in I : Cardinality({j \in I : j <= i}) = n

NewLines(s, force) ==
  LET fresh == Fresh(s, force)
  IN  [n \in 1..Cardinality(fresh) |-> files[s].lines[Nth(fresh, n)]]

\* The visibility control that precedes a new generation.
Superseded(s, force) ==
  IF Known(s) /\ ~Grew(s, force) THEN <<Visibility(s, sources[s].gen)>> ELSE <<>>

\* Mutant: evidence_seq is taken after the evidence was pushed.
Batch_EvidenceOffByOne(s, force) ==
  LET g == GenerationFor(s, force)
      new == NewLines(s, force)
      control == Superseded(s, force)
      event(i) == Event(s, g, new[i], Len(log) + Len(control) + 2 * i)
  IN  control
      \o [i \in 1..(2 * Len(new)) |->
            IF i % 2 = 1 THEN Evidence(s, g, new[(i + 1) \div 2]) ELSE event(i \div 2)]
      \o <<Checkpoint(s, g, files[s])>>

\* The records of one reconciliation: control, evidence and event of each new
\* line, checkpoint.  An event names the seq its evidence is going to have.
Batch(s, force) ==
  LET g == GenerationFor(s, force)
      new == NewLines(s, force)
      control == Superseded(s, force)
      event(i) == Event(s, g, new[i], Len(log) + Len(control) + 2 * i - 2)
  IN  control
      \o [i \in 1..(2 * Len(new)) |->
            IF i % 2 = 1 THEN Evidence(s, g, new[(i + 1) \div 2]) ELSE event(i \div 2)]
      \o <<Checkpoint(s, g, files[s])>>

ReconcileSource(s, force, ok) ==
  IF NothingNew(s, force)
  THEN ok /\ UNCHANGED <<log, sidecar, replay, degraded, trouble>>
  ELSE \E recs \in {Batch(s, force)} : AppendProject(recs, ok)

-----------------------------------------------------------------------------
(***************************************************************************)
(* Rounds.  Every round begins with ensure_projection.                     *)
(***************************************************************************)
Present == {s \in Sources : files[s] # Gone}

\* ensure_projection succeeds: the sidecar is at the end of L1.
EnsureProjection ==
  /\ sidecar' = CaughtUp(sidecar, log)
  /\ degraded' = FALSE

\* reconcile_at, up to the loop over the discovered sources.
StartReconcile ==
  /\ up /\ round = Idle
  /\ EnsureProjection
  /\ round' = [kind |-> "reconcile",
               todo |-> IF enabled THEN Present ELSE {},
               seen |-> IF enabled THEN Present ELSE Sources,
               absent |-> {}]
  /\ UNCHANGED <<files, enabled, log, up, replay, missing, hot, settled, bounds>>

\* watch_tick_at between audits: the hot sources, whoever they belong to, and
\* those of an enabled provider that a hint names.
StartTick ==
  /\ up /\ round = Idle
  /\ EnsureProjection
  /\ \E hinted \in SUBSET (IF enabled THEN Present ELSE {}) :
       round' = [kind |-> "tick", todo |-> hot \cup hinted, seen |-> {}, absent |-> {}]
  /\ UNCHANGED <<files, enabled, log, up, replay, missing, hot, settled, bounds>>

\* The repair that a round begins with fails: no round.
RepairFails ==
  /\ up /\ round = Idle
  /\ degraded \/ sidecar.built # Len(log)
  /\ Fault("project")
  /\ degraded' = TRUE
  /\ UNCHANGED <<files, enabled, log, sidecar, up, replay, missing, hot>>
  /\ UNCHANGED <<round, settled, changes>>

\* remember_hot: the set keeps the MaxHot latest modified sources.
RememberHot(s) ==
  IF Cardinality(hot \cup {s}) <= MaxHot THEN hot' = hot \cup {s}
  ELSE \E out \in hot \cup {s} : hot' = (hot \cup {s}) \ {out}

\* Mutant: a source that reappears is treated as if it had never gone.
ReconcileStep_NeverForced(s, ok) ==
  /\ up /\ round.kind = "reconcile"
  /\ s \in round.todo
  /\ RememberHot(s)
  /\ missing' = [missing EXCEPT ![s] = "no"]
  /\ IF files[s] = Gone THEN ~ok /\ UNCHANGED <<log, sidecar, replay, degraded, trouble>>
     ELSE ReconcileSource(s, FALSE, ok)
  /\ round' = [round EXCEPT !.todo = @ \ {s}]
  /\ settled' = IF ok THEN settled \cup {s} ELSE settled
  /\ UNCHANGED <<files, enabled, up, changes>>

\* One source of reconcile_at's first loop; the snapshot of a file that is
\* gone by now fails.
ReconcileStep(s, ok) ==
  /\ up /\ round.kind = "reconcile"
  /\ s \in round.todo
  /\ RememberHot(s)
  /\ missing' = [missing EXCEPT ![s] = "no"]
  /\ IF files[s] = Gone THEN ~ok /\ UNCHANGED <<log, sidecar, replay, degraded, trouble>>
     ELSE ReconcileSource(s, missing[s] = "retracted", ok)
  /\ round' = [round EXCEPT !.todo = @ \ {s}]
  /\ settled' = IF ok THEN settled \cup {s} ELSE settled
  /\ UNCHANGED <<files, enabled, up, changes>>

\* One candidate of a watch tick.
TickStep(s, ok) ==
  /\ up /\ round.kind = "tick"
  /\ s \in round.todo
  /\ IF files[s] = Gone THEN ~ok /\ UNCHANGED <<log, sidecar, replay, degraded, trouble>>
     ELSE ReconcileSource(s, FALSE, ok)
  /\ round' = [round EXCEPT !.todo = @ \ {s}]
  /\ UNCHANGED <<files, enabled, up, missing, hot, settled, changes>>

\* Sources with a checkpoint that discovery did not see.
Unseen == DOMAIN sources \ (round.seen \cup round.absent)

LooksAt(s) ==
  /\ up /\ round.kind = "reconcile"
  /\ round.todo = {}
  /\ s \in Unseen
  /\ round' = [round EXCEPT !.absent = @ \cup {s}]
  /\ UNCHANGED <<files, enabled, up, hot, changes>>

\* reconcile_at's second loop: the grace begins, or has not ended, or s was
\* retracted before.
NoticeMissing(s) ==
  /\ LooksAt(s)
  /\ missing[s] # "due"
  /\ missing' = IF missing[s] = "no" THEN [missing EXCEPT ![s] = "since"] ELSE missing
  /\ UNCHANGED <<log, sidecar, replay, degraded, settled, trouble>>

\* retract_missing, whose failure does not keep s from being marked.
RetractMissing(s, ok) ==
  /\ LooksAt(s)
  /\ missing[s] = "due"
  /\ AppendProject(<<Visibility(s, sources[s].gen)>>, ok)
  /\ missing' = [missing EXCEPT ![s] = "retracted"]
  /\ settled' = IF ok /\ files[s] = Gone THEN settled \cup {s} ELSE settled

EndRound ==
  /\ up /\ round # Idle
  /\ round.todo = {}
  /\ round.kind = "reconcile" => Unseen = {}
  /\ round' = Idle
  /\ UNCHANGED <<files, enabled, log, sidecar, up, memory, settled, bounds>>

-----------------------------------------------------------------------------
(***************************************************************************)
(* Kill and restart.                                                       *)
(***************************************************************************)
Forgets ==
  /\ up' = FALSE
  /\ eventIds' = {}
  /\ sources' = <<>>
  /\ degraded' = FALSE
  /\ missing' = [s \in Sources |-> "no"]
  /\ hot' = {}
  /\ round' = Idle

\* A kill between two steps, with nothing being written.
Kill ==
  /\ up
  /\ Fault("kill")
  /\ Forgets
  /\ UNCHANGED <<files, enabled, log, sidecar, settled, changes>>

\* The records a step of the present round would append for s now.
BatchOf(s) ==
  LET force == round.kind = "reconcile" /\ missing[s] = "retracted" IN
  IF s \in round.todo /\ files[s] # Gone /\ ~NothingNew(s, force)
  THEN Batch(s, force)
  ELSE IF round.kind = "reconcile" /\ round.todo = {} /\ s \in Unseen /\ missing[s] = "due"
  THEN <<Visibility(s, sources[s].gen)>>
  ELSE <<>>

\* A kill in append_project: some of the batch is in L1, none of it in the
\* sidecar.
KillInBatch ==
  /\ up
  /\ Fault("torn")
  /\ \E s \in Sources : \E n \in 1..Len(BatchOf(s)) :
       log' = log \o SubSeq(BatchOf(s), 1, n)
  /\ Forgets
  /\ UNCHANGED <<files, enabled, sidecar, settled, changes>>

\* Mutant: the sidecar is opened as it is.
Restart_NoCatchUp ==
  /\ ~up
  /\ up' = TRUE
  /\ eventIds' = ReplayedIds(log)
  /\ sources' = CheckpointsIn(log)
  /\ sidecar' = [sidecar EXCEPT !.built = Len(log)]
  /\ UNCHANGED <<files, enabled, log, degraded, missing, hot, round, settled, bounds>>

\* Writer::open: replay L1, catch the sidecar up or rebuild it.
Restart ==
  /\ ~up
  /\ up' = TRUE
  /\ eventIds' = ReplayedIds(log)
  /\ sources' = CheckpointsIn(log)
  /\ sidecar' = CaughtUp(sidecar, log)
  /\ UNCHANGED <<files, enabled, log, degraded, missing, hot, round, settled, bounds>>

\* The sidecar is damaged, of another schema, or was killed while generations
\* were switched: Sidecar::rebuild.
RestartRebuilds ==
  /\ ~up
  /\ up' = TRUE
  /\ eventIds' = ReplayedIds(log)
  /\ sources' = CheckpointsIn(log)
  /\ sidecar' = CaughtUp([rows |-> {}, built |-> 0], log)
  /\ UNCHANGED <<files, enabled, log, degraded, missing, hot, round, settled, bounds>>

-----------------------------------------------------------------------------
World ==
  \/ \E s \in Sources :
       HarnessCreates(s) \/ HarnessAppends(s) \/ HarnessRewrites(s) \/ HarnessDeletes(s)
  \/ Toggle

Steps ==
  \E s \in Sources :
    \/ \E ok \in BOOLEAN :
         ReconcileStep(s, ok) \/ TickStep(s, ok) \/ RetractMissing(s, ok)
    \/ NoticeMissing(s)

Opens == Restart \/ RestartRebuilds

Next ==
  \/ World
  \/ \E s \in Sources : GraceEnds(s)
  \/ StartReconcile \/ StartTick \/ RepairFails
  \/ Steps
  \/ EndRound
  \/ Kill \/ KillInBatch
  \/ Opens

Spec == Init /\ [][Next]_vars

\* The watcher's loop audits every 30 seconds, a round runs to its end, time
\* passes, and a dead daemon is started again by the next client.
FairSpec ==
  /\ Spec
  /\ SF_vars(StartReconcile)
  /\ WF_vars(Steps \/ EndRound \/ Opens)
  /\ WF_vars(\E s \in Sources : GraceEnds(s))

-----------------------------------------------------------------------------
(***************************************************************************)
(* Properties.                                                             *)
(***************************************************************************)
Gens == Nat \ {0}
Snapshots ==
  {c \in [lines : BoundedSeq(Lines, MaxLines), open : BOOLEAN] : c.open => c.lines # <<>>}

Records ==
  [kind : {"evidence"}, src : Sources, gen : Gens, line : Lines]
    \cup [kind : {"event"}, src : Sources, gen : Gens, line : Lines, evidence : Nat]
    \cup [kind : {"checkpoint"}, src : Sources, gen : Gens, snap : Snapshots]
    \cup [kind : {"visibility"}, src : Sources, gen : Gens]

TypeOK ==
  /\ DOMAIN files = Sources /\ \A s \in Sources : files[s] \in ContentOf(s) \cup {Gone}
  /\ enabled \in BOOLEAN /\ up \in BOOLEAN /\ degraded \in BOOLEAN
  /\ log \in Seq(Records)
  /\ sidecar \in [rows : SUBSET [src : Sources, gen : Gens, line : Lines, active : BOOLEAN],
                  built : 0..Len(log)]
  /\ eventIds \subseteq Gens \X Lines
  /\ DOMAIN sources \subseteq Sources
  /\ \A s \in DOMAIN sources : sources[s] \in [gen : Gens, snap : Snapshots]
  /\ missing \in [Sources -> {"no", "since", "due", "retracted"}]
  /\ hot \subseteq Sources /\ IsFiniteSet(hot) /\ Cardinality(hot) <= MaxHot
  /\ round \in [kind : {"idle", "reconcile", "tick"}, todo : SUBSET Sources,
                seen : SUBSET Sources, absent : SUBSET Sources]
  /\ settled \subseteq Sources
  /\ changes \in 0..MaxChanges /\ faults \in 0..MaxFaults
  /\ past \subseteq Ops \cup Faults \cup Mishaps

\* What the running writer knows is what L1 says, and so what it would know
\* after a restart (ReplayState::apply against ReplayState::load), unless a
\* flush failed.
ReplayExact ==
  up /\ "flush" \notin past =>
    /\ eventIds = IdsIn(log)
    /\ sources = CheckpointsIn(log)

\* Every event points at the evidence record of its own line (evidence_seqs).
EvidenceAnchored ==
  \A i \in OfKind(log, "event") :
    LET e == log[i].evidence + 1 IN
    /\ e \in DOMAIN log
    /\ log[e] = Evidence(log[i].src, log[i].gen, log[i].line)

\* What every step of the writer maintains, failures and kills included.
IInv == TypeOK /\ ReplayExact /\ EvidenceAnchored

\* project_record for each of recs in turn, beginning with an empty table.
Projection(recs) ==
  LET after[n \in 0..Len(recs)] ==
        IF n = 0 THEN {} ELSE LET before == after[n - 1]
                              IN  ProjectRecord(before, recs[n])
  IN  after[Len(recs)]

\* The sidecar is what projecting the first built_through_seq records of L1
\* one by one gives, whatever mixture of batches, failures, repairs and
\* restarts built it (project, catch_up, open_or_rebuild).
SidecarExact ==
  sidecar.rows = Projection(SubSeq(log, 1, sidecar.built))

\* "Recovery must not duplicate canonical events; orphan evidence is allowed"
\* (delivery roadmap, A2): an event id is in L1 once.
NoDuplicateEvents ==
  \A i, j \in OfKind(log, "event") : IdOf(log[i]) = IdOf(log[j]) => i = j

\* It is, as long as no flush fails after the batch was appended: not failing
\* appends and projections, nor kills at any record of a batch.
NoDuplicatesUnlessFlushFails == "flush" \notin past => NoDuplicateEvents

\* The lines of c that a search should find: the last revision of each entity.
Latest(c) ==
  {c.lines[i] : i \in {j \in 1..Completed(c) :
     \A k \in (j + 1)..Completed(c) : Identity[c.lines[k]] # Identity[c.lines[j]]}}

Expected == UNION {Latest(files[s]) : s \in Present}
Found == {row.line : row \in {x \in sidecar.rows : x.active}}

\* s needs no more reconciling: it was taken in since its last change, or it
\* does not exist and never had a checkpoint.
Settled(s) == s \in settled \/ (files[s] = Gone /\ ~Known(s))

\* Once every source was taken in, and the sidecar is at the end of L1, a
\* search finds exactly what the files of the harness now hold: no line of a
\* rewritten or deleted file, no old revision, and nothing is missing.
SearchMatchesSources ==
  /\ up /\ round = Idle /\ ~degraded /\ sidecar.built = Len(log)
  /\ \A s \in Sources : Settled(s)
  => Found = Expected

\* No two sources hold lines of one session (canonical_id hashes the session,
\* not the path of the source).
SessionsApart == \A s, t \in Sources : s # t => LinesAt[s] \cap LinesAt[t] = {}

\* No flush failed, no retracted source came and went between two audits, and
\* harnesses that rewrote or removed files met no kill and no failing append.
Undamaged ==
  /\ past \cap {"flush", "fleeting"} = {}
  /\ \/ past \cap {"rewrite", "delete"} = {}
     \/ past \cap {"append", "kill", "torn"} = {}

\* When the code keeps that promise.  What the writer knows of a missing
\* source, and a retraction it could not append, do not survive more.
SearchSurvives == SessionsApart /\ Undamaged => SearchMatchesSources

\* "every 30 seconds a complete inventory and fingerprint audit, which makes
\* it eventually consistent" (delivery roadmap, A3): when harnesses fall
\* silent, searches come to show their files for good.
EventuallyConsistent == []Undamaged => <>[](Found = Expected)
=============================================================================
