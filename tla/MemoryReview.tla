---------------------------- MODULE MemoryReview ----------------------------
(***************************************************************************)
(* Memories and their review in the sesdb daemon: propose_memory and       *)
(* decide_memory (daemon.rs), the memories table of the sidecar (index.rs) *)
(* and what keeps the sidecar up with L1.  A decision names the revision   *)
(* its reviewer saw, which may be any; it is checked against the sidecar,  *)
(* which may lag behind L1, and appended to L1 first.                      *)
(*                                                                         *)
(* Handlers run one at a time under the writer mutex; between the requests *)
(* of any number of reviewers rounds collect, the process is killed or the *)
(* machine loses power.  Content, scope and evidence of a memory never change      *)
(* after its proposal and are left out.  Module UslStore stands behind     *)
(* log: a failing append_batch is rolled back.                             *)
(***************************************************************************)
EXTENDS Naturals, Sequences, FiniteSets

CONSTANTS
  Memories,     \* ids of memories
  Failures,     \* which failures happen, a subset of AllFailures
  MaxFailures,  \* bound: failures
  MaxRecords,   \* bound: records of one memory
  MaxCollected  \* bound: log length up to which rounds collect

AllFailures == {"append", "flush", "project", "repair", "rebuild", "kill", "power"}

ASSUME ReviewAssumption ==
  /\ Failures \subseteq AllFailures
  /\ MaxFailures \in Nat /\ MaxRecords \in Nat /\ MaxCollected \in Nat

VARIABLES
  log,       \* L1: memory records and collected ones
  synced,    \* how many of them are durable
  sidecar,   \* the memories table, built_through_seq, and whether the
             \* connection is the real one
  degraded,  \* Writer.degraded
  up,        \* the daemon runs
  proposed,  \* ids given out; they are random
  acked,     \* history: the records whose request was answered with success
  failures   \* failures so far

vars == <<log, synced, sidecar, degraded, up, proposed, acked, failures>>
callers == <<proposed, acked>>

-----------------------------------------------------------------------------
Actions == {"candidate", "approve", "revoke"}

\* The status a memory must have for a decision, and the one an action gives.
Required == [approve |-> "candidate", revoke |-> "approved"]
StatusOf == [candidate |-> "candidate", approve |-> "approved", revoke |-> "revoked"]

Revisions == 1..3

MemoryRecord(m, action, revision) ==
  [memory |-> m, action |-> action, revision |-> revision]

\* What a round appends: nothing of it concerns the memories table.
Collected == [action |-> "collect"]

NoRow == [revision |-> 0, status |-> "none"]
NoRows == [m \in Memories |-> NoRow]

\* INSERT .. ON CONFLICT DO UPDATE .. WHERE excluded.revision > memories.revision
ProjectRecord(rows, r) ==
  IF r.action \in Actions /\ r.revision > rows[r.memory].revision
  THEN [rows EXCEPT ![r.memory] = [revision |-> r.revision, status |-> StatusOf[r.action]]]
  ELSE rows

ProjectAll(rows, records) ==
  LET after[n \in 0..Len(records)] ==
        IF n = 0 THEN rows ELSE ProjectRecord(after[n - 1], records[n])
  IN  after[Len(records)]

CaughtUp(s, l) ==
  [s EXCEPT !.rows = ProjectAll(@, SubSeq(l, s.built + 1, Len(l))), !.built = Len(l)]

Rebuilt(l) == [rows |-> ProjectAll(NoRows, l), built |-> Len(l), live |-> TRUE]

Init ==
  /\ log = <<>>
  /\ synced = 0
  /\ sidecar = Rebuilt(<<>>)
  /\ degraded = FALSE
  /\ up = TRUE
  /\ proposed = {}
  /\ acked = <<>>
  /\ failures = 0

Fails(kind) ==
  /\ kind \in Failures
  /\ failures < MaxFailures
  /\ failures' = failures + 1

-----------------------------------------------------------------------------
(***************************************************************************)
(* append_project of one record: its outcomes.                             *)
(***************************************************************************)
AppendFails ==
  /\ Fails("append")
  /\ UNCHANGED <<log, synced, sidecar, degraded, up>>

FlushFails(r) ==
  /\ Fails("flush")
  /\ log' = Append(log, r)
  /\ UNCHANGED <<synced, sidecar, degraded, up>>

\* Sidecar::project takes records that continue what it has.
Projectable == sidecar.live /\ sidecar.built = Len(log)

\* Mutant: records are projected whatever is missing before them.
Projects_NoGapCheck(r) ==
  /\ sidecar.live
  /\ log' = Append(log, r)
  /\ synced' = Len(log')
  /\ sidecar' = [sidecar EXCEPT !.rows = ProjectRecord(@, r), !.built = Len(log')]
  /\ degraded' = FALSE
  /\ UNCHANGED <<up, failures>>

Projects(r) ==
  /\ Projectable
  /\ log' = Append(log, r)
  /\ synced' = Len(log')
  /\ sidecar' = CaughtUp(sidecar, log')
  /\ degraded' = FALSE
  /\ UNCHANGED <<up, failures>>

ProjectionFails(r) ==
  /\ IF Projectable THEN Fails("project") ELSE UNCHANGED failures
  /\ log' = Append(log, r)
  /\ synced' = Len(log')
  /\ degraded' = TRUE
  /\ UNCHANGED <<sidecar, up>>

\* Killed behind the append, the flush or the projection.
KilledIn(r) ==
  /\ Fails("kill")
  /\ up' = FALSE
  /\ log' = Append(log, r)
  /\ \/ UNCHANGED <<synced, sidecar>>
     \/ synced' = Len(log') /\ UNCHANGED sidecar
     \/ Projectable /\ synced' = Len(log') /\ sidecar' = CaughtUp(sidecar, log')
  /\ UNCHANGED degraded

Errs(r) == AppendFails \/ FlushFails(r) \/ ProjectionFails(r) \/ KilledIn(r)

-----------------------------------------------------------------------------
(***************************************************************************)
(* Handlers.                                                               *)
(***************************************************************************)
RecordsOf(m) == {i \in DOMAIN log : log[i].action \in Actions /\ log[i].memory = m}

\* Mutant: success is reported although only L1 has the record.
Request_AnswersCommitted(r) ==
  \/ Projects(r) /\ acked' = Append(acked, r)
  \/ ProjectionFails(r) /\ acked' = Append(acked, r)
  \/ (AppendFails \/ FlushFails(r) \/ KilledIn(r)) /\ UNCHANGED acked

\* append_memory, and the answer.
Request(r) ==
  /\ Cardinality(RecordsOf(r.memory)) < MaxRecords
  /\ \/ Projects(r) /\ acked' = Append(acked, r)
     \/ Errs(r) /\ UNCHANGED acked

Propose(m) ==
  /\ up
  /\ m \notin proposed
  /\ proposed' = proposed \cup {m}
  /\ Request(MemoryRecord(m, "candidate", 1))

\* Mutant: the status is not looked at.
Accepts_AnyStatus(m, action, expected) ==
  /\ sidecar.live
  /\ sidecar.rows[m].revision = expected

Accepts(m, action, expected) ==
  /\ sidecar.live
  /\ sidecar.rows[m].revision = expected
  /\ sidecar.rows[m].status = Required[action]

\* Anything else is refused and changes nothing.
Decide(m, action, expected) ==
  /\ up
  /\ Accepts(m, action, expected)
  /\ Request(MemoryRecord(m, action, expected + 1))
  /\ UNCHANGED proposed

\* POST /index/rebuild.
Rebuild ==
  /\ up
  /\ sidecar' = Rebuilt(log)
  /\ degraded' = FALSE
  /\ UNCHANGED <<log, synced, up, failures, callers>>

\* rebuild_live has dropped the connection and cannot replace it.
RebuildFails ==
  /\ up
  /\ Fails("rebuild")
  /\ sidecar' = [sidecar EXCEPT !.live = FALSE]
  /\ UNCHANGED <<log, synced, degraded, up, callers>>

-----------------------------------------------------------------------------
(***************************************************************************)
(* The watcher's rounds, and the end and start of the daemon.              *)
(***************************************************************************)
Lags == up /\ (degraded \/ sidecar.built # Len(log))

\* Mutant: the flag is cleared, the sidecar left as it is.
EnsureProjection_OnlyFlag ==
  /\ Lags
  /\ degraded' = FALSE
  /\ UNCHANGED <<log, synced, sidecar, up, failures, callers>>

\* ensure_projection: catch_up, which has nothing to do when built_through_seq
\* is next_seq, and otherwise rebuild_live if it fails.
EnsureProjection ==
  /\ Lags
  /\ degraded' = FALSE
  /\ sidecar' = IF sidecar.built = Len(log) THEN sidecar
                ELSE IF sidecar.live THEN CaughtUp(sidecar, log) ELSE Rebuilt(log)
  /\ UNCHANGED <<log, synced, up, failures, callers>>

\* Both fail.
RepairFails ==
  /\ Lags /\ sidecar.built # Len(log)
  /\ Fails("repair")
  /\ degraded' = TRUE
  /\ sidecar' = [sidecar EXCEPT !.live = FALSE]
  /\ UNCHANGED <<log, synced, up, callers>>

\* A round that ensure_projection let go on.
Collect ==
  /\ up /\ ~Lags
  /\ Len(log) < MaxCollected
  /\ Projects(Collected) \/ Errs(Collected)
  /\ UNCHANGED callers

Kill ==
  /\ up
  /\ Fails("kill")
  /\ up' = FALSE
  /\ UNCHANGED <<log, synced, sidecar, degraded, callers>>

\* Unsynced records may be lost, the committed transactions of SQLite not.
PowerLoss ==
  /\ Fails("power")
  /\ up' = FALSE
  /\ synced' \in synced..Len(log)
  /\ log' = SubSeq(log, 1, synced')
  /\ UNCHANGED <<sidecar, degraded, callers>>

\* open_or_rebuild: a damaged sidecar is rebuilt, and one ahead of L1.
Restart ==
  /\ ~up
  /\ up' = TRUE
  /\ degraded' = FALSE
  /\ \/ sidecar.built <= Len(log) /\ sidecar' = [CaughtUp(sidecar, log) EXCEPT !.live = TRUE]
     \/ sidecar' = Rebuilt(log)
  /\ UNCHANGED <<log, synced, failures, callers>>

-----------------------------------------------------------------------------
Next ==
  \/ \E m \in Memories : Propose(m)
  \/ \E m \in Memories, action \in DOMAIN Required, expected \in Revisions :
       Decide(m, action, expected)
  \/ Rebuild \/ RebuildFails
  \/ EnsureProjection \/ RepairFails \/ Collect
  \/ Kill \/ PowerLoss \/ Restart

Spec == Init /\ [][Next]_vars

\* Rounds come every few seconds, a dead daemon is started by the next client,
\* and reviewers look for candidates again and again.
FairSpec ==
  /\ Spec
  /\ WF_vars(EnsureProjection)
  /\ WF_vars(Restart)
  /\ \A m \in Memories :
       WF_vars(\E expected \in Revisions : Decide(m, "approve", expected))

-----------------------------------------------------------------------------
(***************************************************************************)
(* Properties.                                                             *)
(***************************************************************************)
\* A memory has one record per revision, but for repeated ones: the revision
\* tells the action and the status.
MemoryRecords ==
  {MemoryRecord(m, "candidate", 1) : m \in Memories}
    \cup {MemoryRecord(m, "approve", 2) : m \in Memories}
    \cup {MemoryRecord(m, "revoke", 3) : m \in Memories}

Records == MemoryRecords \cup {Collected}

Rows == {NoRow, [revision |-> 1, status |-> "candidate"],
         [revision |-> 2, status |-> "approved"], [revision |-> 3, status |-> "revoked"]}

TypeOK ==
  /\ log \in Seq(Records)
  /\ synced \in 0..Len(log)
  /\ sidecar \in [rows : [Memories -> Rows], built : Nat, live : BOOLEAN]
  /\ degraded \in BOOLEAN /\ up \in BOOLEAN
  /\ proposed \subseteq Memories
  /\ acked \in Seq(MemoryRecords)
  /\ failures \in 0..MaxFailures

\* The table is the projection of the records before built_through_seq, which
\* a running daemon has; only a sidecar that power loss has left ahead of L1
\* is not.
ProjectionExact ==
  /\ up => sidecar.built <= Len(log)
  /\ sidecar.built <= Len(log) =>
       sidecar.rows = ProjectAll(NoRows, SubSeq(log, 1, sidecar.built))

\* An id is given out before L1 has a record of it.
GivenOut == \A i \in DOMAIN log : log[i].action \in Actions => log[i].memory \in proposed

\* What was answered with success is durable, and the table has it.
AckedKept == \A i \in DOMAIN acked : \E j \in 1..synced : j <= sidecar.built /\ log[j] = acked[i]

IInv == TypeOK /\ ProjectionExact /\ GivenOut /\ AckedKept

\* L1 tells of no decision that was not due: "only a revision approved by a
\* human enters default reads" (docs, system.md): although decisions are taken
\* on a sidecar that lags, approvals follow a candidate and revocations an
\* approval, and a retry can only repeat the same decision.
ReviewedInOrder ==
  \A i \in DOMAIN log :
    /\ log[i].action = "approve" =>
         \E j \in 1..(i - 1) : log[j] = MemoryRecord(log[i].memory, "candidate", log[i].revision - 1)
    /\ log[i].action = "revoke" =>
         \E j \in 1..(i - 1) : log[j] = MemoryRecord(log[i].memory, "approve", log[i].revision - 1)

\* A revision is decided with success at most once, and that stands, across
\* retries, other reviewers, lagging projections and crashes: the table never
\* goes back behind it, so a revoked memory is not served as approved again.
DecisionsStand ==
  \A i \in DOMAIN acked :
    LET r == acked[i]
        row == sidecar.rows[r.memory]
    IN  /\ \A j \in DOMAIN acked :
             acked[j].memory = r.memory /\ acked[j].revision = r.revision => j = i
        /\ up => \/ row.revision > r.revision
                 \/ row = [revision |-> r.revision, status |-> StatusOf[r.action]]

\* rebuild_live has failed with nothing to catch up on: no round notices.
Stuck == up /\ ~sidecar.live /\ ~Lags

\* An acknowledged candidate that reviewers keep trying to approve is approved,
\* although answers may be errors (those who see them look again), records are
\* repeated and projections lag; unless the sidecar is stuck.
Reviewed ==
  \A m \in Memories :
    (\E i \in DOMAIN acked : acked[i] = MemoryRecord(m, "candidate", 1))
      ~> sidecar.rows[m].status \in {"approved", "revoked"} \/ Stuck

\* "After a failed sidecar transaction ... catch up or rebuild automatically"
\* (delivery roadmap): a daemon that goes on running can read its sidecar
\* again.
RepairsItself == (up /\ ~sidecar.live) ~> (~up \/ sidecar.live)
=============================================================================
