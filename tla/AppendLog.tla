----------------------------- MODULE AppendLog ------------------------------
(***************************************************************************)
(* What the embedded store promises its callers: a log that only grows     *)
(* while it is open, whose first stable records survive every crash, and   *)
(* which after a crash is what was acknowledged and not lost, followed by  *)
(* a prefix, possibly empty, of the call that was cut short.  A call that  *)
(* failed is taken back; but until the next barrier a power loss may still *)
(* bring it back.                                                          *)
(***************************************************************************)
EXTENDS Integers, Sequences

CONSTANT Records

VARIABLES
  up,       \* the store is open
  log,      \* the records acknowledged to callers
  stable,   \* how many of them the last durability barrier covers
  pending,  \* the records that a crash now may, or may not, leave in the log
  withdrawn \* what stood behind the stable records each time a tail was cut

vars == <<up, log, stable, pending, withdrawn>>

\* What follows the stable records in a log l.
Unstable(l) == SubSeq(l, stable + 1, Len(l))

Init ==
  /\ up = FALSE
  /\ log = <<>>
  /\ stable = 0
  /\ pending = <<>>
  /\ withdrawn = {}

Begin ==
  /\ up
  /\ pending = <<>>
  /\ pending' \in Seq(Records)
  /\ UNCHANGED <<up, log, stable, withdrawn>>

Commit ==
  /\ up
  /\ log' = log \o pending
  /\ pending' = <<>>
  /\ UNCHANGED <<up, stable, withdrawn>>

\* The call fails after n of its records were written.
Abort ==
  /\ up
  /\ \E n \in 0..Len(pending) :
       withdrawn' = withdrawn \cup {Unstable(log) \o SubSeq(pending, 1, n)}
  /\ pending' = <<>>
  /\ UNCHANGED <<up, log, stable>>

AppendOne(r) ==
  /\ up
  /\ pending = <<>>
  /\ log' = Append(log, r)
  /\ UNCHANGED <<up, stable, pending, withdrawn>>

Flush ==
  /\ up
  /\ stable' = Len(log)
  /\ withdrawn' = {}
  /\ UNCHANGED <<up, log, pending>>

\* A kill leaves the log as it was; the interrupted call may still show.
Kill ==
  /\ up
  /\ up' = FALSE
  /\ UNCHANGED <<log, stable, pending, withdrawn>>

\* A power loss may also take what was never flushed, latest first, and may
\* bring back what a cut since the last barrier took off the log.
PowerLoss ==
  /\ up' = FALSE
  /\ log' = SubSeq(log, 1, stable)
  /\ pending' \in {Unstable(log) \o pending} \cup withdrawn
  /\ withdrawn' = {}
  /\ UNCHANGED stable

\* Opening cuts off a tail that is torn.
Recover ==
  /\ ~up
  /\ up' = TRUE
  /\ \E n \in 0..Len(pending) : log' = log \o SubSeq(pending, 1, n)
  /\ pending' = <<>>
  /\ withdrawn' \in {withdrawn, withdrawn \cup {Unstable(log')}}
  /\ UNCHANGED stable

Next ==
  \/ Begin
  \/ Commit
  \/ Abort
  \/ \E r \in Records : AppendOne(r)
  \/ Flush
  \/ Kill
  \/ PowerLoss
  \/ Recover

Spec == Init /\ [][Next]_vars
=============================================================================
