------------------------------ MODULE MCIngest ------------------------------
(* Instances of Ingest for TLC.  Lines a1 and a2 are two revisions of one  *)
(* entity; b is another entity.                                            *)
EXTENDS Ingest, TLC

CONSTANTS s1, s2, a1, a2, b

MCLines == {a1, a2, b}
MCIdentity == a1 :> "a" @@ a2 :> "a" @@ b :> "b"

\* One source with revisions, or two whose lines differ, or two that may hold the same line.
OneSource == {s1}
OneLinesAt == s1 :> {a1, a2}
TwoSources == {s1, s2}
TwoLinesAt == s1 :> {a1, a2} @@ s2 :> {b}
SharedLinesAt == s1 :> {b} @@ s2 :> {b}
=============================================================================
