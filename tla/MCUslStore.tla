----------------------------- MODULE MCUslStore -----------------------------
(* Instances of UslStore for TLC: two sessions, frames of different sizes. *)
EXTENDS UslStore, TLC

CONSTANTS r1, r2, s1, s2

MCRecords == {r1, r2}
MCSessionOf == r1 :> s1 @@ r2 :> s2
MCFrameSize == r1 :> 1 @@ r2 :> 2

\* One unhandled failure at a time.
HeaderFault == {"header"}
=============================================================================
