--------------------------- MODULE MCMaterializer ---------------------------
(* An instance of Materializer for TLC: observations of two cohorts that   *)
(* start and end an entity, with two revisions and two times, of which one *)
(* cohort alone states some fields.  Equal ranks differ in their event id. *)
EXTENDS Materializer

EndOf == [run |-> "settled", turn |-> "completed", message |-> "completed", tool |-> "completed"]
Link == [runId |-> <<"run", 1>>, turnId |-> <<"turn", 1>>, messageId |-> <<"message", 1>>,
         toolCallId |-> <<"call", 1>>]
LinkOf(k) == Only(Link, CASE k = "run" -> {"runId"} [] k = "turn" -> {"runId", "turnId"}
                          [] k = "message" -> {"runId", "turnId", "messageId"} [] OTHER -> DOMAIN Link)

\* What an observation states; the lower cohort states one field more.
Stated(k, phase, rev, ts, low) ==
  LET value == <<100 * rev + 10 * ts + (IF low THEN 1 ELSE 0)>>
      failed == ts = 2
      state == IF phase = "started" THEN "running" ELSE IF failed THEN "failed" ELSE "completed"
      more == IF ~low THEN <<>> ELSE
              CASE k = "message" -> [model |-> value] [] k = "turn" -> [turnIndex |-> 7]
                [] k = "tool" -> [toolName |-> "seen"] [] OTHER -> <<>>
  IN  [state |-> state] @@ more @@
      (CASE k = "message" -> [role |-> "assistant", content |-> <<[type |-> "text", v |-> value]>>]
         [] k = "tool" /\ phase = "started" -> [args |-> value]
         [] k = "tool" -> [result |-> value, isError |-> failed]
         [] OTHER -> <<>>)

Observation(k, phase, rev, ts, low) ==
  [id |-> 8 * rev + 4 * ts + (IF low THEN 1 ELSE 0) + (IF phase = "started" THEN 0 ELSE 2),
   type |-> <<k, phase>>, nid |-> None, ts |-> ts,
   layer |-> IF low THEN "L2" ELSE "L1", authenticated |-> TRUE,
   authority |-> "authoritative", confidence |-> 1, corr |-> LinkOf(k), rev |-> rev,
   body |-> Stated(k, phase, rev, ts, low)]

MCObserved ==
  [k \in DOMAIN EndOf |->
     {Observation(k, phase, rev, ts, low) : phase \in {"started", EndOf[k]}, rev \in {1, 2},
                                           ts \in {1, 2}, low \in BOOLEAN}
     \cup {[Observation(k, EndOf[k], 1, 2, FALSE) EXCEPT !.id = 99, !.body.state = "completed",
              !.body = IF k = "tool" THEN [@ EXCEPT !.isError = FALSE] ELSE @]}]
=============================================================================
