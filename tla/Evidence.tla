------------------------------ MODULE Evidence ------------------------------
(***************************************************************************)
(* The pivot of usl-convert: evidence events, what makes one valid, and    *)
(* the materialization of runs, turns, messages and tools from them        *)
(* (packages/usl-convert/src/evidence.ts, materialize.ts, bundle.ts and    *)
(* asp-schema/).                                                           *)
(*                                                                         *)
(* An event type is a pair, as <<"run", "started">>.  An identifier is a   *)
(* tuple of a name and numbers, <<>> when there is none.  The fields a     *)
(* payload or a correlation does not have are not in its domain.  A text,  *)
(* the arguments of a call or another native value v is the sequence of    *)
(* the native pieces it is made of; the content of a result also has a     *)
(* form.  An event id is a hash: here a number, the first ids of two       *)
(* events comparing as their places in the log or the other way round.     *)
(***************************************************************************)
EXTENDS Integers, Sequences, FiniteSets, SequencesExt

None == <<>>
Get(r, key, default) == IF key \in DOMAIN r THEN r[key] ELSE default
Only(r, keys) == [k \in DOMAIN r \cap keys |-> r[k]]
With(r, s) == [k \in DOMAIN r \cup DOMAIN s |-> IF k \in DOMAIN r THEN r[k] ELSE s[k]]
OfTypes(blocks, types) ==
  FlattenSeq([i \in DOMAIN blocks |-> IF blocks[i].type \in types THEN <<blocks[i]>> ELSE <<>>])

\* Entries in a row, and blocks or records that have their values in v alone.
Row(s) == s \in Seq(ToSet(s))
Plain(x) == {"type", "v"} \subseteq DOMAIN x /\ DOMAIN x \cap {"summary", "enc", "att", "output"} = {}
Names(x) == "call" \in DOMAIN x /\ x.call # None

\* The fields of an event, of which only rev may be missing (AgentEventEnvelope).
Typed(e) ==
  /\ DOMAIN e \cup {"rev"} = {"id", "type", "nid", "ts", "layer", "authenticated", "authority",
                             "confidence", "corr", "rev", "body"}
  /\ e.id \in Int /\ e.ts \in Int /\ e.confidence \in Int /\ Get(e, "rev", 0) \in Int

---------------------------------------------------------------------------
(* Which observation of an entity counts.                                  *)

Ends == {<<"run", "settled">>, <<"turn", "completed">>,
         <<"message", "completed">>, <<"tool", "completed">>}

CohortRank(e) ==
  << CASE e.authenticated /\ e.layer = "L1" -> 3
       [] e.authenticated /\ e.layer = "L2" -> 2
       [] OTHER -> 1,
     CASE e.authority = "authoritative" -> 3
       [] e.authority = "self_reported" -> 2
       [] OTHER -> 1 >>

Below(a, b) == \E i \in DOMAIN a : a[i] < b[i] /\ \A j \in 1 .. i - 1 : a[j] = b[j]

\* Mutant: no tie-break by event id.
FieldRank_NoId(e) ==
  <<IF e.type \in Ends THEN 1 ELSE 0, Get(e, "rev", 0), e.confidence, e.ts>>

FieldRank(e) ==
  <<IF e.type \in Ends THEN 1 ELSE 0, Get(e, "rev", 0), e.confidence, e.ts, e.id>>

\* The first of the highest, as the strict comparison of the code has it.
OverallWinner(obs) ==
  obs[Min({i \in DOMAIN obs : \A f \in ToSet(obs) : ~Below(FieldRank(obs[i]), FieldRank(f))})]

\* Observations are in the order of their places.  A selection keeps the place
\* of what it selects: it is a function on some of the places.
\* Mutant: lower cohorts fill holes.
AuthorityCohort_All(obs) == obs

AuthorityCohort(obs) ==
  Only(obs, {i \in DOMAIN obs :
              \A f \in ToSet(obs) : ~Below(CohortRank(obs[i]), CohortRank(f))})

Stating(obs, key) == Only(obs, {i \in DOMAIN obs : key \in DOMAIN obs[i].body})
Correlated(obs, key) == Only(obs, {i \in DOMAIN obs : key \in DOMAIN obs[i].corr})
OfType(obs, type) == Only(obs, {i \in DOMAIN obs : obs[i].type = type})

Chosen(obs, key, default) ==
  LET said == Stating(obs, key)
  IN  IF DOMAIN said = {} THEN default ELSE OverallWinner(said).body[key]

ChosenFields(obs, keys) ==
  [k \in {x \in keys : DOMAIN Stating(obs, x) # {}} |-> Chosen(obs, k, None)]

ChosenLink(obs, key) ==
  LET said == Correlated(obs, key)
  IN  IF DOMAIN said = {} THEN None ELSE OverallWinner(said).corr[key]

Revision(obs) == Max({Get(e, "rev", 1) : e \in ToSet(obs)})
Earliest(obs) == Min({e.ts : e \in ToSet(obs)})
Latest(obs) == Max({e.ts : e \in ToSet(obs)})
Provenance(winner, obs) ==
  [sourceEventIds |-> {e.id : e \in ToSet(obs)}, layer |-> winner.layer,
   authenticated |-> winner.authenticated]

TerminalState(body, default) ==
  IF Get(body, "state", "") \in {"pending", "running", "completed", "failed", "cancelled"}
  THEN body.state ELSE default

StateOf(e) ==
  IF e.type \in {<<"message", "completed">>, <<"tool", "completed">>}
  THEN TerminalState(e.body, IF e.type[1] = "tool" /\ Get(e.body, "isError", FALSE)
                             THEN "failed" ELSE "completed")
  ELSE "running"

---------------------------------------------------------------------------
(* Tool linkage of a message event: the call and the result its            *)
(* correlation, its message and its tool-result blocks name.               *)

BlocksOf(e) == Get(e.body, "content", <<>>)
ResultBlocks(e) == {x \in ToSet(BlocksOf(e)) : x.type = "tool-result"}
CallBlocks(e) == {x \in ToSet(BlocksOf(e)) : x.type = "tool-call"}

ResultSemantic(e) ==
  \/ Get(e.body, "role", "") \in {"tool", "toolResult"}
  \/ ResultBlocks(e) # {}
  \/ "toolResultId" \in DOMAIN e.corr \/ "toolResultId" \in DOMAIN e.body

Named(e, key) == {r[key] : r \in {s \in {e.corr, e.body} : key \in DOMAIN s}}
LinkedCalls(e) == Named(e, "toolCallId") \cup {x.call : x \in ResultBlocks(e)}
LinkedResults(e) == Named(e, "toolResultId") \cup {x.result : x \in ResultBlocks(e)}

ContradictoryResult(e) ==
  /\ e.type[1] = "message" /\ ResultSemantic(e)
  /\ \/ Cardinality(LinkedCalls(e)) > 1 \/ Cardinality(LinkedResults(e)) > 1
     \/ LinkedCalls(e) = {} /\ LinkedResults(e) # {}

ContradictoryCall(e) ==
  LET calls == Named(e, "toolCallId")
  IN  /\ e.type[1] = "message"
      /\ \/ Cardinality(calls) > 1
         \/ calls # {} /\ CallBlocks(e) # {} /\ ~(calls \subseteq {x.call : x \in CallBlocks(e)})

ResultOf(call) == <<"result", call[2]>>

\* None, or the call and result that the message is about.
ToolResultLink(e) ==
  IF e.type[1] = "message" /\ ResultSemantic(e) /\ LinkedCalls(e) # {}
  THEN LET call == CHOOSE c \in LinkedCalls(e) : TRUE
       IN  [toolCallId |-> call,
            toolResultId |-> IF LinkedResults(e) = {} THEN ResultOf(call)
                             ELSE CHOOSE r \in LinkedResults(e) : TRUE]
  ELSE <<>>

\* For a message the linkage of its content comes before the correlation.
WithLinkage(e) ==
  [e EXCEPT !.corr = LET link == ToolResultLink(e)
                     IN  [k \in DOMAIN @ \cup DOMAIN link |->
                            IF k \in DOMAIN link THEN link[k] ELSE @[k]]]

---------------------------------------------------------------------------
(* Validation.                                                             *)

RequiredCorrelation(kind) ==
  CASE kind = "run" -> {"runId"}
    [] kind = "turn" -> {"runId", "turnId"}
    [] kind = "message" -> {"runId", "messageId"}
    [] kind = "tool" -> {"runId", "toolCallId"}
    [] OTHER -> {}

ValidBlock(x) == x.type \in {"tool-call", "tool-result"} => x.call # None

LegalStates(type) ==
  CASE type = <<"run", "settled">> -> {"completed", "failed", "cancelled", "settled", "running"}
    [] type \in Ends -> {"completed", "failed", "cancelled"}
    [] OTHER -> {"running"}

StateRequired(type) == type \in {<<"run", "settled">>, <<"turn", "completed">>}

ToolBody(type, body) ==
  /\ type = <<"tool", "completed">> =>
       /\ "result" \in DOMAIN body \/ "isError" \in DOMAIN body
       /\ {"state", "isError"} \subseteq DOMAIN body => (body.isError <=> body.state = "failed")
  /\ type = <<"tool", "started">> => "args" \in DOMAIN body
  /\ type = <<"tool", "updated">> => "partialResult" \in DOMAIN body

ValidEnvelope(e) ==
  /\ RequiredCorrelation(e.type[1]) \subseteq DOMAIN e.corr
  /\ e.type[1] \in {"run", "turn", "message", "tool"} =>
       /\ "state" \in DOMAIN e.body => e.body.state \in LegalStates(e.type)
       /\ StateRequired(e.type) => "state" \in DOMAIN e.body
  /\ \A x \in ToSet(BlocksOf(e)) : ValidBlock(x)
  /\ e.type[1] = "tool" => ToolBody(e.type, e.body)
  /\ ~ContradictoryResult(e) /\ ~ContradictoryCall(e)

---------------------------------------------------------------------------
(* Materialization.                                                        *)

MaterializeRun(obs, id) ==
  LET cohort == AuthorityCohort(obs)
      settled == OfType(cohort, <<"run", "settled">>)
  IN  [id |-> id,
       state |-> IF DOMAIN settled = {} THEN "running"
                 ELSE TerminalState(OverallWinner(settled).body, "completed"),
       revision |-> Revision(cohort), startedAt |-> Earliest(cohort),
       completedAt |-> IF DOMAIN settled = {} THEN None ELSE <<Latest(settled)>>,
       provenance |-> Provenance(OverallWinner(cohort), obs)]

MaterializeTurn(obs, id) ==
  LET cohort == AuthorityCohort(obs)
      completed == OfType(cohort, <<"turn", "completed">>)
  IN  [id |-> id, runId |-> ChosenLink(cohort, "runId"),
       index |-> Chosen(cohort, "turnIndex", 0),
       state |-> IF DOMAIN completed = {} THEN "running"
                 ELSE TerminalState(OverallWinner(completed).body, "completed"),
       revision |-> Revision(cohort), startedAt |-> Earliest(cohort),
       completedAt |-> IF DOMAIN completed = {} THEN None ELSE <<Latest(completed)>>,
       provenance |-> Provenance(OverallWinner(cohort), obs)]

Role(r) == CASE r = "toolResult" -> "tool"
             [] r \in {"system", "user", "assistant", "tool"} -> r
             [] OTHER -> "unknown"

TextOf(blocks) == FlattenSeq([i \in DOMAIN blocks |-> blocks[i].v])

MessageBlocks(cohort, role, call, result) ==
  LET content == Chosen(cohort, "content", <<>>)
  IN  IF role = "tool" /\ call # None /\ \A x \in ToSet(content) : x.type # "tool-result"
      THEN <<[type |-> "tool-result", call |-> call, result |-> result,
              content |-> [form |-> "blocks", v |-> TextOf(content)], v |-> TextOf(content),
              isError |-> Chosen(cohort, "isError", FALSE)]>>
      ELSE content

MessageOf(cohort, obs, id) ==
  LET role == Role(Chosen(cohort, "role", "unknown"))
      call == ChosenLink(cohort, "toolCallId")
      said == ChosenLink(cohort, "toolResultId")
      result == IF said # None \/ call = None THEN said ELSE ResultOf(call)
  IN  [id |-> id, runId |-> ChosenLink(cohort, "runId"), turnId |-> ChosenLink(cohort, "turnId"),
       parentId |-> ChosenLink(cohort, "parentId"), toolCallId |-> call, toolResultId |-> result,
       order |-> Chosen(cohort, "messageIndex", Latest(cohort)),
       role |-> role, state |-> StateOf(OverallWinner(cohort)), revision |-> Revision(cohort),
       blocks |-> MessageBlocks(cohort, role, call, result),
       createdAt |-> Earliest(cohort), updatedAt |-> Latest(cohort),
       optional |-> ChosenFields(cohort, {"model", "usage", "stopReason", "error"}),
       provenance |-> Provenance(OverallWinner(cohort), obs)]

MaterializeMessage(obs, id) ==
  LET cohort == AuthorityCohort(obs)
  IN  MessageOf([i \in DOMAIN cohort |-> WithLinkage(cohort[i])], obs, id)

MaterializeTool(obs, id) ==
  LET cohort == AuthorityCohort(obs)
  IN  [id |-> id, runId |-> ChosenLink(cohort, "runId"), turnId |-> ChosenLink(cohort, "turnId"),
       parentMessageId |-> ChosenLink(cohort, "messageId"),
       toolResultId |-> ChosenLink(cohort, "toolResultId"),
       order |-> Chosen(cohort, "toolIndex", Latest(cohort)),
       name |-> Chosen(cohort, "toolName", "unknown"),
       state |-> StateOf(OverallWinner(cohort)), revision |-> Revision(cohort),
       arguments |-> Chosen(cohort, "args", None),
       optional |-> ChosenFields(cohort, {"partialResult", "result", "isError"}),
       createdAt |-> Earliest(cohort), updatedAt |-> Latest(cohort),
       provenance |-> Provenance(OverallWinner(cohort), obs)]
=============================================================================
