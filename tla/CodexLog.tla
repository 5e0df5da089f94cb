------------------------------ MODULE CodexLog ------------------------------
(***************************************************************************)
(* importCodexSession and exportCodexSession                               *)
(* (packages/usl-convert/src/codex.ts).                                    *)
(*                                                                         *)
(* A record of a rollout: its type, the type of its payload (item), and    *)
(* what the payload has: role and content of a message, the call id and    *)
(* arguments or output of a call, summary and encrypted_content (enc,      *)
(* <<>> when absent, <<0>> when null) of reasoning; enc also stands for    *)
(* its content, which is kept and written back beside encrypted_content.   *)
(***************************************************************************)
EXTENDS Bundle

Reasoning == "codex.encrypted_reasoning"
BlankRecord == [type |-> "response_item", item |-> "", role |-> "", call |-> None,
                content |-> <<>>, output |-> [form |-> "null", v |-> <<>>],
                summary |-> <<>>, enc |-> <<>>, v |-> <<>>, ts |-> 0]

\* A record as it is written: its values are where its kind has them, and the log
\* begins with session_meta.
Carriers(r) ==
  IF r.type # "response_item" THEN {"v"}
  ELSE CASE r.item = "message" -> {"content"} [] r.item = "reasoning" -> {"summary", "enc"}
         [] r.item = "function_call_output" -> {"output"} [] OTHER -> {"v"}
IsRecord(r) ==
  /\ DOMAIN r = DOMAIN BlankRecord
  /\ \A key \in {"v", "content", "summary", "enc"} \ Carriers(r) : r[key] = <<>>
  /\ "output" \notin Carriers(r) => r.output.v = <<>>
  /\ \A x \in ToSet(r.content) : Plain(x)
IsCodexLog(log) ==
  Row(log) /\ log[1].type = "session_meta" /\ \A r \in ToSet(log) : IsRecord(r)

CodexType == [input_text |-> "text", output_text |-> "text", text |-> "text",
              input_image |-> "image", image |-> "image"]
MessageContentToBlocks(content) ==
  [i \in DOMAIN content |->
     IF content[i].type \in DOMAIN CodexType
     THEN [content[i] EXCEPT !.type = CodexType[content[i].type]]
     ELSE [type |-> "unknown", nativeType |-> content[i].type, v |-> content[i].v]]

CloseCodexRun(b, state) == EmitClose(b, state, LastTs(b))
OpenCodexRun(b, i, ts) == EmitOpen(b, <<"run", "rec", i>>, <<"import", "rec", i>>, ts)
EnsureCodexRun(b, i, ts) == IF b.run = None THEN OpenCodexRun(b, i, ts) ELSE b

RecordCorr(b, i) == MessageCorr(b, <<"message", "rec", i>>)

\* A record of the current run that is no message.
InRun(b, nativeType, r) == EmitUnknown(b, nativeType, r.v, None, r.ts, RunCorr(b.run))

TurnContext(b, r, i) ==
  InRun(OpenCodexRun(CloseCodexRun(b, "completed"), i, r.ts), "codex.turn_context", r)

\* Of the render stream only these two are kept; the run stays open.  A record of
\* any other kind leaves nothing behind, whether it repeats a response_item or not.
EventMsg(b, r, i) ==
  CASE r.item = "token_count" -> InRun(EnsureCodexRun(b, i, r.ts), r.item, r)
    [] r.item = "turn_aborted" -> CloseCodexRun(InRun(EnsureCodexRun(b, i, r.ts), r.item, r), "cancelled")
    [] OTHER -> b

CodexMessage(b, r, i) ==
  EmitMessage(b, [role |-> IF r.role \in {"user", "assistant", "system"} THEN r.role ELSE "unknown",
                  content |-> MessageContentToBlocks(r.content)], None, r.ts, RecordCorr(b, i))

\* Mutant: of reasoning only the summary is kept.
ReasoningBlocks_SummaryOnly(r) ==
  IF r.summary = <<>> THEN <<>> ELSE <<[type |-> "thinking", v |-> r.summary]>>

ReasoningBlocks(r) ==
  (IF r.summary = <<>> THEN <<>> ELSE <<[type |-> "thinking", v |-> r.summary]>>)
  \o (IF r.enc = <<>> /\ r.summary = <<>> THEN <<>>
      ELSE <<[type |-> "unknown", nativeType |-> Reasoning, summary |-> r.summary,
              enc |-> r.enc, v |-> <<>>]>>)

FunctionCall(b, r, i) ==
  LET call == IF r.call = None THEN <<"call", -i>> ELSE r.call
  IN  EmitMessage(Declare(b, call, r.v),
                  [role |-> "assistant",
                   content |-> <<[type |-> "tool-call", call |-> call, v |-> r.v]>>],
                  None, r.ts, RecordCorr(b, i))

FunctionCallOutput(b, r, i) ==
  IF r.call = None THEN Lose(b, "function_call_output without call_id")
  ELSE LET result == ResultOf(r.call)
           corr == With(RecordCorr(b, i), [toolCallId |-> r.call, toolResultId |-> result])
           block == [type |-> "tool-result", call |-> r.call, result |-> result,
                     content |-> r.output, isError |-> FALSE, v |-> r.output.v]
           tool == Declared(b, r.call)
           b1 == EmitMessage(b, [role |-> "tool", content |-> <<block>>, toolCallId |-> r.call,
                                 toolResultId |-> result], None, r.ts, corr)
       IN  EmitTool(b1, tool.name, tool.args, r.output, FALSE, None, r.ts, corr)

ResponseItem(b, r, i) ==
  CASE r.item = "message" -> CodexMessage(b, r, i)
    [] r.item = "reasoning" ->
         EmitMessage(b, [role |-> "assistant", content |-> ReasoningBlocks(r)],
                     None, r.ts, RecordCorr(b, i))
    [] r.item = "function_call" -> FunctionCall(b, r, i)
    [] r.item = "function_call_output" -> FunctionCallOutput(b, r, i)
    [] OTHER -> InRun(b, r.item, r)

CodexStep(b, r, i) ==
  CASE r.type = "session_meta" -> EmitUnknown(b, "codex.session_meta", r.v, None, r.ts, <<>>)
    [] r.type = "turn_context" -> TurnContext(b, r, i)
    [] r.type = "event_msg" -> EventMsg(b, r, i)
    [] r.type = "response_item" -> ResponseItem(EnsureCodexRun(b, i, r.ts), r, i)
    [] OTHER -> EmitUnknown(b, r.type, r.v, None, r.ts, <<>>)

ImportCodexSession(log, hash) ==
  LET meta == log[Min({i \in DOMAIN log : log[i].type = "session_meta"})]
      b0 == Emit(Started(hash), <<"session", "started">>, [reason |-> "import"],
                 None, meta.ts, <<>>, 0)
  IN  MakeBundle("codex", log,
                 EmitEnd(CloseCodexRun(FoldLeftDomain(LAMBDA b, i : CodexStep(b, log[i], i), b0, log),
                                       "completed")))

---------------------------------------------------------------------------
(* messageToResponseItems: a message splits into reasoning, message and    *)
(* function calls; the result of a tool comes from the tool, not the block.*)

ReasoningItem(m) ==
  LET enc == SelectSeq(m.blocks, LAMBDA x : x.type = "unknown" /\ x.nativeType = Reasoning)
      thinking == TextOf(SelectSeq(m.blocks, LAMBDA x : x.type = "thinking"))
      item == [BlankRecord EXCEPT !.item = "reasoning", !.ts = m.createdAt]
  IN  IF enc # <<>> THEN <<[item EXCEPT !.summary = enc[1].summary,
                                        !.enc = IF enc[1].enc = <<>> THEN <<0>> ELSE enc[1].enc]>>
      ELSE IF thinking # <<>> THEN <<[item EXCEPT !.summary = thinking, !.enc = <<0>>]>>
      ELSE <<>>

MessageItem(m) ==
  LET texts == SelectSeq(m.blocks, LAMBDA x : x.type \in {"text", "image"})
      native == [text |-> IF m.role = "user" THEN "input_text" ELSE "output_text",
                 image |-> "input_image"]
  IN  IF texts = <<>> \/ m.role \notin {"user", "assistant"} THEN <<>>
      ELSE <<[BlankRecord EXCEPT !.item = "message", !.role = m.role, !.ts = m.createdAt,
                !.content = [i \in DOMAIN texts |-> [texts[i] EXCEPT !.type = native[@]]]]>>

CallItems(m) ==
  LET calls == SelectSeq(m.blocks, LAMBDA x : x.type = "tool-call")
  IN  [i \in DOMAIN calls |-> [BlankRecord EXCEPT !.item = "function_call", !.call = calls[i].call,
                                                  !.v = calls[i].v, !.ts = m.createdAt]]

OutputItem(m, tools) ==
  LET tool == SelectSeq(tools, LAMBDA t : t.id = m.toolCallId)
      null == [form |-> "null", v |-> <<>>]
      result == IF tool = <<>> THEN null ELSE Get(tool[1].optional, "result", null)
  IN  [BlankRecord EXCEPT !.item = "function_call_output", !.call = m.toolCallId,
         !.output = [form |-> "string", v |-> result.v], !.ts = m.createdAt]

MessageToResponseItems(m, tools) ==
  IF m.role = "tool" THEN <<OutputItem(m, tools)>>
  ELSE ReasoningItem(m) \o MessageItem(m) \o CallItems(m)

\* The runs in the order of their first message, each under a turn_context.
ExportCodexSession(bundle) ==
  LET messages == Ordered(bundle.pivot.messages)
      runs == FoldLeft(LAMBDA rs, m : IF m.runId \in ToSet(rs) THEN rs ELSE Append(rs, m.runId),
                       <<>>, messages)
      observed == SelectSeq(bundle.events, LAMBDA e : e.type = <<"unknown", "observed">>)
      Values(natives) == SelectSeq(observed, LAMBDA e : e.body.nativeType \in natives)
      meta == Values({"codex.session_meta"})
      Context(run) == SelectSeq(Values({"codex.turn_context"}), LAMBDA e : e.corr.runId = run)
      Of(run) == SelectSeq(messages, LAMBDA m : m.runId = run)
      Turn(run) ==
        <<[BlankRecord EXCEPT !.type = "turn_context", !.ts = Of(run)[1].createdAt,
             !.v = IF Context(run) = <<>> THEN <<>> ELSE Context(run)[1].body.value]>>
        \o FlattenSeq([i \in DOMAIN Of(run) |->
                         MessageToResponseItems(Of(run)[i], bundle.pivot.tools)])
      uiEvents == Values({"token_count", "turn_aborted"})
  IN  [log |-> <<[BlankRecord EXCEPT !.type = "session_meta", !.ts = bundle.events[1].ts,
                    !.v = IF meta = <<>> THEN <<>> ELSE meta[1].body.value]>>
               \o FlattenSeq([i \in DOMAIN runs |-> Turn(runs[i])])
               \o [i \in DOMAIN uiEvents |->
                     [BlankRecord EXCEPT !.type = "event_msg", !.item = uiEvents[i].body.nativeType,
                        !.v = uiEvents[i].body.value, !.ts = uiEvents[i].ts]],
       loss |-> {w \in {"session_meta", "turn_context", "thinking", "event order"} :
                   \/ w = "session_meta" /\ meta = <<>>
                   \/ w = "turn_context" /\ \E run \in ToSet(runs) : Context(run) = <<>>
                   \/ w = "event order" /\ uiEvents # <<>>
                   \/ w = "thinking" /\ \E m \in ToSet(messages) :
                        /\ \E x \in ToSet(m.blocks) : x.type = "thinking"
                        /\ \A x \in ToSet(m.blocks) : x.type = "unknown" => x.nativeType # Reasoning}]
=============================================================================
