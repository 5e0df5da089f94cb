---------------------------- MODULE DimagentLog ----------------------------
(***************************************************************************)
(* importDimagentSession and exportDimagentSession                         *)
(* (packages/usl-convert/src/dimagent.ts).                                 *)
(*                                                                         *)
(* A row of the table messages: its messageId, role, the run its metadata  *)
(* name (None when they name none), its parts, attachments (<<>> when      *)
(* null), the key it is ordered by, and when it was created and updated.   *)
(* A result of the form "error" is an object whose status is "error".      *)
(***************************************************************************)
EXTENDS Bundle

CONSTANT KeyModulus    \* 10000: the sequence number in a key is taken modulo this

\* Rows with one key stay in the order they are read in.
RowBefore(rows, j, i) == Below(Append(rows[j].key, j), Append(rows[i].key, i))
RowPlace(rows, i) == Cardinality({j \in DOMAIN rows : RowBefore(rows, j, i)}) + 1
ParseRows(rows) == [k \in DOMAIN rows |-> rows[CHOOSE i \in DOMAIN rows : RowPlace(rows, i) = k]]

DimagentType == [text |-> "text", thinking |-> "thinking", tool_use |-> "tool-call",
                 tool_result |-> "tool-result"]

\* The fields of a row; a result has the id its call stands for, and the key is a
\* time and a number.
IsRow(r) ==
  /\ DOMAIN r = {"mid", "role", "run", "parts", "att", "key", "ts", "upd"}
  /\ Row(r.parts) /\ r.key \in Int \X Int
  /\ \A x \in ToSet(r.parts) :
       /\ Plain(x)
       /\ x.type \in {"tool_use", "tool_result"} => "call" \in DOMAIN x
       /\ x.type = "tool_result" =>
            /\ {"result", "isError", "content"} \subseteq DOMAIN x
            /\ (x.call # None => x.result = ResultOf(x.call)) /\ x.isError \in BOOLEAN
IsDimagentLog(log) == Row(log) /\ \A r \in ToSet(log) : IsRow(r)

\* Mutant: an output that reports its own error is a success.
FailedPart_FlagOnly(x) == x.isError
FailedPart(x) == x.isError \/ x.content.form = "error"

DimPartsToCanonical(parts) ==
  [i \in DOMAIN parts |->
     IF parts[i].type = "tool_result"
     THEN [parts[i] EXCEPT !.type = "tool-result", !.isError = FailedPart(parts[i])]
     ELSE IF parts[i].type \in DOMAIN DimagentType
     THEN [parts[i] EXCEPT !.type = DimagentType[parts[i].type]]
     ELSE [type |-> "unknown", nativeType |-> parts[i].type, v |-> parts[i].v]]

CloseDimagentRun(b, ts) == EmitClose(b, "completed", ts)
OpenDimagentRun(b, seed, ts) == EmitOpen(b, <<"run">> \o seed, seed, ts)

\* A row that names another run than the current one ends it; one that names
\* none stays in the current run, or opens one of its own.
EnterRun(b, r) ==
  IF r.run # None
  THEN IF b.run = <<"run">> \o r.run THEN b ELSE OpenDimagentRun(CloseDimagentRun(b, r.ts), r.run, r.ts)
  ELSE IF b.run = None THEN OpenDimagentRun(b, <<"nolabel">> \o r.mid, r.ts) ELSE b

\* The last tool_result part of a row of that role that names its call.
ToolPart(r) ==
  LET at == {i \in DOMAIN r.parts : r.parts[i].type = "tool_result" /\ r.parts[i].call # None}
  IN  IF r.role = "tool_result" /\ at # {} THEN <<r.parts[Max(at)]>> ELSE <<>>

CanonicalRole(role) == CASE role = "tool_result" -> "tool"
                         [] role \in {"user", "assistant", "system"} -> role
                         [] OTHER -> "unknown"

\* message.started has the index, message.completed is its second revision.
RowMessage(b, r) ==
  LET message == [role |-> CanonicalRole(r.role), content |-> DimPartsToCanonical(r.parts)]
      own == MessageCorr(b, <<"message">> \o r.mid)
      corr == IF ToolPart(r) = <<>> THEN own
              ELSE With(own, [toolCallId |-> ToolPart(r)[1].call,
                              toolResultId |-> ResultOf(ToolPart(r)[1].call)])
      b1 == IF r.att = <<>> THEN b ELSE EmitUnknown(b, "attachment", r.att, r.mid, r.ts, own)
      b2 == Emit(b1, <<"message", "started">>,
                 With(message, [messageIndex |-> b.messageIndex, state |-> "running"]),
                 r.mid, r.ts, corr, 1)
  IN  [Emit(b2, <<"message", "completed">>, With(message, [state |-> "completed"]),
            r.mid, r.upd, corr, 2)
         EXCEPT !.messageIndex = @ + 1]

StartTool(b, r, x) ==
  IF x.type # "tool_use" \/ x.call = None THEN b ELSE
  [Emit(Declare(b, x.call, x.v), <<"tool", "started">>,
        [toolName |-> "tool", args |-> x.v, toolIndex |-> b.toolIndex, state |-> "running"],
        r.mid, r.ts,
        With(MessageCorr(b, <<"message">> \o r.mid), [toolCallId |-> x.call]), 1)
     EXCEPT !.toolIndex = @ + 1]

RowTools(b, r) ==
  LET x == ToolPart(r)[1]
      tool == Declared(b, x.call)
      link == [toolCallId |-> x.call, toolResultId |-> ResultOf(x.call)]
      corr == With(IF x.call \in DOMAIN b.declared THEN RunCorr(b.run)
                   ELSE MessageCorr(b, <<"message">> \o r.mid), link)
  IN  IF r.role = "assistant" THEN FoldLeft(LAMBDA acc, y : StartTool(acc, r, y), b, r.parts)
      ELSE IF ToolPart(r) = <<>> THEN b
      ELSE EmitTool(b, tool.name, tool.args, x.content, FailedPart(x), r.mid, r.upd, corr)

DimagentStep(b, r) == RowTools(RowMessage(EnterRun(b, r), r), r)

ImportDimagentSession(rows, hash) ==
  LET log == ParseRows(rows)
      b0 == Emit(Started(hash), <<"session", "started">>, [reason |-> "import"],
                 <<"session", 0>>, log[1].ts, <<>>, 0)
  IN  MakeBundle("dimagent", rows, EmitEnd(CloseDimagentRun(FoldLeft(DimagentStep, b0, log), Last(log).upd)))

---------------------------------------------------------------------------
OrderKey(ts, seq) == <<ts, seq % KeyModulus>>

TypeInDimagent == [text |-> "text", thinking |-> "thinking", image |-> "image",
                   reference |-> "reference", error |-> "error"] @@ ("tool-call" :> "tool_use")

CanonicalBlocksToParts(blocks) ==
  [i \in DOMAIN blocks |->
     IF blocks[i].type \in DOMAIN TypeInDimagent THEN [blocks[i] EXCEPT !.type = TypeInDimagent[@]]
     ELSE [type |-> "unknown", v |-> blocks[i].v]]

BlankRow(m) == [mid |-> <<"msg">> \o m.id, role |-> "unknown", run |-> m.runId, parts |-> <<>>,
                att |-> <<>>, key |-> <<0, 0>>, ts |-> m.createdAt, upd |-> m.updatedAt]

\* isError goes to the tool metadata, which no import reads.
ResultPart(x) ==
  [type |-> "tool_result", call |-> x.call, result |-> x.result, isError |-> FALSE, v |-> x.v,
   content |-> IF x.content.form = "null" THEN [x.content EXCEPT !.form = "string"]
               ELSE x.content]

\* A row for each result of a tool message, one row for any other message.
MessageRows(m) ==
  LET results == SelectSeq(m.blocks, LAMBDA x : x.type = "tool-result")
  IN  IF m.role = "tool"
      THEN [i \in DOMAIN results |-> [BlankRow(m) EXCEPT !.role = "tool_result",
                                                         !.parts = <<ResultPart(results[i])>>]]
      ELSE <<[BlankRow(m) EXCEPT !.role = IF m.role \in {"user", "assistant"} THEN m.role ELSE @,
                                 !.parts = CanonicalBlocksToParts(m.blocks)]>>

\* Runs by their start, then by id, which is a hash.
RunOrder(runs, hash) ==
  SortSeq([i \in DOMAIN runs |-> i],
          LAMBDA i, j : Below(<<runs[i].startedAt, hash * i>>, <<runs[j].startedAt, hash * j>>))

ExportDimagentSession(bundle, hash) ==
  LET order == RunOrder(bundle.pivot.runs, hash)
      InRun(run) == Ordered(SelectSeq(bundle.pivot.messages, LAMBDA m : m.runId = run.id))
      messages == FlattenSeq([k \in DOMAIN order |-> InRun(bundle.pivot.runs[order[k]])])
      rows == FlattenSeq([k \in DOMAIN messages |-> MessageRows(messages[k])])
  IN  [log |-> [k \in DOMAIN rows |-> [rows[k] EXCEPT !.key = OrderKey(rows[k].ts, k - 1)]],
       loss |-> {}]
=============================================================================
