----------------------------- MODULE ClaudeLog -----------------------------
(***************************************************************************)
(* importClaudeSession (packages/usl-convert/src/claude.ts).               *)
(*                                                                         *)
(* An entry of the log: its type, its uuid and the uuid of its parent      *)
(* (None when absent), for an assistant entry the id of the message it     *)
(* continues, its content (the blocks, or None), isMeta and isSidechain.   *)
(***************************************************************************)
EXTENDS Bundle

ClaudeType == [text |-> "text", thinking |-> "thinking", tool_use |-> "tool-call",
               tool_result |-> "tool-result", image |-> "image"]

Canonical(x) == IF x.type \in DOMAIN ClaudeType THEN [x EXCEPT !.type = ClaudeType[x.type]]
                ELSE [type |-> "unknown", nativeType |-> x.type, v |-> x.v]
ToCanonical(content) == [i \in DOMAIN content |-> Canonical(content[i])]

\* An entry as it is written: a result names its call and is in a user entry,
\* a call or a thought in an assistant entry; any other entry has no content.
IsClaudeEntry(e) ==
  /\ DOMAIN e = {"type", "uuid", "mid", "parent", "content", "meta", "side", "v", "ts"}
  /\ Row(e.content) /\ e.meta \in BOOLEAN /\ e.side \in BOOLEAN
  /\ IF e.type \in {"user", "assistant"} THEN e.v = <<>> ELSE e.content = <<>>
  /\ \A x \in ToSet(e.content) :
       /\ Plain(x)
       /\ x.type \notin (IF e.type = "user" THEN {"thinking", "tool_use"} ELSE {"tool_result"})
       /\ x.type \in {"tool_use", "tool_result"} => Names(x)
       /\ x.type = "tool_result" =>
            /\ {"result", "isError"} \subseteq DOMAIN x
            /\ x.result = ResultOf(x.call) /\ x.isError \in BOOLEAN
IsClaudeLog(log) == Row(log) /\ \A e \in ToSet(log) : IsClaudeEntry(e)

\* Assistant entries with one message id are one message, at its last entry.
\* parsed.indexOf of a new object is -1: entries without any id share a key.
GroupKey(e) == IF e.mid # None THEN e.mid ELSE IF e.uuid # None THEN e.uuid ELSE <<"line", -1>>
GroupOf(log, i) ==
  {j \in DOMAIN log : log[j].type = "assistant" /\ GroupKey(log[j]) = GroupKey(log[i])}

\* Mutant: a message stands where its first entry stands.
Timeline_First(log) == {j \in DOMAIN log : log[j].type = "assistant" => j = Min(GroupOf(log, j))}
Timeline(log) == {j \in DOMAIN log : log[j].type = "assistant" => j = Max(GroupOf(log, j))}

OrElse(a, b) == IF a # None THEN a ELSE b
Line(i) == <<"line", i>>

CloseClaudeRun(b) == EmitClose(b, "completed", LastTs(b))
OpenClaudeRun(b, seed, ts) == EmitOpen(b, <<"run">> \o seed, <<"import">> \o seed, ts)
EnsureClaudeRun(b, seed, ts) == IF b.run = None THEN OpenClaudeRun(b, seed, ts) ELSE b

\* messageIdByUuid as the events so far have filled it: b.byUuid.
Parent(b, e) == IF e.parent # None /\ e.parent \in DOMAIN b.byUuid
                THEN [parentId |-> b.byUuid[e.parent]] ELSE <<>>
Remember(b, uuids, id) ==
  [b EXCEPT !.byUuid = [u \in DOMAIN @ \cup (uuids \ {None}) |->
                          IF u \in uuids THEN id ELSE @[u]]]

\* A message of the current run, by which its entries are remembered.
ClaudeSaid(b, message, nid, ts, uuids, id, corr) ==
  Remember(EmitMessage(b, message, nid, ts, With(MessageCorr(b, id), corr)), uuids, id)

AssistantGroup(b, log, i) ==
  LET group == GroupOf(log, i)
      first == log[Min(group)]
      last == log[i]
      id == <<"message">> \o OrElse(last.mid, OrElse(last.uuid, <<"group", i>>))
      content == FlattenSeq([j \in DOMAIN log |->
                               IF j \in group THEN ToCanonical(log[j].content) ELSE <<>>])
      opened == EnsureClaudeRun(b, OrElse(first.uuid, <<"group", i>>), last.ts)
      declared == DeclareAll(opened, content, {k \in DOMAIN content : content[k].type = "tool-call"})
      parent == IF Parent(b, first) # <<>> THEN Parent(b, first) ELSE Parent(b, last)
  IN  [ClaudeSaid(declared, [role |-> "assistant", content |-> content], OrElse(last.uuid, first.uuid),
                  last.ts, {log[j].uuid : j \in group}, id, parent)
         EXCEPT !.loss = @ \cup (IF group # {i} THEN {"block-append entries merged"} ELSE {})]

\* One tool_result block of a user entry: a message and a completed tool.
Answered(b, e, x, id) ==
  LET link == [toolCallId |-> x.call, toolResultId |-> ResultOf(x.call)]
      tool == Declared(b, x.call)
  IN  EmitTool(ClaudeSaid(b, With([role |-> "tool", content |-> <<Canonical(x)>>], link),
                          e.uuid, e.ts, {e.uuid}, id, link),
               tool.name, tool.args, x.content, x.isError, e.uuid, e.ts,
               With(MessageCorr(b, id), link))

ToolResult(b, e, i, x) ==
  LET seed == OrElse(e.uuid, Line(i))
  IN  IF x.type # "tool_result" THEN b
      ELSE IF x.call = None THEN Lose(b, "tool_result without tool_use_id")
      ELSE Answered(EnsureClaudeRun(b, seed, e.ts), e, x, <<"result">> \o seed \o x.call)

UserText(b, e, i, texts) ==
  IF texts = <<>> THEN b
  ELSE ClaudeSaid(b, [role |-> "user", content |-> texts], e.uuid, e.ts, {e.uuid},
                  <<"message">> \o OrElse(e.uuid, Line(i)), Parent(b, e))

UserEntry(b, e, i) ==
  LET texts == OfTypes(ToCanonical(e.content), {"text", "image", "unknown"})
      seed == OrElse(e.uuid, Line(i))
      isPrompt == /\ \A x \in ToSet(e.content) : x.type # "tool_result"
                  /\ texts # <<>> /\ ~e.meta /\ ~e.side
      opened == IF isPrompt THEN OpenClaudeRun(CloseClaudeRun(b), seed, e.ts) ELSE EnsureClaudeRun(b, seed, e.ts)
  IN  UserText(FoldLeft(LAMBDA acc, x : ToolResult(acc, e, i, x), opened, e.content), e, i, texts)

Entry(b, log, i) ==
  CASE log[i].type = "assistant" -> AssistantGroup(b, log, i)
    [] log[i].type = "user" -> UserEntry(b, log[i], i)
    [] OTHER -> EmitUnknown(b, log[i].type, log[i].v, log[i].uuid, log[i].ts, <<>>)

ClaudeStep(b, log, i) == IF i \in Timeline(log) THEN Entry(b, log, i) ELSE b

ImportClaudeSession(log, hash) ==
  LET b0 == Emit(Started(hash), <<"session", "started">>,
                 [reason |-> "import"], <<"session", 0>>, log[1].ts, <<>>, 0)
  IN  MakeBundle("claude", log,
                 EmitEnd(CloseClaudeRun(FoldLeftDomain(LAMBDA b, i : ClaudeStep(b, log, i), b0, log))))
=============================================================================
