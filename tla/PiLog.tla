------------------------------- MODULE PiLog -------------------------------
(***************************************************************************)
(* importPiSession and exportPiSession (packages/usl-convert/src/pi.ts).   *)
(*                                                                         *)
(* An entry of a session file: its type, id (None when absent), parent,    *)
(* and for a message its role, content, toolCallId (call) and isError.  A  *)
(* result among the blocks of a message has the result id it is given, or  *)
(* the one its call stands for.                                            *)
(***************************************************************************)
EXTENDS Bundle

BlankEntry == [type |-> "message", id |-> None, parent |-> None, role |-> "", call |-> None,
               content |-> <<>>, isError |-> FALSE, v |-> <<>>, ts |-> 0]

PiType == [text |-> "text", thinking |-> "thinking", reasoning |-> "thinking",
           toolCall |-> "tool-call", toolResult |-> "tool-result", image |-> "image"]

\* The fields of an entry, and that the log begins with its only session entry.
IsPiEntry(e) ==
  /\ DOMAIN e = DOMAIN BlankEntry /\ e.isError \in BOOLEAN
  /\ IF e.type = "message" THEN e.v = <<>> ELSE e.content = <<>>
  /\ \A x \in ToSet(e.content) :
       /\ Plain(x)
       /\ x.type \in {"toolCall", "toolResult"} => "call" \in DOMAIN x
       /\ x.type = "toolResult" => {"result", "isError", "content"} \subseteq DOMAIN x
IsPiLog(log) ==
  /\ Row(log) /\ \A e \in ToSet(log) : IsPiEntry(e)
  /\ \A i \in DOMAIN log : log[i].type = "session" <=> i = 1
  /\ log[1].type = "session" /\ log[1].v = <<>>

\* An unknown block that is canonical already is kept as it is.
PiBlocksToCanonical(content) ==
  [i \in DOMAIN content |->
     IF content[i].type \in DOMAIN PiType
     THEN [content[i] EXCEPT !.type = PiType[content[i].type]]
     ELSE IF content[i].type = "unknown" THEN content[i]
     ELSE [type |-> "unknown", nativeType |-> content[i].type, v |-> content[i].v]]

\* Mutant: a run is not closed.
ClosePiRun_Left(b) == b
ClosePiRun(b) == EmitClose(b, "completed", LastTs(b))
OpenPiRun(b, seed, ts) == EmitOpen(b, <<"run">> \o seed, <<"import">> \o seed, ts)

DeclareCalls(b, e) ==
  LET calls == {i \in DOMAIN e.content : e.content[i].type = "toolCall" /\ e.content[i].call # None}
  IN  IF e.role = "assistant" THEN DeclareAll(b, e.content, calls) ELSE b

\* The fields of a message go with it, toolCallId whatever its role.
PiSaid(b, e, link) ==
  EmitMessage(b, With([role |-> e.role, content |-> PiBlocksToCanonical(e.content),
                       isError |-> e.isError],
                      IF e.call = None THEN <<>> ELSE [toolCallId |-> e.call]),
              e.id, e.ts, With(MessageCorr(b, <<"message">> \o e.id), link))

\* A message, and the completed tool when it answers a call.
Spoken(b, e) ==
  LET link == [toolCallId |-> e.call, toolResultId |-> ResultOf(e.call)]
      tool == Declared(b, e.call)
  IN  IF e.role # "toolResult" \/ e.call = None THEN PiSaid(b, e, <<>>)
      ELSE EmitTool(PiSaid(b, e, link), tool.name, tool.args,
                    [form |-> "blocks", v |-> TextOf(e.content)], e.isError, e.id, e.ts,
                    With(MessageCorr(b, <<"message">> \o e.id), link))

MessageEntry(b, e) ==
  LET seed == IF e.id = None THEN <<"entry", Len(b.events)>> ELSE e.id
      opened == IF e.role = "user" \/ b.run = None THEN OpenPiRun(ClosePiRun(b), seed, e.ts) ELSE b
  IN  IF e.id = None THEN [opened EXCEPT !.failed = TRUE] ELSE Spoken(DeclareCalls(opened, e), e)

PiStep(b, e) ==
  CASE e.type = "session" -> b
    [] e.type = "message" -> MessageEntry(b, e)
    [] OTHER -> EmitUnknown(b, e.type, e.v, e.id, e.ts, <<>>)

ImportPiSession(log, hash) ==
  LET session == log[Min({i \in DOMAIN log : log[i].type = "session"})]
      b0 == Emit(Started(hash), <<"session", "started">>, [reason |-> "import"],
                 <<"session", 0>>, session.ts, <<>>, 0)
  IN  MakeBundle("pi", log, EmitEnd(ClosePiRun(FoldLeft(PiStep, b0, log))))

---------------------------------------------------------------------------
TypeInPi == [text |-> "text", thinking |-> "thinking", image |-> "image",
             reference |-> "reference"] @@ ("tool-call" :> "toolCall")

CanonicalBlocksToPi(blocks) ==
  [i \in DOMAIN blocks |->
     IF blocks[i].type \in DOMAIN TypeInPi THEN [blocks[i] EXCEPT !.type = TypeInPi[@]]
     ELSE IF blocks[i].type = "unknown" THEN blocks[i]
     ELSE [type |-> "unknown", nativeType |-> blocks[i].type, v |-> blocks[i].v]]

\* Mutant: only results that are lists of blocks have content.
ToolResultContentToPi_BlocksOnly(content) ==
  IF content.form # "blocks" THEN <<>>
  ELSE [i \in DOMAIN content.v |-> [type |-> "text", v |-> <<content.v[i]>>]]

\* A result becomes text blocks, one per block it had, or one for all of it.
ToolResultContentToPi(content) ==
  CASE content.form = "null" -> <<>>
    [] content.form = "blocks" ->
         [i \in DOMAIN content.v |-> [type |-> "text", v |-> <<content.v[i]>>]]
    [] OTHER -> <<[type |-> "text", v |-> content.v]>>

\* The native id when it looks like one of pi's, else a hash of the event id.
EntryIdFor(e) == IF e.nid # None /\ e.nid[1] \in {"pi", "ev"} THEN e.nid ELSE <<"ev", e.id>>

PiTypes == {"model_change", "thinking_level_change", "custom", "custom_message"}

PiMessage(m) ==
  LET result == SelectSeq(m.blocks, LAMBDA x : x.type = "tool-result")
      content == IF result = <<>> THEN <<>> ELSE ToolResultContentToPi(result[1].content)
  IN  IF m.role = "tool"
      THEN [BlankEntry EXCEPT !.role = "toolResult", !.call = m.toolCallId, !.content = content,
                              !.isError = result # <<>> /\ result[1].isError]
      ELSE [BlankEntry EXCEPT !.role = m.role, !.content = CanonicalBlocksToPi(m.blocks)]

\* Each pushed entry names the one pushed before it as its parent.
PushEvent(out, e, messages) ==
  LET Push(entry) == [out EXCEPT !.log = Append(@, [entry EXCEPT
                        !.id = EntryIdFor(e), !.parent = Last(out.log).id, !.ts = e.ts])]
      m == SelectSeq(messages, LAMBDA x : x.id = e.corr.messageId)
  IN  CASE e.type = <<"unknown", "observed">> ->
             IF e.body.nativeType \in PiTypes
             THEN Push([BlankEntry EXCEPT !.type = e.body.nativeType, !.v = e.body.value])
             ELSE [out EXCEPT !.loss = @ \cup {e.body.nativeType}]
        [] e.type = <<"message", "completed">> -> Push(PiMessage(m[1]))
        [] OTHER -> out

ExportPiSession(bundle) ==
  FoldLeft(LAMBDA out, e : PushEvent(out, e, bundle.pivot.messages),
           [log |-> <<[BlankEntry EXCEPT !.type = "session", !.id = <<"session", 0>>,
                                         !.ts = bundle.events[1].ts]>>,
            loss |-> {}], bundle.events)
=============================================================================
