----------------------------- MODULE MCConvert -----------------------------
(* Instances of Convert for TLC: the records of the four formats that the  *)
(* importers tell apart.  The value of the record at place i is <<i>>; its *)
(* second value, when it has two, is <<10 + i>>.  Call 2 fails, and its    *)
(* result is a list of blocks; that of call 1 is a string.                 *)
EXTENDS Convert

CONSTANT Kinds   \* the kinds of record written

Call(n) == <<"call", n>>
Text(i) == [type |-> "text", v |-> <<i>>]
Thinking(i) == [type |-> "thinking", v |-> <<10 + i>>]
Content(n, i) == [form |-> IF n = 2 THEN "blocks" ELSE "string", v |-> <<i>>]
Use(type, n, i) == [type |-> type, call |-> Call(n), v |-> <<10 + i>>]
Result(n, i) == [type |-> "tool_result", call |-> Call(n), result |-> ResultOf(Call(n)),
                 content |-> Content(n, i), isError |-> n = 2, v |-> <<i>>]

\* A record of a kind, about the calls it declares and those it answers.
Shaped(kind, declares, answers) == [kind |-> kind, declares |-> declares, answers |-> answers]

Shapes(name) ==
  LET tools == {Shaped("call", {1}, {}), Shaped("call", {2}, {}),
                Shaped("result", {}, {1}), Shaped("result", {}, {2})}
      plain(kinds) == {Shaped(k, {}, {}) : k \in kinds}
  IN  tools \cup
      (CASE name = "claude" -> plain({"prompt", "note", "text", "other"})
                                  \cup {Shaped("same", {2}, {}), Shaped("results", {}, {1, 2})}
         [] name = "codex" -> plain({"prompt", "note", "text", "reasoning", "turn", "abort",
                                        "usage", "duplicate", "event", "uncalled", "other"})
         [] name = "pi" -> plain({"prompt", "text", "unnamed", "other"})
                              \cup {Shaped("calls", {1, 2}, {}), Shaped("answer", {}, {2}),
                                    Shaped("answers", {}, {1, 2}), Shaped("quoted", {}, {})}
         [] name = "dimagent" -> plain({"prompt", "text", "note"})
                                    \cup {Shaped("results", {}, {1, 2})})

ClaudeEntry(s, n, i, ts, native) ==
  LET assistants == SelectSeq(native, LAMBDA e : e.type = "assistant")
      last == IF assistants = <<>> THEN <<"m", i>> ELSE Last(assistants).mid
      e == [type |-> "user", uuid |-> <<"uuid", i>>, mid |-> None,
            parent |-> IF native = <<>> THEN None ELSE Last(native).uuid,
            content |-> <<Text(i)>>, meta |-> FALSE, side |-> FALSE, v |-> <<>>, ts |-> ts]
      a == [e EXCEPT !.type = "assistant", !.mid = <<"m", i>>]
  IN  CASE s.kind = "prompt" -> e
        [] s.kind = "note" -> [e EXCEPT !.meta = TRUE]
        [] s.kind = "text" -> [a EXCEPT !.content = <<Thinking(i), Text(i)>>]
        [] s.kind = "call" -> [a EXCEPT !.content = <<Text(i), Use("tool_use", n, i)>>]
        [] s.kind = "same" -> [a EXCEPT !.content = <<Use("tool_use", n, i)>>, !.mid = last]
        [] s.kind = "result" -> [e EXCEPT !.content = <<Result(n, i)>>]
        [] s.kind = "results" -> [e EXCEPT !.content = <<Result(1, i), Result(2, 10 + i)>>]
        [] OTHER -> [e EXCEPT !.type = "attachment", !.content = <<>>, !.v = <<i>>]

CodexRecord(s, n, i, ts) ==
  LET r == [BlankRecord EXCEPT !.ts = ts, !.v = <<i>>]
      message == [r EXCEPT !.item = "message", !.v = <<>>]
  IN  CASE s.kind = "prompt" -> [message EXCEPT !.role = "user",
                                                !.content = <<[Text(i) EXCEPT !.type = "input_text"]>>]
        [] s.kind = "note" -> [message EXCEPT !.role = "developer",
                                              !.content = <<[Text(i) EXCEPT !.type = "input_text"]>>]
        [] s.kind = "text" -> [message EXCEPT !.role = "assistant",
                                              !.content = <<[Text(i) EXCEPT !.type = "output_text"]>>]
        [] s.kind = "reasoning" -> [r EXCEPT !.item = "reasoning", !.v = <<>>, !.summary = <<i>>, !.enc = <<10 + i>>]
        [] s.kind = "turn" -> [r EXCEPT !.type = "turn_context"]
        [] s.kind = "abort" -> [r EXCEPT !.type = "event_msg", !.item = "turn_aborted"]
        [] s.kind = "usage" -> [r EXCEPT !.type = "event_msg", !.item = "token_count"]
        [] s.kind = "duplicate" -> [r EXCEPT !.type = "event_msg", !.item = "agent_message"]
        [] s.kind = "event" -> [r EXCEPT !.type = "event_msg", !.item = "stream_error"]
        [] s.kind = "uncalled" -> [r EXCEPT !.item = "function_call_output", !.v = <<>>,
                                            !.output = [form |-> "string", v |-> <<i>>]]
        [] s.kind = "call" -> [r EXCEPT !.item = "function_call", !.call = Call(n)]
        [] s.kind = "result" -> [r EXCEPT !.item = "function_call_output", !.v = <<>>, !.call = Call(n),
                                          !.output = [form |-> "string", v |-> <<i>>]]
        [] OTHER -> [r EXCEPT !.item = "web_search_call"]

\* A pi log may give a result as a block: in the message that answers the call, in
\* one message with that of another call, or quoted by the assistant.
PiResult(n, i) == [Result(n, i) EXCEPT !.type = "toolResult"]

PiEntry(s, n, i, ts, native) ==
  LET e == [BlankEntry EXCEPT !.id = <<"pi", i>>, !.parent = Last(native).id, !.role = "assistant",
                              !.content = <<Text(i)>>, !.ts = ts]
  IN  CASE s.kind = "prompt" -> [e EXCEPT !.role = "user"]
        [] s.kind = "text" -> [e EXCEPT !.content = <<Thinking(i), Text(i)>>]
        [] s.kind = "call" -> [e EXCEPT !.content = <<Text(i), Use("toolCall", n, i)>>]
        [] s.kind = "calls" -> [e EXCEPT !.content = <<Use("toolCall", 1, i), Use("toolCall", 2, 10 + i)>>]
        [] s.kind = "result" -> [e EXCEPT !.role = "toolResult", !.call = Call(n), !.isError = n = 2]
        [] s.kind = "unnamed" -> [e EXCEPT !.role = "toolResult"]
        [] s.kind = "answer" -> [e EXCEPT !.role = "toolResult", !.call = Call(n), !.isError = n = 2,
                                          !.content = <<PiResult(n, i)>>]
        [] s.kind = "answers" -> [e EXCEPT !.role = "toolResult", !.call = Call(1),
                                           !.content = <<PiResult(1, i), PiResult(2, 10 + i)>>]
        [] s.kind = "quoted" -> [e EXCEPT !.content = <<Text(i), PiResult(1, 10 + i)>>]
        [] OTHER -> [e EXCEPT !.type = "model_change", !.content = <<>>, !.v = <<i>>]

DimagentRow(s, n, i, ts, run) ==
  LET r == [mid |-> <<"m", i>>, role |-> "assistant", run |-> run, parts |-> <<Text(i)>>,
            att |-> <<>>, key |-> <<ts, i>>, ts |-> ts, upd |-> ts]
      Failing(x) == IF x.isError THEN [x EXCEPT !.content.form = "error", !.isError = FALSE] ELSE x
  IN  CASE s.kind = "prompt" -> [r EXCEPT !.role = "user", !.att = <<10 + i>>]
        [] s.kind = "note" -> [r EXCEPT !.role = "system", !.run = None]
        [] s.kind = "text" -> [r EXCEPT !.parts = <<Thinking(i), Text(i)>>]
        [] s.kind = "call" -> [r EXCEPT !.parts = <<Text(i), Use("tool_use", n, i)>>]
        [] s.kind = "result" -> [r EXCEPT !.role = "tool_result", !.parts = <<Failing(Result(n, i))>>]
        [] OTHER -> [r EXCEPT !.role = "tool_result",
                              !.parts = <<Result(1, i), Failing(Result(2, 10 + i))>>]

Record(s, n, i, ts, name, native, run) ==
  CASE name = "claude" -> ClaudeEntry(s, n, i, ts, native)
    [] name = "codex" -> CodexRecord(s, n, i, ts)
    [] name = "pi" -> PiEntry(s, n, i, ts, native)
    [] name = "dimagent" -> DimagentRow(s, n, i, ts, run)

MCHeader(name) ==
  CASE name = "codex" -> <<[BlankRecord EXCEPT !.type = "session_meta", !.v = <<1>>]>>
    [] name = "pi" -> <<[BlankEntry EXCEPT !.type = "session", !.id = <<"session", 0>>]>>
    [] OTHER -> <<>>

\* A call is declared once, answered once, and not declared after its answer.
MCNextRecords(name, native, ts) ==
  LET i == Len(native) + 1
      answered == AnswersIn(name, native)
      touched == {d.call : d \in DeclaredIn(name, native)} \cup {a.call : a \in answered}
      ids(ns) == {Call(n) : n \in ns}
  IN  {Record(s, CHOOSE n \in s.declares \cup s.answers \cup {9} :
                   \A m \in s.declares \cup s.answers : n <= m, i, ts, name, native, run) :
         s \in {x \in Shapes(name) : /\ x.kind \in Kinds
                                     /\ ids(x.declares) \cap touched = {}
                                     /\ ids(x.answers) \cap {a.call : a \in answered} = {}},
         run \in IF name # "dimagent" THEN {None}
                ELSE IF native = <<>> THEN {<<"r", 1>>} ELSE {<<"r", 1>>, <<"r", 2>>}}
=============================================================================
