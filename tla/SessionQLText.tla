---------------------------- MODULE SessionQLText ----------------------------
(* The text of a query: parseSessionQL and printSessionQL                   *)
(* (packages/sesdb/src/query.ts).                                           *)
(*                                                                          *)
(* A text is a sequence of tokens with its white space left out: words,     *)
(* strings, numbers, parameters, operators and punctuation.  The token      *)
(* Stray stands for what tokenize refuses: a single quote, a bad escape, or *)
(* a character of none of these.  What a pattern of parseSessionQL matches  *)
(* in the characters of a stage is told from the kinds of its tokens.       *)
EXTENDS SessionQL

CONSTANTS
  MaxLimit,      \* the largest limit a query may ask for (1,000)
  Exponential    \* numbers JSON.stringify prints with an exponent (1e21, 1e-7)

Token(kind, text, value) == [kind |-> kind, text |-> text, value |-> value]
Word(text) == Token("word", text, Undefined)
Sign(text) == Token("operator", text, Undefined)
Mark(text) == Token("punctuation", text, Undefined)
Dollar(name) == Token("parameter", name, Undefined)
Quoted(s) == Token("string", "\"", String(s))
Digits(n) == Token("number", "0", Number(n))
Stray == Token("none", "'", Undefined)

\* Keywords are recognised in any case; one spelling of each stands for all.
LowerCase == [NULL |-> "null", NOT |-> "not", OR |-> "or", FROM |-> "from", DESC |-> "desc"]
Lower(text) == IF text \in DOMAIN LowerCase THEN LowerCase[text] ELSE text

\* peek looks at the text of a token, whatever its kind: a parameter named as
\* a keyword is taken for it.
Peek(ts, text) == ts # <<>> /\ Lower(Head(ts).text) = text

\* The pieces of ts between the marks.
Split(ts, mark) ==
  LET cuts == SetToSortSeq({0, Len(ts) + 1} \cup {i \in DOMAIN ts : ts[i] = mark}, <)
  IN  [k \in 1..Len(cuts) - 1 |-> SubSeq(ts, cuts[k] + 1, cuts[k + 1] - 1)]

Joined(pieces, token) ==
  FlattenSeq([i \in DOMAIN pieces |-> IF i = 1 THEN pieces[i] ELSE <<token>> \o pieces[i]])

-----------------------------------------------------------------------------
(* ExpressionParser: what was read, and the tokens behind it *)

Got(node, rest) == [node |-> node, rest |-> rest]
Wrong == Got([kind |-> "wrong"], <<>>)
IsWrong(read) == read.node.kind = "wrong"

Boolean(b) == [type |-> "boolean", v |-> IF b THEN 1 ELSE 0]
Literal(value) == [kind |-> "literal", value |-> value]

RECURSIVE Value(_), Elements(_, _), Unary(_), Operands(_, _)

Value(ts) ==
  LET t == Head(ts)
  IN CASE ts = <<>> -> Wrong
       [] t.kind \in {"string", "number"} -> Got(Literal(t.value), Tail(ts))
       [] t.kind = "parameter" -> Got([kind |-> "parameter", name |-> t.text], Tail(ts))
       [] t.text \in {"true", "false"} -> Got(Literal(Boolean(t.text = "true")), Tail(ts))
       [] t.text = "null" -> Got(Literal(Null), Tail(ts))
       [] t.text = "[" -> Elements(Tail(ts), <<>>)
       [] t.kind = "word" -> Got([kind |-> "field", path |-> t.text], Tail(ts))
       [] OTHER -> Wrong

\* The rest of an array; a comma may come last.
Elements(ts, values) ==
  LET item == Value(ts)
      more == Append(values, item.node.value)
  IN CASE Peek(ts, "]") -> Got(Literal(ArrayOf(values)), Tail(ts))
       [] item.node.kind # "literal" -> Wrong
       [] item.node.value.type = "object" -> Wrong
       [] Peek(item.rest, ",") -> Elements(Tail(item.rest), more)
       [] Peek(item.rest, "]") -> Got(Literal(ArrayOf(more)), Tail(item.rest))
       [] OTHER -> Wrong

\* "not" before a comparison, and the four kinds of comparison.
Unary(ts) ==
  LET left == Value(ts)
      SkipNot(rest) == IF Peek(rest, "not") THEN Tail(rest) ELSE rest
      after == SkipNot(left.rest)
      null == SkipNot(Tail(left.rest))
      right == Value(Tail(after))
      inner == Unary(Tail(ts))
      Built(read, node) == IF IsWrong(read) THEN Wrong ELSE Got(node, read.rest)
  IN CASE Peek(ts, "not") -> Built(inner, [kind |-> "not", item |-> inner.node])
       [] IsWrong(left) -> Wrong
       [] Peek(left.rest, "is") ->
            IF ~Peek(null, "null") THEN Wrong
            ELSE Got([kind |-> "null", negated |-> null # Tail(left.rest), value |-> left.node], Tail(null))
       [] Peek(after, "in") ->
            Built(right, [kind |-> "in", negated |-> after # left.rest, left |-> left.node, right |-> right.node])
       [] after # left.rest \/ after = <<>> -> Wrong
       [] Head(after).kind # "operator" -> Wrong
       [] OTHER -> Built(right, [kind |-> "compare", operator |-> Head(after).text,
                                 left |-> left.node, right |-> right.node])

\* The operands of one junction, read from the left: those of "or" are
\* conjunctions.
Junct(operands, word) ==
  CASE \E i \in DOMAIN operands.nodes : operands.nodes[i].kind = "wrong" -> Wrong
    [] Len(operands.nodes) = 1 -> Got(operands.nodes[1], operands.rest)
    [] OTHER -> Got([kind |-> word, items |-> operands.nodes], operands.rest)

Operands(ts, word) ==
  LET first == IF word = "or" THEN Junct(Operands(ts, "and"), "and") ELSE Unary(ts)
      others == Operands(Tail(first.rest), word)
  IN  IF Peek(first.rest, word)
      THEN [nodes |-> <<first.node>> \o others.nodes, rest |-> others.rest]
      ELSE [nodes |-> <<first.node>>, rest |-> first.rest]

\* A reading holds when it used every token.
Whole(read, ts) == IF read.rest # <<>> \/ Stray \in ToSet(ts) THEN Wrong ELSE read
ParseExpression(ts) == Whole(Junct(Operands(ts, "or"), "or"), ts)
ValueFromToken(ts) == LET read == Whole(Value(ts), ts)
                      IN  IF read.node.kind = "field" THEN Wrong ELSE read

-----------------------------------------------------------------------------
(* parseSessionQL *)

IsWord(ts, i, text) == i \in DOMAIN ts /\ ts[i].kind = "word" /\ Lower(ts[i].text) = text
ErrorStage(code) == [op |-> "error", code |-> code]
Checked(ok, stage) == IF ok THEN stage ELSE ErrorStage("parse_error")

ProjectStage(ts) ==
  LET fields == Split(ts, Mark(","))
  IN  Checked(\A i \in DOMAIN fields : Len(fields[i]) = 1 /\ fields[i][1].kind = "word",
              [op |-> "project", fields |-> [i \in DOMAIN fields |-> fields[i][1].text]])

SortStage(ts) ==
  LET keys == Split(ts, Mark(","))
      Ordered(key) == Len(key) = 2 /\ \E d \in {"asc", "desc"} : IsWord(key, 2, d)
  IN  Checked(\A i \in DOMAIN keys : keys[i] # <<>> /\ keys[i][1].kind = "word"
                                       /\ (Len(keys[i]) = 1 \/ Ordered(keys[i])),
              [op |-> "sort",
               keys |-> [i \in DOMAIN keys |->
                           [field |-> keys[i][1].text,
                            direction |-> IF Len(keys[i]) = 1 THEN "asc" ELSE Lower(keys[i][2].text)]]])

ParseStage(ts) ==
  LET From(i) == SubSeq(ts, i, Len(ts))
      expression == ParseExpression(From(2))
      query == ValueFromToken(From(3))
  IN CASE IsWord(ts, 1, "where") /\ Len(ts) > 1 ->
            Checked(~IsWrong(expression), [op |-> "where", expression |-> expression.node])
       [] IsWord(ts, 1, "search") /\ Len(ts) > 2 /\ \E k \in {"text", "semantic", "hybrid"} : IsWord(ts, 2, k) ->
            Checked(~IsWrong(query), [op |-> "search", kind |-> ts[2].text, query |-> query.node])
       [] IsWord(ts, 1, "project") /\ Len(ts) > 1 -> ProjectStage(From(2))
       [] IsWord(ts, 1, "sort") /\ IsWord(ts, 2, "by") /\ Len(ts) > 2 -> SortStage(From(3))
       [] IsWord(ts, 1, "limit") /\ Len(ts) = 2 /\ ts[2].kind = "number" /\ ts[2].value.v \in 0..MaxLimit ->
            [op |-> "limit", count |-> ts[2].value.v]
       [] OTHER -> ErrorStage("unsupported_capability")

Sources == {"sessions", "events", "messages", "tools", "chunks"}
EventFields ==
  {"globalSeq", "seq", "sessionId", "eventId", "event.type", "event.timestamp", "event.eventId", "event.sessionId"}
  \cup {"event.correlation." \o name : name \in
          {"agentSessionId", "runId", "turnId", "messageId", "toolCallId", "toolResultId", "parentId", "clientActionId"}}

RECURSIVE FieldsIn(_)
FieldsIn(e) ==
  CASE e.kind = "field" -> {e.path}
    [] e.kind \in {"and", "or"} -> UNION {FieldsIn(e.items[i]) : i \in DOMAIN e.items}
    [] e.kind = "not" -> FieldsIn(e.item)
    [] e.kind = "null" -> FieldsIn(e.value)
    [] e.kind \in {"in", "compare"} -> FieldsIn(e.left) \cup FieldsIn(e.right)
    [] OTHER -> {}

\* The fields of where and project; the keys of a sort are not looked at.
PlanFields(plan) ==
  UNION ({FieldsIn(plan[i].expression) : i \in Stages(plan, "where")}
           \cup {ToSet(plan[i].fields) : i \in Stages(plan, "project")})

Refused(code) == [error |-> code, source |-> "", plan |-> <<>>]

\* The stages read one after the other, then looked at together.
CheckPlan(source, plan) ==
  LET wrong == Stages(plan, "error")
  IN CASE wrong # {} -> Refused(plan[CHOOSE i \in wrong : \A j \in wrong : i <= j].code)
       [] \E i \in Stages(plan, "project") : \E j \in i + 1 .. Len(plan) : plan[j].op # "limit" ->
            Refused("unsupported_capability")
       [] source = "events" /\ ~(PlanFields(plan) \subseteq EventFields) -> Refused("parse_error")
       [] OTHER -> [error |-> "", source |-> source, plan |-> plan]

Parse(text) ==
  LET parts == SelectSeq(Split(text, Mark("|")), LAMBDA part : part # <<>>)
      head == parts[1]
  IN CASE parts = <<>> -> Refused("parse_error")
       [] ~IsWord(head, 1, "from") \/ Len(head) # 2 -> Refused("parse_error")
       [] head[2].kind # "word" \/ head[2].text \notin Sources -> Refused("parse_error")
       [] OTHER -> CheckPlan(head[2].text, [i \in 1..Len(parts) - 1 |-> ParseStage(parts[i + 1])])

\* The plan of a query, or the reason it is refused before anything is read.
Prepared(text, params) ==
  LET parsed == Parse(text)
  IN [plan |-> parsed.plan, params |-> params,
      refusal |-> IF parsed.error # "" THEN parsed.error
                  ELSE Refusal(parsed.source, parsed.plan, params)]

-----------------------------------------------------------------------------
(* printSessionQL *)

\* JSON.stringify of a scalar: the exponent it may give a number is no token.
PrintScalar(x) ==
  CASE x.type = "string" -> <<Quoted(x.v)>>
    [] x.type = "number" -> IF x.v \in Exponential THEN <<Digits(1), Stray>> ELSE <<Digits(x.v)>>
    [] x.type = "boolean" -> <<Word(IF x.v = 1 THEN "true" ELSE "false")>>
    [] OTHER -> <<Word("null")>>

PrintValue(node) ==
  CASE node.kind = "field" -> <<Word(node.path)>>
    [] node.kind = "parameter" -> <<Dollar(node.name)>>
    [] node.value.type = "object" ->
         LET items == node.value.v
         IN  <<Mark("[")>> \o Joined([i \in DOMAIN items |-> PrintScalar(items[i])], Mark(","))
               \o <<Mark("]")>>
    [] OTHER -> PrintScalar(node.value)

RECURSIVE PrintExpression(_)
PrintExpression(e) ==
  LET not == IF e.negated THEN <<Word("not")>> ELSE <<>>
  IN CASE e.kind = "compare" -> PrintValue(e.left) \o <<Sign(e.operator)>> \o PrintValue(e.right)
       [] e.kind = "in" -> PrintValue(e.left) \o not \o <<Word("in")>> \o PrintValue(e.right)
       [] e.kind = "null" -> PrintValue(e.value) \o <<Word("is")>> \o not \o <<Word("null")>>
       [] e.kind = "not" -> <<Word("not")>> \o PrintExpression(e.item)
       [] OTHER -> Joined([i \in DOMAIN e.items |-> PrintExpression(e.items[i])], Word(e.kind))

PrintStage(stage) ==
  CASE stage.op = "where" -> <<Word("where")>> \o PrintExpression(stage.expression)
    [] stage.op = "search" -> <<Word("search"), Word(stage.kind)>> \o PrintValue(stage.query)
    [] stage.op = "project" ->
         <<Word("project")>> \o Joined([i \in DOMAIN stage.fields |-> <<Word(stage.fields[i])>>], Mark(","))
    [] stage.op = "sort" ->
         LET Key(i) == <<Word(stage.keys[i].field), Word(stage.keys[i].direction)>>
         IN  <<Word("sort"), Word("by")>> \o Joined([i \in DOMAIN stage.keys |-> Key(i)], Mark(","))
    [] OTHER -> <<Word("limit"), Digits(stage.count)>>

PrintQuery(q) ==
  Joined(<<<<Word("from"), Word(q.source)>>>> \o [i \in DOMAIN q.plan |-> PrintStage(q.plan[i])], Mark("|"))
=============================================================================
