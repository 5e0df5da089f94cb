------------------------------ MODULE SessionQL ------------------------------
(* What packages/sesdb/src/index.ts computes from the records of a          *)
(* snapshot: which of them are events, and the stages of a query over them. *)
(* A query is here the plan that parseSessionQL returns (SessionQLText).    *)
(*                                                                          *)
(* A value is [type |-> ..., v |-> ...], where v is a number that stands    *)
(* for a scalar's place in the order of its type, and a sequence of values  *)
(* for an array ("object"); null has a type of its own here.  A record has  *)
(* its session and a body: an event, an event wrapped with its evidence, or *)
(* bytes that do not decode.                                                *)
EXTENDS Integers, Sequences, SequencesExt

Number(n) == [type |-> "number", v |-> n]
String(s) == [type |-> "string", v |-> s]
Null == [type |-> "null", v |-> 0]
Undefined == [type |-> "undefined", v |-> 0]
ArrayOf(items) == [type |-> "object", v |-> items]
Nullish(x) == x.type \in {"null", "undefined"}

\* ===: scalars by value; an array equals no other array.
Same(l, r) == l.type = r.type /\ l.type # "object" /\ l.v = r.v

-----------------------------------------------------------------------------
(* Rows *)

\* The event of a stored record is found when the body decodes to an event,
\* bare or wrapped, of the session the record is filed under.
Decodes(r) == r.body # "bytes" /\ r.owner = r.session

\* Only a wrapper with a complete evidence pointer makes a row searchable.  A
\* record's fields are named by their paths, with and without "event.".
RowOf(seq, r) ==
  [seq |-> seq, session |-> r.session, eventId |-> r.eventId, fields |-> r.fields,
   words |-> IF r.body = "wrapped" THEN r.words ELSE {}, evidence |-> r.body = "wrapped"]

\* The rows of the records with these sequence numbers that hold events.
Rows(content, seqs) ==
  LET events == SelectSeq(seqs, LAMBDA seq : Decodes(content[seq + 1]))
  IN [i \in DOMAIN events |-> RowOf(events[i], content[events[i] + 1])]

Field(row, path) ==
  CASE path \in {"seq", "globalSeq"} -> Number(row.seq)
    [] path = "sessionId" -> String(row.session)
    [] path = "eventId" -> String(row.eventId)
    [] OTHER -> IF path \in DOMAIN row.fields THEN row.fields[path] ELSE Undefined

BoundValue(node, row, params) ==
  CASE node.kind = "field" -> Field(row, node.path)
    [] node.kind = "parameter" -> params[node.name]
    [] OTHER -> node.value

-----------------------------------------------------------------------------
(* Expressions: "true", "false", or the type_error the code throws *)

AsTruth(b) == IF b THEN "true" ELSE "false"

Holds(operator, l, r) ==
  CASE operator = "<" -> l < r [] operator = "<=" -> l <= r
    [] operator = ">" -> l > r [] OTHER -> l >= r

\* Equality takes any two values; an order needs two scalars of one type.
Compared(operator, l, r) ==
  CASE operator = "=" -> AsTruth(Same(l, r))
    [] operator = "!=" -> AsTruth(~Same(l, r))
    [] OTHER -> IF l.type # r.type \/ l.type = "null" THEN "type_error"
                ELSE AsTruth(Holds(operator, l.v, r.v))

Included(l, r) ==
  IF r.type # "object" THEN "type_error" ELSE AsTruth(\E i \in DOMAIN r.v : Same(r.v[i], l))

Flip(truth) == CASE truth = "true" -> "false" [] truth = "false" -> "true" [] OTHER -> truth

RECURSIVE Evaluate(_, _, _)

\* every and some stop at the first item that decides, which may be one that
\* throws.
Junction(go, items, row, params) ==
  LET truth(i) == Evaluate(items[i], row, params)
      decides == {i \in DOMAIN items : truth(i) # go}
  IN IF decides = {} THEN go ELSE truth(CHOOSE i \in decides : \A j \in decides : i <= j)

Evaluate(e, row, params) ==
  LET value(node) == BoundValue(node, row, params)
      unless(truth) == IF e.negated THEN Flip(truth) ELSE truth
  IN CASE e.kind = "and" -> Junction("true", e.items, row, params)
       [] e.kind = "or" -> Junction("false", e.items, row, params)
       [] e.kind = "not" -> Flip(Evaluate(e.item, row, params))
       [] e.kind = "null" -> unless(AsTruth(Nullish(value(e.value))))
       [] e.kind = "in" -> unless(Included(value(e.left), value(e.right)))
       [] OTHER -> Compared(e.operator, value(e.left), value(e.right))

-----------------------------------------------------------------------------
(* Stages *)

TypeRank(x) == CASE x.type = "boolean" -> 1 [] x.type = "number" -> 2
                 [] x.type = "object" -> 3 [] OTHER -> 4

\* The order of sort: absent values first, then by type, then by value.
Less(l, r) ==
  /\ ~Same(l, r)
  /\ \/ Nullish(l)
     \/ /\ ~Nullish(r)
        /\ IF l.type = r.type THEN l.v < r.v ELSE TypeRank(l) < TypeRank(r)

\* Rows are compared key by key, then by event id; the sort is stable.
Precedes(keys, a, b) ==
  LET full == Append(keys, [field |-> "eventId", direction |-> "asc"])
      val(p, k) == Field(p.row, full[k].field)
      before(k) == IF full[k].direction = "asc" THEN Less(val(a, k), val(b, k))
                   ELSE Less(val(b, k), val(a, k))
      after(k) == IF full[k].direction = "asc" THEN Less(val(b, k), val(a, k))
                  ELSE Less(val(a, k), val(b, k))
      differs == {k \in DOMAIN full : before(k) \/ after(k)}
  IN IF differs = {} THEN a.at < b.at
     ELSE before(CHOOSE k \in differs : \A j \in differs : k <= j)

Placed(rows) == [i \in DOMAIN rows |-> [at |-> i, row |-> rows[i]]]
Unplaced(placed) == [i \in DOMAIN placed |-> placed[i].row]
SortRows(rows, keys) ==
  Unplaced(SortSeq(Placed(rows), LAMBDA a, b : Precedes(keys, a, b)))

Take(rows, n) == SubSeq(rows, 1, IF n < Len(rows) THEN n ELSE Len(rows))

\* One stage; an error ends the query.
Stage(done, stage, params) ==
  LET rows == done.rows
      keeps(row) == Evaluate(stage.expression, row, params)
      query == BoundValue(stage.query, <<>>, params)
  IN CASE done.error # "" -> done
       [] stage.op = "where" ->
            IF \E i \in DOMAIN rows : keeps(rows[i]) = "type_error"
            THEN [done EXCEPT !.error = "type_error"]
            ELSE [done EXCEPT !.rows = SelectSeq(rows, LAMBDA row : keeps(row) = "true")]
       [] stage.op = "search" ->
            IF query.type # "string" THEN [done EXCEPT !.error = "type_error"]
            ELSE [done EXCEPT !.rows = SelectSeq(rows,
                      LAMBDA row : row.evidence /\ query.v \in row.words)]
       [] stage.op = "sort" -> [done EXCEPT !.rows = SortRows(rows, stage.keys)]
       [] stage.op = "limit" -> [done EXCEPT !.rows = Take(rows, stage.count)]
       [] OTHER -> done  \* project

Stages(plan, op) == {i \in DOMAIN plan : plan[i].op = op}

RECURSIVE ParametersIn(_)
ParametersIn(e) ==
  CASE e.kind = "parameter" -> {e.name}
    [] e.kind \in {"and", "or"} -> UNION {ParametersIn(e.items[i]) : i \in DOMAIN e.items}
    [] e.kind = "not" -> ParametersIn(e.item)
    [] e.kind = "null" -> ParametersIn(e.value)
    [] e.kind \in {"in", "compare"} -> ParametersIn(e.left) \cup ParametersIn(e.right)
    [] OTHER -> {}

\* What is wrong with a query before anything is read.
Refusal(source, plan, params) ==
  LET named == UNION ({ParametersIn(plan[i].query) : i \in Stages(plan, "search")}
                        \cup {ParametersIn(plan[i].expression) : i \in Stages(plan, "where")})
  IN CASE \E name \in named : name \notin DOMAIN params -> "invalid_parameter"
       [] \E name \in named : params[name].type # "string" -> "type_error"
       [] source # "events" -> "unsupported_capability"
       [] \E i \in Stages(plan, "search") : plan[i].kind # "text" -> "unsupported_capability"
       [] OTHER -> ""

\* From the rows of a snapshot to those of the result, or the error.  Which
\* fields of a row are shown (project) is left out.
Execute(plan, params, decoded, implicitLimit) ==
  LET start == [rows |-> SortRows(decoded, <<>>), error |-> ""]
      limited == Stages(plan, "limit") # {}
  IN [FoldLeft(LAMBDA done, stage : Stage(done, stage, params), start, plan)
        EXCEPT !.rows = IF limited THEN @ ELSE Take(@, implicitLimit)]
=============================================================================
