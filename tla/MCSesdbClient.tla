---------------------------- MODULE MCSesdbClient ----------------------------
(* An instance of SesdbClient for TLC: two sessions, records that are events *)
(* with and without evidence or do not decode, two records of one event,    *)
(* and queries that filter, search, sort, limit, project and fail.  Before   *)
(* the run, TLC evaluates that the rows of these queries are those they ask  *)
(* for, of every snapshot of every log of these records, and what the        *)
(* printer and the parser of a query promise each other on every short text. *)
EXTENDS SesdbClient, SessionQLText

CONSTANT ImplicitLimit  \* rows of a result without a limit stage (1,000)

Type == "event.type"
RunId == "event.correlation.runId"

Rec(session, eventId, body, word, fields) ==
  [session |-> session, owner |-> session, eventId |-> eventId, body |-> body,
   words |-> {word}, fields |-> fields]

Stored ==
  <<Rec(1, 2, "wrapped", 7, Type :> String(1) @@ RunId :> String(4)),
    [Rec(1, 9, "event", 7, Type :> String(1)) EXCEPT !.owner = 2],
    Rec(2, 1, "event", 7, Type :> String(2)),
    Rec(1, 2, "wrapped", 7, Type :> String(1) @@ RunId :> String(3))>>
MCContents == {Append(Stored, Stored[2])}

\* The records in any order, and more than once, for what is made of them.
Logs == TupleOf(ToSet(Stored), Len(Stored))

-----------------------------------------------------------------------------
(* Texts *)

W(words) == [i \in DOMAIN words |-> Word(words[i])]
FromEvents == W(<<"from", "events">>)
Bar == <<Mark("|")>>
Bracketed(tokens) == <<Mark("[")>> \o tokens \o <<Mark("]")>>

\* Among the stages: where not event.correlation.runId is null and
\* event.type in [1, 3] or globalSeq >= 2.
StageTexts ==
  [filter |-> W(<<"where", "NOT", RunId, "is", "null", "and", Type, "in">>)
                \o Bracketed(<<Quoted(1), Mark(","), Quoted(3)>>)
                \o <<Word("or"), Word("globalSeq"), Sign(">="), Digits(2)>>,
   sort |-> W(<<"sort", "by", RunId, "desc">>),
   limit |-> <<Word("limit"), Digits(2)>>,
   project |-> <<Word("project"), Word("seq"), Mark(","), Word(RunId)>>,
   below |-> <<Word("where"), Word(RunId), Sign("<"), Quoted(4)>>,
   search |-> W(<<"search", "text">>) \o <<Dollar("query")>>,
   hundred |-> <<Word("limit"), Digits(100)>>]

Piped(names) == FromEvents \o FlattenSeq([i \in DOMAIN names |-> Bar \o StageTexts[names[i]]])

\* The query of createSesdb's search, and four more.
Query(names) == [text |-> Piped(names), params |-> [query |-> String(7)]]
Search == Query(<<"search", "hundred">>)
Queries ==
  {Query(<<"filter", "sort", "limit", "project">>), Query(<<"below">>), Query(<<"project", "sort">>),
   Search, [Search EXCEPT !.params = <<>>]}
PreparedQueries == {Prepared(q.text, q.params) : q \in Queries}
MCRefusals == {q.refusal : q \in PreparedQueries}

-----------------------------------------------------------------------------
(* What the rows of a query are *)

MinOf(S) == CHOOSE x \in S : \A y \in S : x <= y

\* The rows are events of the first asOf records, each once, that pass every
\* filter, in the order of the last sort or else of the event ids, and as many
\* as the limits allow.
AnswersFrom(records, asOf, q) ==
  LET plan == q.plan
      snapshot == 0 .. asOf - 1
      result == Execute(plan, q.params, Rows(records, [i \in 1..asOf |-> i - 1]), ImplicitLimit)
      rows == result.rows
      passes(row, i) ==
        CASE plan[i].op = "where" -> Evaluate(plan[i].expression, row, q.params) = "true"
          [] plan[i].op = "search" -> row.evidence /\ BoundValue(plan[i].query, row, q.params).v \in row.words
          [] OTHER -> TRUE
      passing == {seq \in snapshot : /\ Decodes(records[seq + 1])
                                     /\ \A i \in DOMAIN plan : passes(RowOf(seq, records[seq + 1]), i)}
      sorts == Stages(plan, "sort")
      keys == IF sorts = {} THEN <<>> ELSE plan[CHOOSE i \in sorts : \A j \in sorts : j <= i].keys
      limits == IF Stages(plan, "limit") = {} THEN {ImplicitLimit}
                ELSE {plan[i].count : i \in Stages(plan, "limit")}
  IN result.error = "" =>
       /\ {rows[i].seq : i \in DOMAIN rows} \subseteq passing
       /\ Len(rows) = MinOf(limits \cup {Cardinality(passing)})
       /\ \A i, j \in DOMAIN rows : i < j =>
            /\ rows[i].seq # rows[j].seq
            /\ ~Precedes(keys, [at |-> rows[j].seq, row |-> rows[j]],
                               [at |-> rows[i].seq, row |-> rows[i]])

QueriesAnswered ==
  \A records \in Logs : \A asOf \in 0 .. Len(records) : \A q \in PreparedQueries :
    q.refusal = "" => AnswersFrom(records, asOf, q)

ASSUME QueriesAnsweredHolds == QueriesAnswered

-----------------------------------------------------------------------------
(* What the parser and the printer of a query promise each other *)

Alphabet == {Word("seq"), Word("not"), Word("NOT"), Word("is"), Word("null"), Word("NULL"), Word("in"),
             Word("and"), Word("or"), Dollar("q"), Dollar("not"), Sign("<"), Digits(1), Digits(2),
             Mark("["), Mark(","), Mark("]"), Stray}

Atoms == {<<Word("seq")>>, <<Dollar("q")>>, <<Digits(2)>>, <<Quoted(1)>>, W(<<"true">>),
          Bracketed(<<>>), Bracketed(<<Digits(1), Mark(","), Quoted(1), Mark(",")>>)}
Comparisons ==
  {a1 \o <<Sign("=")>> \o a2 : a1 \in Atoms, a2 \in Atoms}
  \cup {a1 \o W(w) \o a2 : a1 \in Atoms, a2 \in Atoms, w \in {<<"in">>, <<"not", "in">>}}
  \cup {a1 \o W(w) : a1 \in Atoms, w \in {<<"is", "null">>, <<"is", "NOT", "NULL">>}}
FewComparisons == {<<Word("seq"), Sign("<"), Digits(2)>>, W(<<"seq", "is", "null">>),
                   <<Dollar("q")>> \o W(<<"not", "in">>) \o Bracketed(<<Digits(1)>>)}
Negated(cs) == cs \cup {W(<<"not">>) \o c : c \in cs}
Expressions ==
  Negated(Comparisons)
  \cup {c1 \o W(<<w1>>) \o c2 \o W(<<w2>>) \o c3 :
          c1 \in Negated(FewComparisons), c2 \in Negated(FewComparisons), c3 \in FewComparisons,
          w1 \in {"and", "or"}, w2 \in {"and", "or"}}

Texts ==
  {FromEvents \o Bar \o W(<<"where">>) \o e : e \in Expressions \cup TupleOf(Alphabet, 3) \cup TupleOf(Alphabet, 4)}
  \cup {Piped(names) : names \in TupleOf(DOMAIN StageTexts, 3)}

\* Numbers that print with an exponent.
HasExponent(text) == \E i \in DOMAIN text : text[i].kind = "number" /\ text[i].value.v \in Exponential

\* Printing the plan of a text gives a text of the same plan, as
\* test/sesdb.test.ts:52 expects of one; a number with an exponent does not
\* read back (query.ts:302).
QueriesReadBack ==
  \A text \in Texts :
    LET q == Parse(text)
        again == Parse(PrintQuery(q))
    IN q.error = "" => IF HasExponent(text) THEN again.error = "parse_error" ELSE again = q

ASSUME QueriesReadBackHolds == QueriesReadBack
=============================================================================
