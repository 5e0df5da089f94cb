------------------------------ MODULE Convert ------------------------------
(***************************************************************************)
(* A session handed from one harness to another by usl-convert: a native   *)
(* log is written, imported into a bundle, verified against its source     *)
(* while the source may still grow, exported to another harness, and what  *)
(* was exported is imported there.                                         *)
(*                                                                         *)
(* The harnesses' formats are in ClaudeLog, CodexLog, PiLog and            *)
(* DimagentLog; this module is the command line that puts them together    *)
(* (packages/usl-convert/src/registry.ts, cli.ts, conformance.ts).         *)
(***************************************************************************)
EXTENDS ClaudeLog, CodexLog, PiLog, DimagentLog

CONSTANTS
  Harnesses,           \* where sessions come from
  Targets,             \* where they are handed to
  MaxLog,              \* bound: records written before the import
  MaxGrown,            \* bound: records in a log that grows after the import
  Header(_),           \* what a harness writes when a session begins
  NextRecords(_, _, _) \* the records a harness may write next to a log, and when

\* The logs a harness writes.
IsLog(name, native) ==
  CASE name = "claude" -> IsClaudeLog(native)
    [] name = "codex" -> IsCodexLog(native)
    [] name = "pi" -> IsPiLog(native)
    [] name = "dimagent" -> IsDimagentLog(native)

ASSUME ConvertAssumption ==
  /\ Harnesses \subseteq {"claude", "codex", "pi", "dimagent"}
  /\ Targets \subseteq {"claude", "codex", "pi", "dimagent"}
  /\ MaxLog \in Nat /\ MaxGrown \in Nat /\ KeyModulus \in Nat \ {0}
  /\ \A name \in Harnesses : IsLog(name, Header(name))

VARIABLES
  phase,     \* "writing", "imported", "exported" or "resumed"
  harness,   \* the source harness
  frozen,    \* all records have one timestamp
  hash,      \* which of two hashes is the smaller
  log,       \* the native log
  source,    \* the artifact the bundle names, as it is on disk
  bundle,    \* the bundle made from it
  verified,  \* the answer of the last verify, <<>> before the first
  target,    \* where the session is handed to
  exported,  \* the log written for the target, and the losses it declares
  resumed    \* the bundle the target's importer makes of it

vars == <<phase, harness, frozen, hash, log, source, bundle, verified, target, exported, resumed>>

ImportFile(name, native) ==
  CASE name = "claude" -> ImportClaudeSession(native, hash)
    [] name = "codex" -> ImportCodexSession(native, hash)
    [] name = "pi" -> ImportPiSession(native, hash)
    [] name = "dimagent" -> ImportDimagentSession(native, hash)

ExportBundle(name) ==
  CASE name = "codex" -> ExportCodexSession(bundle)
    [] name = "pi" -> ExportPiSession(bundle)
    [] name = "dimagent" -> ExportDimagentSession(bundle, hash)

Init ==
  /\ phase = "writing"
  /\ harness \in Harnesses /\ frozen \in BOOLEAN /\ hash \in {1, -1}
  /\ log = Header(harness)
  /\ source = <<>> /\ bundle = <<>> /\ verified = <<>>
  /\ target = "" /\ exported = <<>> /\ resumed = <<>>

\* The harness writes its next record.
Write ==
  /\ phase = "writing" /\ Len(log) < Len(Header(harness)) + MaxLog
  /\ \E r \in NextRecords(harness, log, IF frozen THEN 0 ELSE Len(log) + 1) :
       log' = Append(log, r)
  /\ IsLog(harness, log')
  /\ UNCHANGED <<phase, harness, frozen, hash, source, bundle, verified, target, exported, resumed>>

\* usl-convert import: the bundle, and for dimagent the snapshot it names.
Import ==
  /\ phase = "writing" /\ Len(log) > Len(Header(harness))
  /\ phase' = "imported" /\ source' = log /\ bundle' = ImportFile(harness, log)
  /\ UNCHANGED <<harness, frozen, hash, log, verified, target, exported, resumed>>

\* The session goes on after the import.  A log is its own artifact and grows.
Grow ==
  /\ phase = "imported" /\ Len(log) < Len(Header(harness)) + MaxGrown /\ verified = <<>>
  /\ \E r \in NextRecords(harness, log, IF frozen THEN 0 ELSE Len(log) + 1) :
       log' = Append(log, r)
  /\ IsLog(harness, log')
  /\ source' = IF harness = "dimagent" THEN source ELSE log'
  /\ UNCHANGED <<phase, harness, frozen, hash, bundle, verified, target, exported, resumed>>

\* usl-convert verify.
Verify ==
  /\ phase = "imported" /\ ~bundle.failed /\ verified = <<>>
  /\ verified' = <<VerifySources(bundle, source)>>
  /\ UNCHANGED <<phase, harness, frozen, hash, log, source, bundle, target, exported, resumed>>

\* usl-convert export; an export to claude throws, and writes nothing.  Neither
\* the log nor an answer of verify is read here: they are left as they were.
Export(name) ==
  /\ phase = "imported" /\ ~bundle.failed /\ ValidBundle(bundle) /\ name # "claude"
  /\ verified = <<>> /\ Len(log) = Len(bundle.source)
  /\ phase' = "exported" /\ target' = name /\ exported' = ExportBundle(name)
  /\ UNCHANGED <<harness, frozen, hash, log, source, bundle, verified, resumed>>

\* The target imports what was written for it.
Resume ==
  /\ phase = "exported" /\ exported.log # <<>>
  /\ phase' = "resumed" /\ resumed' = ImportFile(target, exported.log)
  /\ UNCHANGED <<harness, frozen, hash, log, source, bundle, verified, target, exported>>

Next == Write \/ Import \/ Grow \/ Verify \/ (\E name \in Targets : Export(name)) \/ Resume
Spec == Init /\ [][Next]_vars

---------------------------------------------------------------------------
(* What the records of a native log say, read without the importers: items *)
(* in the order they were said, the calls declared and those answered.     *)

Kind == [text |-> "text", input_text |-> "text", output_text |-> "text",
         thinking |-> "thinking", tool_use |-> "call", toolCall |-> "call",
         tool_result |-> "result", toolResult |-> "result"] @@ ("tool-call" :> "call") @@ ("tool-result" :> "result")

Item(role, kind, call, v, failed) ==
  [role |-> role, kind |-> kind, call |-> call, v |-> v, failed |-> failed]

ItemsOf(role, blocks) ==
  LET known == SelectSeq(blocks, LAMBDA x : x.type \in DOMAIN Kind)
  IN  [i \in DOMAIN known |->
         LET x == known[i]
         IN  IF Kind[x.type] = "result"
             THEN Item("tool", "result", x.call, x.content.v, x.isError \/ x.content.form = "error")
             ELSE Item(role, Kind[x.type], Get(x, "call", None), x.v, FALSE)]

AllOf(blocks, type) == {x \in ToSet(blocks) : x.type = type}

ItemsIn(name, r) ==
  CASE name = "claude" /\ r.type \in {"user", "assistant"} -> ItemsOf(r.type, r.content)
    [] name = "dimagent" -> ItemsOf(r.role, r.parts)
    [] name = "pi" /\ r.role = "toolResult" /\ r.call # None /\ AllOf(r.content, "toolResult") = {} ->
         <<Item("tool", "result", r.call, TextOf(r.content), r.isError)>>
    [] name = "pi" -> ItemsOf(IF r.role = "toolResult" THEN "tool" ELSE r.role, r.content)
    [] name = "codex" /\ r.item = "message" ->
         ItemsOf(IF r.role \in {"user", "assistant"} THEN r.role ELSE "unknown", r.content)
    [] name = "codex" /\ r.item = "reasoning" ->
         <<Item("assistant", "thinking", None, r.summary, FALSE)>>
    [] name = "codex" /\ r.item = "function_call" ->
         <<Item("assistant", "call", r.call, r.v, FALSE)>>
    [] name = "codex" /\ r.item = "function_call_output" /\ r.call # None ->
         <<Item("tool", "result", r.call, r.output.v, FALSE)>>
    [] OTHER -> <<>>

\* The entries of one Claude message stand where the last of them stands.
Place(name, native, i) ==
  IF name = "claude" /\ native[i].type = "assistant"
  THEN Max({j \in DOMAIN native : native[j].type = "assistant" /\ native[j].mid = native[i].mid})
  ELSE i

Said(name, native) ==
  LET order == SortSeq([i \in DOMAIN native |-> i],
                       LAMBDA i, j : Below(<<Place(name, native, i), i>>, <<Place(name, native, j), j>>))
  IN  FlattenSeq([k \in DOMAIN order |-> ItemsIn(name, native[order[k]])])

\* In a log of pi the assistant calls, and a message of its own answers.
DeclaredIn(name, native) ==
  UNION {{[call |-> x.call, args |-> x.v, at |-> Place(name, native, i)] :
            x \in {y \in ToSet(ItemsIn(name, native[i])) : y.kind = "call"}} :
            i \in {j \in DOMAIN native : name = "pi" => native[j].role = "assistant"}}
AnswersIn(name, native) ==
  UNION {{[call |-> x.call, failed |-> x.failed, at |-> i] :
            x \in {y \in ToSet(ItemsIn(name, native[i])) : y.kind = "result"}} :
            i \in {j \in DOMAIN native : name = "pi" => native[j].role = "toolResult" /\ native[j].call # None}}

---------------------------------------------------------------------------
(* Properties.                                                             *)

Imported == phase # "writing" /\ ~bundle.failed

\* What a bundle's messages say, in which run and by whose message.
Stream(pivot) ==
  LET messages == Ordered(pivot.messages)
      In(m) == LET items == ItemsOf(m.role, m.blocks)
               IN  [i \in DOMAIN items |-> items[i] @@ [run |-> m.runId, by |-> m.role]]
  IN  FlattenSeq([k \in DOMAIN messages |-> In(messages[k])])
Bare(items) == [i \in DOMAIN items |-> Only(items[i], DOMAIN items[i] \ {"run", "by"})]

\* An import says what the log says, in its order, by the same speakers, a
\* block-appended Claude message once and at its last entry (claude.ts:95-118).
ImportsTheConversation == Imported => Bare(Stream(bundle.pivot)) = Said(harness, bundle.source)

\* The tools of a bundle are the calls the log answers (for dimagent also those
\* it only declares), with the state the answer gives them, the arguments of a
\* declaration that comes before the answer, and a parent that speaks of the
\* call; a call without an answer is a declared loss.
ToolsAnswered ==
  Imported =>
    LET declared == DeclaredIn(harness, bundle.source)
        answers == AnswersIn(harness, bundle.source)
        tools == ToSet(bundle.pivot.tools)
        Calls(said) == {d.call : d \in said}
    IN  /\ {t.id : t \in tools} =
              Calls(answers) \cup (IF harness = "dimagent" THEN Calls(declared) ELSE {})
        /\ ("tool calls without a result" \in bundle.loss) <=> ~(Calls(declared) \subseteq Calls(answers))
        /\ \A t \in tools :
             /\ t.state = (IF t.id \notin Calls(answers) THEN "running"
                           ELSE IF \E a \in answers : a.call = t.id /\ a.failed THEN "failed"
                           ELSE "completed")
             /\ \E m \in ToSet(bundle.pivot.messages) :
                  m.id = t.parentMessageId /\ \E x \in ToSet(ItemsOf(m.role, m.blocks)) : x.call = t.id
             /\ \A d \in declared : d.call = t.id /\ (\A a \in answers : a.call = t.id => d.at < a.at)
                                    => t.arguments = d.args

\* Every reference of a pivot resolves: a message's run and turn exist, list it
\* once and in order; its parent is an earlier message; and the import of a log
\* that ends anywhere leaves no run open.
PivotWellFormed ==
  Imported =>
    LET pivot == bundle.pivot
        messages == Ordered(pivot.messages)
        Listed(entities, key) ==
          \A x \in ToSet(entities) :
            x.messageIds = IdsOf(SelectSeq(messages, LAMBDA m : m[key] = x.id))
        Known(entities, id) == \E x \in ToSet(entities) : x.id = id
    IN  /\ Listed(pivot.runs, "runId") /\ Listed(pivot.turns, "turnId")
        /\ \A i \in DOMAIN messages :
             /\ Known(pivot.runs, messages[i].runId) /\ Known(pivot.turns, messages[i].turnId)
             /\ \A j \in 1 .. i - 1 : messages[j].order < messages[i].order
             /\ messages[i].parentId # None =>
                  \E j \in 1 .. i - 1 : messages[j].id = messages[i].parentId
        /\ \A t \in ToSet(pivot.turns) : Known(pivot.runs, t.runId)
        /\ \A r \in ToSet(pivot.runs) :
             /\ r.state \in {"completed", "cancelled"}
             /\ r.startedAt <= r.completedAt[1]
             /\ Len(r.turnIds) = 1

\* The values of a record or of a block.
Values(x) ==
  LET Own(key) == ToSet(Get(x, key, <<>>))
  IN  Own("v") \cup Own("summary") \cup Own("enc") \cup Own("att")
      \cup (IF "output" \in DOMAIN x THEN ToSet(x.output.v) ELSE {})
RecordValues(r) ==
  Values(r) \cup UNION {UNION {Values(x) : x \in ToSet(Get(r, key, <<>>))} : key \in {"content", "parts"}}
EvidenceValues(events) ==
  UNION {(UNION {Values(x) : x \in ToSet(BlocksOf(e))}) \cup ToSet(Get(e.body, "value", <<>>)) :
           e \in ToSet(events)}

\* conformance.ts: what counts as accounted for.
Duplicates == {"user_message", "agent_message", "agent_reasoning"}
Retained == {"token_count", "turn_aborted"}
CodexNative == [session_meta |-> "codex.session_meta", turn_context |-> "codex.turn_context"]
ObservedAs(r) == IF r.type = "event_msg" THEN {r.item} \cap Retained
                 ELSE {CodexNative[type] : type \in {r.type} \cap DOMAIN CodexNative}
RecordIds(r) == {r[key] : key \in DOMAIN r \cap {"id", "uuid", "mid"}}
Accounted(name, r, events) ==
  \/ name \in {"claude", "dimagent"}    \* by the session id every entry has; rows are counted
  \/ name = "codex" /\ r.type = "event_msg" /\ r.item \in Duplicates
  \/ \E e \in ToSet(events) : e.ts = r.ts \/ (e.nid # None /\ e.nid \in RecordIds(r))
  \/ name = "codex" /\ \E e \in ToSet(events) :
        /\ e.type = <<"unknown", "observed">>
        /\ e.body.nativeType \in ObservedAs(r)
  \/ name = "codex" /\ r.type \in {"response_item", "event_msg", "turn_context"}

\* A record with something unnamed in it, or that is about two calls: own are the
\* calls it names itself, which it answers or not, the others are in its blocks.
AtOdds(own, answers, results, calls) ==
  LET ids == IF answers THEN {ResultOf(c) : c \in own} ELSE {}
  IN  \/ \E x \in results \cup calls : x.call = None
      \/ \E x \in results : \E c \in own \cup {y.call : y \in results} : x.call # c
      \/ \E x \in results : \E q \in ids \cup {y.result : y \in results} : x.result # q
      \/ own # {} /\ calls # {} /\ own \cap {x.call : x \in calls} = {}

\* The records no importer takes: it throws at them, and makes no bundle.
Refused(name, r) ==
  \/ /\ name = "pi" /\ r.type = "message"
     /\ \/ r.id = None
        \/ AtOdds({r.call} \ {None}, r.role = "toolResult",
                  AllOf(r.content, "toolResult"), AllOf(r.content, "toolCall"))
  \/ /\ name = "dimagent"
     /\ LET results == AllOf(r.parts, "tool_result")
        IN  AtOdds(IF r.role = "tool_result" THEN {x.call : x \in results} \ {None} ELSE {}, TRUE,
                   results, AllOf(r.parts, "tool_use"))

\* The records an import leaves out: of Codex' render stream all but token_count
\* and turn_aborted, those that repeat a response_item and any other (codex.ts:
\* 128-137), and an output without a call, which is a declared loss.
LeftOut(name, r, loss) ==
  /\ name = "codex"
  /\ \/ r.type = "event_msg" /\ r.item \notin Retained
     \/ /\ r.type = "response_item" /\ r.item = "function_call_output" /\ r.call = None
        /\ "function_call_output without call_id" \in loss

\* No other record of a log disappears: its values are in the evidence of the
\* bundle, and conformance accounts for it; and an import throws only when a
\* record leaves something unnamed or is about two calls.
EveryRecordAccounted ==
  phase # "writing" =>
    IF bundle.failed THEN \E r \in ToSet(log) : Refused(harness, r)
    ELSE \A r \in ToSet(bundle.source) :
           /\ Accounted(harness, r, bundle.events)
           /\ LeftOut(harness, r, bundle.loss)
              \/ RecordValues(r) \subseteq EvidenceValues(bundle.events)

\* What each target keeps: none the text of a tool message that names no call,
\* nor a result said in the message of another than a tool;
\* pi the rest as it is; dimagent a failure only when the result says so itself,
\* and no system speaker; codex run after run, no failure, and no other speaker
\* than user, assistant and tool.
Kept(name, items) ==
  LET said == SelectSeq(items, LAMBDA x : IF x.by = "tool" THEN x.kind = "result"
                                          ELSE x.kind # "result")
      First(run) == Min({i \in DOMAIN said : said[i].run = run})
      byRun == LET order == SortSeq([i \in DOMAIN said |-> i], LAMBDA i, j :
                              Below(<<First(said[i].run), i>>, <<First(said[j].run), j>>))
               IN  [k \in DOMAIN order |-> said[order[k]]]
  IN  CASE name = "pi" -> said
        [] name = "codex" ->
             LET spoken == SelectSeq(byRun, LAMBDA x : x.role \in {"user", "assistant", "tool"})
             IN  [i \in DOMAIN spoken |-> [spoken[i] EXCEPT !.failed = FALSE]]
        [] name = "dimagent" ->
             [i \in DOMAIN said |-> [said[i] EXCEPT !.failed = harness = "dimagent" /\ @,
                                        !.role = IF @ = "system" THEN "unknown" ELSE @]]

\* Messages whose events share an id are one entry of a pi log; runs of one
\* instant go to dimagent in the order of their hashes; and its keys repeat.
SharedIds ==
  \E i, j \in DOMAIN bundle.events :
    i < j /\ bundle.events[i].id = bundle.events[j].id /\ bundle.events[i].type = <<"message", "completed">>
SameInstant ==
  Len(exported.log) > KeyModulus
  \/ \E r, s \in ToSet(bundle.pivot.runs) : r.id # s.id /\ r.startedAt = s.startedAt
Ambiguous == (target = "pi" /\ SharedIds) \/ (target = "dimagent" /\ SameInstant)

\* The harness a session is handed to reads the conversation that was exported.
KeepsConversation ==
  phase = "resumed" /\ ~Ambiguous =>
    ~resumed.failed /\ Bare(Stream(resumed.pivot)) = Bare(Kept(target, Stream(bundle.pivot)))

\* A bundle verifies exactly against a source that still gives this very bundle
\* (bundle.ts:125-133): one that grew after the import does not verify, and one
\* that did not is never refused.
VerifiedIffUnchanged ==
  [][verified' # verified => (verified' = <<TRUE>> <=> ImportFile(harness, source) = bundle)]_vars

\* codex.ts:222, "turn_aborted settles the run as cancelled"; where hashes
\* decide between events of one time, those that favour it are assumed.
AbortedRunsCancelled ==
  Imported /\ harness = "codex" /\ hash = -1 =>
    \A e \in ToSet(bundle.events) :
      e.type = <<"unknown", "observed">> /\ e.body.nativeType = "turn_aborted" =>
        \E r \in ToSet(bundle.pivot.runs) : r.id = e.corr.runId /\ r.state = "cancelled"
=============================================================================
