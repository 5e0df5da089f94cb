------------------------------- MODULE Bundle -------------------------------
(***************************************************************************)
(* What the importers of usl-convert share: the builder that emits the     *)
(* evidence of a session, the snapshot made from it, and the bundle that   *)
(* is written (evidence.ts, materialize.ts, bundle.ts).                    *)
(*                                                                         *)
(* A builder b is the state of one import: its events, the run that is     *)
(* open, the tool calls declared so far, the two counters and the losses;  *)
(* byUuid are the messages of claude's entries (claude.ts, messageIdByUuid).*)
(* failed: an event was refused, so the import threw.                      *)
(***************************************************************************)
EXTENDS Evidence

Started(hash) ==
  [events |-> <<>>, run |-> None, declared |-> <<>>, messageIndex |-> 0, toolIndex |-> 0,
   loss |-> {}, failed |-> FALSE, hash |-> hash, byUuid |-> <<>>]

Lose(b, what) == [b EXCEPT !.loss = @ \cup {what}]

\* Two events with one native id and one type have one event id.
EventId(b, type, nid) ==
  LET same == {i \in DOMAIN b.events : nid # None /\ b.events[i].nid = nid
                                                  /\ b.events[i].type = type}
  IN  IF same = {} THEN b.hash * (Len(b.events) + 1) ELSE b.events[Min(same)].id

Emit(b, type, body, nid, ts, corr, rev) ==
  LET e == [id |-> EventId(b, type, nid), type |-> type, nid |-> nid, ts |-> ts,
            layer |-> "L1", authenticated |-> FALSE, authority |-> "authoritative",
            confidence |-> 1, corr |-> corr, rev |-> rev, body |-> body]
  IN  IF b.failed \/ ~ValidEnvelope(e) THEN [b EXCEPT !.failed = TRUE]
      ELSE [b EXCEPT !.events = Append(@, e)]

LastTs(b) == IF b.events = <<>> THEN 0 ELSE Last(b.events).ts
RunCorr(run) == [runId |-> run, turnId |-> <<"turn">> \o run]
MessageCorr(b, id) == With(RunCorr(b.run), [messageId |-> id])
Declared(b, call) == IF call \in DOMAIN b.declared THEN b.declared[call]
                     ELSE [name |-> "unknown", args |-> <<>>]
Declare(b, call, args) ==
  [b EXCEPT !.declared = [c \in DOMAIN @ \cup {call} |->
                            IF c = call THEN [name |-> "tool", args |-> args] ELSE @[c]]]

\* The calls at some places of a message; of one declared twice the last counts.
DeclareAll(b, blocks, places) ==
  LET calls == {blocks[i].call : i \in places}
      Args(c) == blocks[Max({i \in places : blocks[i].call = c})].v
  IN  [b EXCEPT !.declared = [c \in DOMAIN @ \cup calls |->
                                IF c \in calls THEN [name |-> "tool", args |-> Args(c)] ELSE @[c]]]

\* turn.completed and run.settled; the run stays the current one.
EmitClose(b, state, ts) ==
  IF b.run = None THEN b
  ELSE LET b1 == Emit(b, <<"turn", "completed">>, [turnIndex |-> 0, state |-> state],
                      None, ts, RunCorr(b.run), 2)
       IN  Emit(b1, <<"run", "settled">>, [state |-> state], None, ts, [runId |-> b.run], 2)

\* run.started and turn.started under the native id given.
EmitOpen(b, run, nid, ts) ==
  LET b1 == Emit([b EXCEPT !.run = run], <<"run", "started">>, [state |-> "running"],
                 nid, ts, [runId |-> run], 1)
  IN  Emit(b1, <<"turn", "started">>, [turnIndex |-> 0, state |-> "running"],
           nid, ts, RunCorr(run), 1)

EmitUnknown(b, nativeType, v, nid, ts, corr) ==
  Emit(b, <<"unknown", "observed">>, [nativeType |-> nativeType, value |-> v], nid, ts, corr, 0)

\* A message takes the next index, a completed tool call the next tool index.
EmitMessage(b, body, nid, ts, corr) ==
  [Emit(b, <<"message", "completed">>,
        With(body, [messageIndex |-> b.messageIndex, state |-> "completed"]), nid, ts, corr, 1)
     EXCEPT !.messageIndex = @ + 1]

EmitTool(b, name, args, result, isError, nid, ts, corr) ==
  [Emit(b, <<"tool", "completed">>,
        [toolName |-> name, args |-> args, result |-> result, isError |-> isError,
         state |-> IF isError THEN "failed" ELSE "completed", toolIndex |-> b.toolIndex],
        nid, ts, corr, 1)
     EXCEPT !.toolIndex = @ + 1]

CompletedTools(b) == {b.events[i].corr.toolCallId :
                        i \in {j \in DOMAIN b.events : b.events[j].type = <<"tool", "completed">>}}

\* The end of an import: session.ended, and a loss for calls without a result.
EmitEnd(b) ==
  LET ended == Emit(b, <<"session", "ended">>, [state |-> "exited"], None, LastTs(b), <<>>, 0)
  IN  IF DOMAIN b.declared \subseteq CompletedTools(b) THEN ended
      ELSE Lose(ended, "tool calls without a result")

---------------------------------------------------------------------------
(* buildSnapshot: the entities in the order of their first event.          *)

IdKey(kind) == CASE kind = "message" -> "messageId" [] kind = "tool" -> "toolCallId"
                 [] kind = "run" -> "runId" [] kind = "turn" -> "turnId"

EntityEvents(events, kind) ==
  SelectSeq(events, LAMBDA e : e.type[1] = kind /\ IdKey(kind) \in DOMAIN e.corr)

EntityIds(events, kind) ==
  FoldLeft(LAMBDA ids, e : IF e.corr[IdKey(kind)] \in ToSet(ids) THEN ids
                           ELSE Append(ids, e.corr[IdKey(kind)]),
           <<>>, EntityEvents(events, kind))

Observations(events, kind, id) ==
  SelectSeq(EntityEvents(events, kind), LAMBDA e : e.corr[IdKey(kind)] = id)

Ordered(entities) == SortSeq(entities, LAMBDA x, y : x.order < y.order)
IdsOf(entities) == [i \in DOMAIN entities |-> entities[i].id]

Within(entities, key, id) == IdsOf(Ordered(SelectSeq(entities, LAMBDA x : x[key] = id)))

\* Turns and runs list the entities that name them.
Snapshot(size, messages, tools, turns, runs) ==
  [revision |-> size, nextSeq |-> size, messages |-> messages, tools |-> tools,
   turns |-> [i \in DOMAIN turns |-> With(turns[i],
                [messageIds |-> Within(messages, "turnId", turns[i].id),
                 toolCallIds |-> Within(tools, "turnId", turns[i].id)])],
   runs |-> [i \in DOMAIN runs |-> With(runs[i],
               [turnIds |-> IdsOf(SelectSeq(turns, LAMBDA t : t.runId = runs[i].id)),
                messageIds |-> Within(messages, "runId", runs[i].id),
                toolCallIds |-> Within(tools, "runId", runs[i].id)])]]

BuildSnapshot(events) ==
  LET All(kind, M(_, _)) == LET ids == EntityIds(events, kind)
                            IN  [i \in DOMAIN ids |-> M(Observations(events, kind, ids[i]), ids[i])]
  IN  Snapshot(Len(events), All("message", MaterializeMessage), All("tool", MaterializeTool),
               All("turn", MaterializeTurn), All("run", MaterializeRun))

---------------------------------------------------------------------------
(* The bundle.  Its digests are the contents they are digests of.          *)

Sealed(unsigned) == With(unsigned, [integrity |-> unsigned])

MakeBundle(harness, source, b) ==
  IF b.failed THEN [harness |-> harness, failed |-> TRUE]
  ELSE Sealed([harness |-> harness, failed |-> FALSE, source |-> source, events |-> b.events,
               pivot |-> BuildSnapshot(b.events), loss |-> b.loss])

ValidBundle(bundle) ==
  /\ \A e \in ToSet(bundle.events) : ValidEnvelope(e)
  /\ bundle.pivot.revision = Len(bundle.events)
  /\ bundle.pivot.nextSeq = Len(bundle.events)
  /\ bundle.integrity = Only(bundle, DOMAIN bundle \ {"integrity"})

\* Mutant: a bundle that is intact is taken for verified.
VerifySources_IntactOnly(bundle, files) == ValidBundle(bundle)

\* verifyBundleSources against the files as they are on disk.
VerifySources(bundle, files) == ValidBundle(bundle) /\ bundle.source = files
=============================================================================
