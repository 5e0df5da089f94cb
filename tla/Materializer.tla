---------------------------- MODULE Materializer ----------------------------
(***************************************************************************)
(* One entity of a session as observations of it arrive                    *)
(* (packages/usl-convert/src/asp-schema/agent-session-materializer.ts).    *)
(* What was observed comes from several layers and adapters, in any order, *)
(* late and more than once; the entity is what Evidence makes of it.       *)
(***************************************************************************)
EXTENDS Evidence

CONSTANTS
  Observed,   \* for each kind of entity, the observations of one entity of it
  MaxSeen     \* bound: observations that arrive

\* An event id stands for one observation: it is a hash of the session, the native
\* event and the type (usl-convert/src/evidence.ts:54).
ASSUME MaterializerAssumption ==
  /\ DOMAIN Observed \subseteq {"run", "turn", "message", "tool"}
  /\ \A kind \in DOMAIN Observed : \A e \in Observed[kind] :
       Typed(e) /\ e.type[1] = kind /\ ValidEnvelope(e)
  /\ \A kind \in DOMAIN Observed : \A e, f \in Observed[kind] : e.id = f.id => e = f
  /\ MaxSeen \in Nat

VARIABLES
  kind,       \* what the entity is
  seen        \* the observations so far, as they arrived
entityVars == <<kind, seen>>

Entity(obs) ==
  CASE kind = "run" -> MaterializeRun(obs, "id")
    [] kind = "turn" -> MaterializeTurn(obs, "id")
    [] kind = "message" -> MaterializeMessage(obs, "id")
    [] kind = "tool" -> MaterializeTool(obs, "id")

EntityInit == kind \in DOMAIN Observed /\ seen = <<>>

Observe(e) ==
  /\ Len(seen) < MaxSeen
  /\ seen' = Append(seen, e)
  /\ UNCHANGED kind

EntityNext == \E e \in Observed[kind] : Observe(e)
EntitySpec == EntityInit /\ [][EntityNext]_entityVars

---------------------------------------------------------------------------
\* The entity is a function of the set of its observations: neither their
\* order nor an observation that comes twice matters (compareFieldEvent and
\* authorityCohort take the highest, materializer.ts:25-52).
OrderFree ==
  seen # <<>> =>
    \A obs \in SeqOf(ToSet(seen), Len(seen)) :
      ToSet(obs) = ToSet(seen) => Entity(obs) = Entity(seen)

\* A late observation never takes back what is settled: one of a lower cohort
\* changes nothing but the list of sources ("lower cohorts never fill holes",
\* materializer.ts:11), and one that ends nothing leaves an ended entity ended.
Settled(obs) == Entity(obs).state # "running"
Content(entity) == Only(entity, DOMAIN entity \ {"provenance"})
Lower(e, obs) == \E f \in ToSet(obs) : Below(CohortRank(e), CohortRank(f))
Higher(e, obs) == \A f \in ToSet(obs) : Below(CohortRank(f), CohortRank(e))

LateNeverReverts ==
  [][seen # <<>> =>
       LET e == Last(seen')
       IN  /\ Lower(e, seen) => Content(Entity(seen')) = Content(Entity(seen))
           /\ Settled(seen) /\ e.type \notin Ends /\ ~Higher(e, seen) =>
                Entity(seen').state = Entity(seen).state]_entityVars
=============================================================================
