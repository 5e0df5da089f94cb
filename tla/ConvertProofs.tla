--------------------------- MODULE ConvertProofs ---------------------------
(***************************************************************************)
(* Proofs about usl-convert.                                               *)
(*                                                                         *)
(* First about Materializer, for every set of observations: what is made   *)
(* of an entity does not depend on the order of its observations, and a    *)
(* late one takes nothing back.  Everything the materialization reads of   *)
(* observations it reads of those a selection leaves, and of the one that  *)
(* wins among them; selections are by the observation alone, and the       *)
(* winner is unique since FieldRank ends in the id.                        *)
(*                                                                         *)
(* Then about Convert, for every log of every harness: no record of a log  *)
(* disappears in its import but those the property names, an import throws *)
(* at nothing but a record that leaves something unnamed or is about two   *)
(* calls, and a bundle verifies exactly against a source that gives it.    *)
(* Each importer is a fold over a log whose accumulator only ever gains    *)
(* evidence (Continues), so what one step told is told by the bundle; and  *)
(* each event that a record it takes makes it emit is valid.               *)
(***************************************************************************)
EXTENDS Materializer, Convert, Numbers

-----------------------------------------------------------------------------
(* The order of ranks.                                                     *)

Ranks(n) == [1..n -> Int]

\* Below is a strict order of ranks of one length, in which only equal ranks
\* are not comparable.
LEMMA BelowOrder ==
  ASSUME NEW n \in Nat, NEW a \in Ranks(n), NEW b \in Ranks(n), NEW c \in Ranks(n)
  PROVE  /\ ~Below(a, a)
         /\ Below(a, b) /\ Below(b, c) => Below(a, c)
         /\ ~Below(a, b) /\ ~Below(b, a) => a = b
<1>0. /\ DOMAIN a = 1..n /\ DOMAIN b = 1..n /\ DOMAIN c = 1..n
      /\ \A i \in 1..n : a[i] \in Int /\ b[i] \in Int /\ c[i] \in Int
      /\ \A i \in 1..n : \A j \in 1..(i - 1) : j \in 1..n /\ j < i
      /\ \A i, j \in 1..n : j < i => j \in 1..(i - 1)
  BY DEF Ranks
<1>1. ~Below(a, a)
  BY <1>0 DEF Below
<1>2. ASSUME Below(a, b), Below(b, c)
      PROVE  Below(a, c)
  <2>1. PICK i \in 1..n : a[i] < b[i] /\ \A j \in 1..(i - 1) : a[j] = b[j]
    BY <1>0, <1>2 DEF Below
  <2>2. PICK k \in 1..n : b[k] < c[k] /\ \A j \in 1..(k - 1) : b[j] = c[j]
    BY <1>0, <1>2 DEF Below
  <2>3. CASE i <= k
    <3>1. b[i] <= c[i]
      BY <1>0, <2>2, <2>3
    <3>2. a[i] < c[i]
      BY <1>0, <2>1, <3>1
    <3>3. \A j \in 1..(i - 1) : a[j] = c[j]
      BY <1>0, <2>1, <2>2, <2>3
    <3> QED
      BY <1>0, <3>2, <3>3 DEF Below
  <2>4. CASE k < i
    <3>1. a[k] = b[k]
      BY <1>0, <2>1, <2>4
    <3>2. a[k] < c[k]
      BY <2>2, <3>1
    <3>3. \A j \in 1..(k - 1) : a[j] = c[j]
      BY <1>0, <2>1, <2>2, <2>4
    <3> QED
      BY <1>0, <3>2, <3>3 DEF Below
  <2> QED
    BY <2>3, <2>4
<1>3. ASSUME ~Below(a, b), ~Below(b, a), a # b
      PROVE  FALSE
  <2> DEFINE D == {i \in 1..n : a[i] # b[i]}
  <2>1. D # {}
    <3>1. a = [i \in 1..n |-> a[i]] /\ b = [i \in 1..n |-> b[i]]
      BY DEF Ranks
    <3>2. ASSUME \A i \in 1..n : a[i] = b[i]
          PROVE  a = b
      BY <3>1, <3>2
    <3> QED
      BY <1>3, <3>2
  <2>2. D \subseteq Nat
    OBVIOUS
  <2>3. PICK i \in D : \A j \in D : i <= j
    BY <2>1, <2>2, LeastNumber
  <2>4. i \in 1..n /\ a[i] # b[i] /\ \A j \in 1..(i - 1) : a[j] = b[j]
    BY <1>0, <2>3
  <2>5. a[i] < b[i] \/ b[i] < a[i]
    BY <1>0, <2>4
  <2> QED
    BY <1>0, <1>3, <2>4, <2>5 DEF Below
<1> QED
  BY <1>1, <1>2, <1>3

\* The ranks of an event.
LEMMA RankTypes ==
  ASSUME NEW e, Typed(e)
  PROVE  FieldRank(e) \in Ranks(5) /\ CohortRank(e) \in Ranks(2)
<1>1. /\ e.id \in Int /\ e.ts \in Int /\ e.confidence \in Int /\ Get(e, "rev", 0) \in Int
  BY DEF Typed
<1>2. FieldRank(e) \in Ranks(5)
  <2> DEFINE ended == IF e.type \in Ends THEN 1 ELSE 0
             rev == Get(e, "rev", 0)
  <2>1. ended \in Int /\ rev \in Int
    BY <1>1
  <2>2. FieldRank(e) = <<ended, rev, e.confidence, e.ts, e.id>>
    BY DEF FieldRank
  <2> HIDE DEF ended, rev
  <2> QED
    BY <1>1, <2>1, <2>2 DEF Ranks
<1>3. CohortRank(e) \in Ranks(2)
  BY DEF CohortRank, Ranks
<1> QED
  BY <1>2, <1>3

\* Of finitely many ranks one is not below another.
LEMMA Highest ==
  ASSUME NEW m \in Nat, NEW n \in Nat, NEW R, NEW P, P \subseteq 1..n, P # {},
         \A i \in P : R[i] \in Ranks(m)
  PROVE  \E i \in P : \A j \in P : ~Below(R[i], R[j])
<1> DEFINE T == {k \in Nat : \A Q \in SUBSET P :
                   Q # {} /\ Q \subseteq 1..k => \E i \in Q : \A j \in Q : ~Below(R[i], R[j])}
<1>1. 0 \in T
  <2>1. 1..0 = {}
    OBVIOUS
  <2>2. \A Q : Q # {} /\ Q \subseteq {} => FALSE
    OBVIOUS
  <2> QED
    BY <2>1, <2>2
<1>2. ASSUME NEW k \in Nat, k \in T
      PROVE  k + 1 \in T
  <2> SUFFICES ASSUME NEW Q \in SUBSET P, Q # {}, Q \subseteq 1..(k + 1)
               PROVE  \E i \in Q : \A j \in Q : ~Below(R[i], R[j])
    OBVIOUS
  <2> DEFINE L == Q \ {k + 1}
  <2>1. L \in SUBSET P /\ L \subseteq 1..k
    OBVIOUS
  <2>2. CASE k + 1 \notin Q
    BY <1>2, <2>1, <2>2
  <2>3. CASE L = {}
    <3>1. Q = {k + 1}
      BY <2>3
    <3>2. ~Below(R[k + 1], R[k + 1])
      BY <3>1, BelowOrder
    <3> QED
      BY <3>1, <3>2
  <2>4. CASE k + 1 \in Q /\ L # {}
    <3>1. PICK i \in L : \A j \in L : ~Below(R[i], R[j])
      BY <1>2, <2>1, <2>4
    <3>2. \A x \in Q : R[x] \in Ranks(m)
      OBVIOUS
    <3>3. CASE Below(R[i], R[k + 1])
      <4>1. \A j \in L : ~Below(R[k + 1], R[j])
        BY <2>4, <3>1, <3>2, <3>3, BelowOrder
      <4>2. ~Below(R[k + 1], R[k + 1])
        BY <2>4, <3>2, BelowOrder
      <4> QED
        BY <2>4, <4>1, <4>2
    <3>4. CASE ~Below(R[i], R[k + 1])
      BY <3>1, <3>4
    <3> QED
      BY <3>3, <3>4
  <2> QED
    BY <2>2, <2>3, <2>4
<1>3. n \in T
  <2> HIDE DEF T
  <2> QED
    BY <1>1, <1>2, NaturalsIn
<1> QED
  BY <1>3

-----------------------------------------------------------------------------
(* Selections of observations, and the one that wins.                      *)

\* The observations E, of which no two share an id.
Distinct(E) == (\A e \in E : Typed(e)) /\ \A e, f \in E : e.id = f.id => e = f

\* Some observations of E, each at a place.
Places(obs, E) ==
  /\ \E n \in Nat : DOMAIN obs \subseteq 1..n
  /\ DOMAIN obs # {}
  /\ \A i \in DOMAIN obs : obs[i] \in E

\* No other observation of S is above w.
Wins(w, S) == w \in S /\ \A f \in S : ~Below(FieldRank(w), FieldRank(f))

\* The fold of overallWinner (materializer.ts:50) ends at one that wins.
LEMMA WinnerWins ==
  ASSUME NEW E, Distinct(E), NEW obs, Places(obs, E)
  PROVE  Wins(OverallWinner(obs), ToSet(obs))
<1>1. PICK n \in Nat : DOMAIN obs \subseteq 1..n
  BY DEF Places
<1> DEFINE R == [i \in DOMAIN obs |-> FieldRank(obs[i])]
           H == {i \in DOMAIN obs : \A f \in ToSet(obs) : ~Below(FieldRank(obs[i]), FieldRank(f))}
<1>2. \A i \in DOMAIN obs : R[i] \in Ranks(5)
  BY RankTypes DEF Places, Distinct
<1>3. \E i \in DOMAIN obs : \A j \in DOMAIN obs : ~Below(R[i], R[j])
  <2> HIDE DEF R
  <2> QED
    BY <1>1, <1>2, Highest DEF Places
<1>4. H # {} /\ H \subseteq Nat
  BY <1>1, <1>3 DEF ToSet
<1>5. PICK i \in H : \A j \in H : i <= j
  BY <1>4, LeastNumber
<1>6. Min(H) \in H
  BY <1>5 DEF Min
<1>7. OverallWinner(obs) = obs[Min(H)]
  BY DEF OverallWinner
<1> QED
  BY <1>6, <1>7 DEF Wins, ToSet

\* There is one winner.
LEMMA OneWinner ==
  ASSUME NEW E, Distinct(E), NEW S, S \subseteq E, NEW v, NEW w, Wins(v, S), Wins(w, S)
  PROVE  v = w
<1>1. v \in E /\ w \in E /\ ~Below(FieldRank(v), FieldRank(w)) /\ ~Below(FieldRank(w), FieldRank(v))
  BY DEF Wins
<1>2. FieldRank(v) \in Ranks(5) /\ FieldRank(w) \in Ranks(5)
  BY <1>1, RankTypes DEF Distinct
<1>3. FieldRank(v) = FieldRank(w)
  BY <1>1, <1>2, BelowOrder
<1>4. v.id = w.id
  <2>1. FieldRank(v)[5] = v.id /\ FieldRank(w)[5] = w.id
    BY DEF FieldRank
  <2> QED
    BY <1>3, <2>1
<1> QED
  BY <1>1, <1>4 DEF Distinct

\* The same observations, at whatever places.
Alike(a, b, E) == Places(a, E) /\ Places(b, E) /\ ToSet(a) = ToSet(b)

\* The winner does not depend on the places.
LEMMA SameWinner ==
  ASSUME NEW E, Distinct(E), NEW a, NEW b, Alike(a, b, E)
  PROVE  OverallWinner(a) = OverallWinner(b)
<1>1. Wins(OverallWinner(a), ToSet(a)) /\ Wins(OverallWinner(b), ToSet(a))
  BY WinnerWins DEF Alike
<1>2. ToSet(a) \subseteq E
  BY DEF Alike, Places, ToSet
<1> QED
  BY <1>1, <1>2, OneWinner

\* The observations of S among them.
Pick(obs, S) == Only(obs, {i \in DOMAIN obs : obs[i] \in S})

\* What is picked, and that it is again observations at places.
LEMMA Picked ==
  ASSUME NEW obs, NEW E, Places(obs, E), NEW S
  PROVE  /\ DOMAIN Pick(obs, S) = {i \in DOMAIN obs : obs[i] \in S}
         /\ ToSet(Pick(obs, S)) = ToSet(obs) \cap S
         /\ (ToSet(obs) \cap S = {}) <=> (DOMAIN Pick(obs, S) = {})
         /\ ToSet(obs) \cap S # {} => Places(Pick(obs, S), E)
<1> DEFINE P == {i \in DOMAIN obs : obs[i] \in S}
<1>1. DOMAIN Pick(obs, S) = P /\ \A i \in P : Pick(obs, S)[i] = obs[i]
  BY DEF Pick, Only
<1>2. ToSet(Pick(obs, S)) = ToSet(obs) \cap S
  BY <1>1 DEF ToSet
<1>3. (ToSet(obs) \cap S = {}) <=> (P = {})
  BY DEF ToSet
<1>4. P # {} => Places(Pick(obs, S), E)
  BY <1>1 DEF Places
<1> QED
  BY <1>1, <1>2, <1>3, <1>4

\* Selecting by the observation alone, the places do not matter.
LEMMA PickedAlike ==
  ASSUME NEW E, NEW a, NEW b, Alike(a, b, E), NEW S
  PROVE  \/ DOMAIN Pick(a, S) = {} /\ DOMAIN Pick(b, S) = {}
         \/ /\ DOMAIN Pick(a, S) # {} /\ DOMAIN Pick(b, S) # {}
            /\ Alike(Pick(a, S), Pick(b, S), E)
<1>1. Places(a, E) /\ Places(b, E) /\ ToSet(a) = ToSet(b)
  BY DEF Alike
<1>2. CASE ToSet(a) \cap S = {}
  <2>1. DOMAIN Pick(a, S) = {}
    BY <1>1, <1>2, Picked
  <2>2. DOMAIN Pick(b, S) = {}
    BY <1>1, <1>2, Picked
  <2> QED
    BY <2>1, <2>2
<1>3. CASE ToSet(a) \cap S # {}
  <2>1. DOMAIN Pick(a, S) # {} /\ Places(Pick(a, S), E) /\ ToSet(Pick(a, S)) = ToSet(a) \cap S
    BY <1>1, <1>3, Picked
  <2>2. DOMAIN Pick(b, S) # {} /\ Places(Pick(b, S), E) /\ ToSet(Pick(b, S)) = ToSet(b) \cap S
    BY <1>1, <1>3, Picked
  <2> QED
    BY <1>1, <2>1, <2>2 DEF Alike
<1> QED
  BY <1>2, <1>3

\* The observations of S that state a field, that name a link, that are of a type,
\* and of which none of S is of a higher cohort.
States(S, key) == {e \in S : key \in DOMAIN e.body}
Links(S, key) == {e \in S : key \in DOMAIN e.corr}
AreOf(S, type) == {e \in S : e.type = type}
Top(S) == {e \in S : \A f \in S : ~Below(CohortRank(e), CohortRank(f))}

\* The selections of the code select by the observation.
LEMMA Selections ==
  ASSUME NEW obs, NEW S, S = ToSet(obs)
  PROVE  /\ \A key : Stating(obs, key) = Pick(obs, States(S, key))
         /\ \A key : Correlated(obs, key) = Pick(obs, Links(S, key))
         /\ \A type : OfType(obs, type) = Pick(obs, AreOf(S, type))
         /\ AuthorityCohort(obs) = Pick(obs, Top(S))
<1>1. \A i \in DOMAIN obs : obs[i] \in S
  BY DEF ToSet
<1>2. ASSUME NEW key
      PROVE  Stating(obs, key) = Pick(obs, States(S, key))
  <2>1. {i \in DOMAIN obs : key \in DOMAIN obs[i].body}
        = {i \in DOMAIN obs : obs[i] \in States(S, key)}
    BY <1>1 DEF States
  <2> QED
    BY <2>1 DEF Stating, Pick
<1>3. ASSUME NEW key
      PROVE  Correlated(obs, key) = Pick(obs, Links(S, key))
  <2>1. {i \in DOMAIN obs : key \in DOMAIN obs[i].corr}
        = {i \in DOMAIN obs : obs[i] \in Links(S, key)}
    BY <1>1 DEF Links
  <2> QED
    BY <2>1 DEF Correlated, Pick
<1>4. ASSUME NEW type
      PROVE  OfType(obs, type) = Pick(obs, AreOf(S, type))
  <2>1. {i \in DOMAIN obs : obs[i].type = type}
        = {i \in DOMAIN obs : obs[i] \in AreOf(S, type)}
    BY <1>1 DEF AreOf
  <2> QED
    BY <2>1 DEF OfType, Pick
<1>5. AuthorityCohort(obs) = Pick(obs, Top(S))
  <2>1. {i \in DOMAIN obs : \A f \in ToSet(obs) : ~Below(CohortRank(obs[i]), CohortRank(f))}
        = {i \in DOMAIN obs : obs[i] \in Top(S)}
    BY <1>1 DEF Top
  <2> QED
    BY <2>1 DEF AuthorityCohort, Pick
<1> QED
  BY <1>2, <1>3, <1>4, <1>5

\* What is made of observations does not depend on their places.
LEMMA SameFields ==
  ASSUME NEW E, Distinct(E), NEW a, NEW b, Alike(a, b, E)
  PROVE  /\ \A key, default : Chosen(a, key, default) = Chosen(b, key, default)
         /\ \A key : ChosenLink(a, key) = ChosenLink(b, key)
         /\ \A keys : ChosenFields(a, keys) = ChosenFields(b, keys)
         /\ Revision(a) = Revision(b) /\ Earliest(a) = Earliest(b) /\ Latest(a) = Latest(b)
         /\ \A type : \/ /\ DOMAIN OfType(a, type) = {} /\ DOMAIN OfType(b, type) = {}
                      \/ /\ DOMAIN OfType(a, type) # {} /\ DOMAIN OfType(b, type) # {}
                         /\ OverallWinner(OfType(a, type)) = OverallWinner(OfType(b, type))
                         /\ Latest(OfType(a, type)) = Latest(OfType(b, type))
<1>1. ToSet(a) = ToSet(b)
  BY DEF Alike
<1> DEFINE S == ToSet(a)
<1>2. ASSUME NEW key
      PROVE  \/ DOMAIN Stating(a, key) = {} /\ DOMAIN Stating(b, key) = {}
             \/ /\ DOMAIN Stating(a, key) # {} /\ DOMAIN Stating(b, key) # {}
                /\ OverallWinner(Stating(a, key)) = OverallWinner(Stating(b, key))
  <2> DEFINE T == States(S, key)
  <2>1. Stating(a, key) = Pick(a, T) /\ Stating(b, key) = Pick(b, T)
    BY <1>1, Selections
  <2> HIDE DEF T
  <2> QED
    BY <2>1, PickedAlike, SameWinner
<1>3. ASSUME NEW key
      PROVE  \/ DOMAIN Correlated(a, key) = {} /\ DOMAIN Correlated(b, key) = {}
             \/ /\ DOMAIN Correlated(a, key) # {} /\ DOMAIN Correlated(b, key) # {}
                /\ OverallWinner(Correlated(a, key)) = OverallWinner(Correlated(b, key))
  <2> DEFINE T == Links(S, key)
  <2>1. Correlated(a, key) = Pick(a, T) /\ Correlated(b, key) = Pick(b, T)
    BY <1>1, Selections
  <2> HIDE DEF T
  <2> QED
    BY <2>1, PickedAlike, SameWinner
<1>4. ASSUME NEW type
      PROVE  \/ /\ DOMAIN OfType(a, type) = {} /\ DOMAIN OfType(b, type) = {}
             \/ /\ DOMAIN OfType(a, type) # {} /\ DOMAIN OfType(b, type) # {}
                /\ OverallWinner(OfType(a, type)) = OverallWinner(OfType(b, type))
                /\ Latest(OfType(a, type)) = Latest(OfType(b, type))
  <2> DEFINE T == AreOf(S, type)
  <2>1. OfType(a, type) = Pick(a, T) /\ OfType(b, type) = Pick(b, T)
    BY <1>1, Selections
  <2>2. ToSet(Pick(a, T)) = ToSet(Pick(b, T))
    <3> HIDE DEF T
    <3>1. ToSet(Pick(a, T)) = ToSet(a) \cap T
      BY Picked DEF Alike
    <3>2. ToSet(Pick(b, T)) = ToSet(b) \cap T
      BY Picked DEF Alike
    <3> QED
      BY <1>1, <3>1, <3>2
  <2>3. Latest(OfType(a, type)) = Latest(OfType(b, type))
    BY <2>1, <2>2 DEF Latest
  <2> HIDE DEF T
  <2> QED
    BY <2>1, <2>3, PickedAlike, SameWinner
<1>5. ASSUME NEW key, NEW default
      PROVE  Chosen(a, key, default) = Chosen(b, key, default)
  BY <1>2 DEF Chosen
<1>6. ASSUME NEW key
      PROVE  ChosenLink(a, key) = ChosenLink(b, key)
  BY <1>3 DEF ChosenLink
<1>7. ASSUME NEW keys
      PROVE  ChosenFields(a, keys) = ChosenFields(b, keys)
  <2>1. {x \in keys : DOMAIN Stating(a, x) # {}} = {x \in keys : DOMAIN Stating(b, x) # {}}
    BY <1>2
  <2> QED
    BY <2>1, <1>5 DEF ChosenFields
<1>8. Revision(a) = Revision(b) /\ Earliest(a) = Earliest(b) /\ Latest(a) = Latest(b)
  BY <1>1 DEF Revision, Earliest, Latest
<1> QED
  BY <1>4, <1>5, <1>6, <1>7, <1>8

-----------------------------------------------------------------------------
(* The authority cohort.                                                   *)

\* The authority cohort is not empty, and holds the observations at the top.
LEMMA CohortIsTop ==
  ASSUME NEW E, Distinct(E), NEW obs, Places(obs, E)
  PROVE  Places(AuthorityCohort(obs), E) /\ ToSet(AuthorityCohort(obs)) = Top(ToSet(obs))
<1>1. PICK n \in Nat : DOMAIN obs \subseteq 1..n
  BY DEF Places
<1> DEFINE R == [i \in DOMAIN obs |-> CohortRank(obs[i])]
<1>2. \A i \in DOMAIN obs : R[i] \in Ranks(2)
  BY RankTypes DEF Places, Distinct
<1>3. \E i \in DOMAIN obs : \A j \in DOMAIN obs : ~Below(R[i], R[j])
  <2> HIDE DEF R
  <2> QED
    BY <1>1, <1>2, Highest DEF Places
<1>4. Top(ToSet(obs)) # {} /\ Top(ToSet(obs)) \subseteq ToSet(obs)
  BY <1>3 DEF ToSet, Top
<1>5. AuthorityCohort(obs) = Pick(obs, Top(ToSet(obs)))
  BY Selections
<1> DEFINE T == Top(ToSet(obs))
<1>6. ToSet(obs) \cap T = T /\ T # {}
  BY <1>4
<1>7. Places(Pick(obs, T), E)
  <2> HIDE DEF T
  <2> QED
    BY <1>6, Picked
<1>8. ToSet(Pick(obs, T)) = ToSet(obs) \cap T
  <2> HIDE DEF T
  <2> QED
    BY Picked
<1> QED
  BY <1>5, <1>6, <1>7, <1>8

\* What is at the top decides the cohort.
LEMMA SameCohort ==
  ASSUME NEW E, Distinct(E), NEW a, NEW b, Places(a, E), Places(b, E),
         Top(ToSet(a)) = Top(ToSet(b))
  PROVE  Alike(AuthorityCohort(a), AuthorityCohort(b), E)
  BY CohortIsTop DEF Alike

\* An observation of a lower cohort is not in it.
LEMMA LowerStaysOut ==
  ASSUME NEW E, Distinct(E), NEW S, S \subseteq E, NEW e \in E,
         \E f \in S : Below(CohortRank(e), CohortRank(f))
  PROVE  Top(S \cup {e}) = Top(S)
<1>1. \A x \in E : CohortRank(x) \in Ranks(2)
  BY RankTypes DEF Distinct
<1>2. \A x \in S : Below(CohortRank(x), CohortRank(e)) =>
                     \E f \in S : Below(CohortRank(x), CohortRank(f))
  BY <1>1, BelowOrder
<1> QED
  BY <1>2 DEF Top

\* One of the same cohort is.
LEMMA PeerJoins ==
  ASSUME NEW E, Distinct(E), NEW S, S \subseteq E, NEW e \in E,
         ~\E f \in S : Below(CohortRank(e), CohortRank(f)),
         \E f \in S : ~Below(CohortRank(f), CohortRank(e))
  PROVE  Top(S \cup {e}) = Top(S) \cup {e}
<1>1. \A x \in E : CohortRank(x) \in Ranks(2)
  BY RankTypes DEF Distinct
<1>2. PICK f \in S : ~Below(CohortRank(f), CohortRank(e))
  OBVIOUS
<1>3. CohortRank(f) = CohortRank(e)
  BY <1>1, <1>2, BelowOrder
<1>4. ~Below(CohortRank(e), CohortRank(e))
  BY <1>1, BelowOrder
<1> QED
  BY <1>2, <1>3, <1>4 DEF Top

-----------------------------------------------------------------------------
(* Entities of alike cohorts differ in the list of their sources only.     *)

Sources(obs) == Provenance(OverallWinner(AuthorityCohort(obs)), obs)

\* materializeRun (materializer.ts:127).
LEMMA SameRun ==
  ASSUME NEW E, Distinct(E), NEW a, NEW b, NEW id,
         Alike(AuthorityCohort(a), AuthorityCohort(b), E)
  PROVE  MaterializeRun(b, id) = [MaterializeRun(a, id) EXCEPT !.provenance = Sources(b)]
<1> DEFINE ca == AuthorityCohort(a)
           cb == AuthorityCohort(b)
           sa == OfType(ca, <<"run", "settled">>)
           sb == OfType(cb, <<"run", "settled">>)
           State(x) == IF DOMAIN x = {} THEN "running"
                       ELSE TerminalState(OverallWinner(x).body, "completed")
           At(x) == IF DOMAIN x = {} THEN None ELSE <<Latest(x)>>
<1>1. Revision(ca) = Revision(cb) /\ Earliest(ca) = Earliest(cb)
  BY SameFields
<1>2. State(sa) = State(sb) /\ At(sa) = At(sb)
  <2>1. \/ DOMAIN sa = {} /\ DOMAIN sb = {}
        \/ /\ DOMAIN sa # {} /\ DOMAIN sb # {}
           /\ OverallWinner(sa) = OverallWinner(sb) /\ Latest(sa) = Latest(sb)
    BY SameFields
  <2> HIDE DEF sa, sb
  <2> QED
    BY <2>1
<1>3. MaterializeRun(a, id) =
        [id |-> id, state |-> State(sa), revision |-> Revision(ca), startedAt |-> Earliest(ca),
         completedAt |-> At(sa), provenance |-> Sources(a)]
  BY DEF MaterializeRun, Sources
<1>4. MaterializeRun(b, id) =
        [id |-> id, state |-> State(sb), revision |-> Revision(cb), startedAt |-> Earliest(cb),
         completedAt |-> At(sb), provenance |-> Sources(b)]
  BY DEF MaterializeRun, Sources
<1> HIDE DEF ca, cb, sa, sb, State, At
<1> QED
  BY <1>1, <1>2, <1>3, <1>4

\* materializeTurn (materializer.ts:144).
LEMMA SameTurn ==
  ASSUME NEW E, Distinct(E), NEW a, NEW b, NEW id,
         Alike(AuthorityCohort(a), AuthorityCohort(b), E)
  PROVE  MaterializeTurn(b, id) = [MaterializeTurn(a, id) EXCEPT !.provenance = Sources(b)]
<1> DEFINE ca == AuthorityCohort(a)
           cb == AuthorityCohort(b)
           sa == OfType(ca, <<"turn", "completed">>)
           sb == OfType(cb, <<"turn", "completed">>)
           State(x) == IF DOMAIN x = {} THEN "running"
                       ELSE TerminalState(OverallWinner(x).body, "completed")
           At(x) == IF DOMAIN x = {} THEN None ELSE <<Latest(x)>>
<1>1. /\ Revision(ca) = Revision(cb) /\ Earliest(ca) = Earliest(cb)
      /\ ChosenLink(ca, "runId") = ChosenLink(cb, "runId")
      /\ Chosen(ca, "turnIndex", 0) = Chosen(cb, "turnIndex", 0)
  BY SameFields
<1>2. State(sa) = State(sb) /\ At(sa) = At(sb)
  <2>1. \/ DOMAIN sa = {} /\ DOMAIN sb = {}
        \/ /\ DOMAIN sa # {} /\ DOMAIN sb # {}
           /\ OverallWinner(sa) = OverallWinner(sb) /\ Latest(sa) = Latest(sb)
    BY SameFields
  <2> HIDE DEF sa, sb
  <2> QED
    BY <2>1
<1>3. MaterializeTurn(a, id) =
        [id |-> id, runId |-> ChosenLink(ca, "runId"), index |-> Chosen(ca, "turnIndex", 0),
         state |-> State(sa), revision |-> Revision(ca), startedAt |-> Earliest(ca),
         completedAt |-> At(sa), provenance |-> Sources(a)]
  BY DEF MaterializeTurn, Sources
<1>4. MaterializeTurn(b, id) =
        [id |-> id, runId |-> ChosenLink(cb, "runId"), index |-> Chosen(cb, "turnIndex", 0),
         state |-> State(sb), revision |-> Revision(cb), startedAt |-> Earliest(cb),
         completedAt |-> At(sb), provenance |-> Sources(b)]
  BY DEF MaterializeTurn, Sources
<1> HIDE DEF ca, cb, sa, sb, State, At
<1> QED
  BY <1>1, <1>2, <1>3, <1>4

\* materializeTool (materializer.ts:202).
LEMMA SameTool ==
  ASSUME NEW E, Distinct(E), NEW a, NEW b, NEW id,
         Alike(AuthorityCohort(a), AuthorityCohort(b), E)
  PROVE  MaterializeTool(b, id) = [MaterializeTool(a, id) EXCEPT !.provenance = Sources(b)]
<1> DEFINE ca == AuthorityCohort(a)
           cb == AuthorityCohort(b)
           optional == {"partialResult", "result", "isError"}
<1>1. /\ Revision(ca) = Revision(cb) /\ Earliest(ca) = Earliest(cb) /\ Latest(ca) = Latest(cb)
      /\ ChosenLink(ca, "runId") = ChosenLink(cb, "runId")
      /\ ChosenLink(ca, "turnId") = ChosenLink(cb, "turnId")
      /\ ChosenLink(ca, "messageId") = ChosenLink(cb, "messageId")
      /\ ChosenLink(ca, "toolResultId") = ChosenLink(cb, "toolResultId")
      /\ Chosen(ca, "toolName", "unknown") = Chosen(cb, "toolName", "unknown")
      /\ Chosen(ca, "args", None) = Chosen(cb, "args", None)
      /\ ChosenFields(ca, optional) = ChosenFields(cb, optional)
  BY SameFields
<1>2. Chosen(ca, "toolIndex", Latest(ca)) = Chosen(cb, "toolIndex", Latest(cb))
  BY <1>1, SameFields
<1>3. StateOf(OverallWinner(ca)) = StateOf(OverallWinner(cb))
  BY SameWinner
<1>4. MaterializeTool(a, id) =
        [id |-> id, runId |-> ChosenLink(ca, "runId"), turnId |-> ChosenLink(ca, "turnId"),
         parentMessageId |-> ChosenLink(ca, "messageId"),
         toolResultId |-> ChosenLink(ca, "toolResultId"),
         order |-> Chosen(ca, "toolIndex", Latest(ca)),
         name |-> Chosen(ca, "toolName", "unknown"),
         state |-> StateOf(OverallWinner(ca)), revision |-> Revision(ca),
         arguments |-> Chosen(ca, "args", None), optional |-> ChosenFields(ca, optional),
         createdAt |-> Earliest(ca), updatedAt |-> Latest(ca), provenance |-> Sources(a)]
  BY DEF MaterializeTool, Sources
<1>5. MaterializeTool(b, id) =
        [id |-> id, runId |-> ChosenLink(cb, "runId"), turnId |-> ChosenLink(cb, "turnId"),
         parentMessageId |-> ChosenLink(cb, "messageId"),
         toolResultId |-> ChosenLink(cb, "toolResultId"),
         order |-> Chosen(cb, "toolIndex", Latest(cb)),
         name |-> Chosen(cb, "toolName", "unknown"),
         state |-> StateOf(OverallWinner(cb)), revision |-> Revision(cb),
         arguments |-> Chosen(cb, "args", None), optional |-> ChosenFields(cb, optional),
         createdAt |-> Earliest(cb), updatedAt |-> Latest(cb), provenance |-> Sources(b)]
  BY DEF MaterializeTool, Sources
<1> HIDE DEF ca, cb, optional
<1> QED
  BY <1>1, <1>2, <1>3, <1>4, <1>5

\* A message reads its links from its content: the events are changed, but not
\* which there are.
Linked(cohort) == [i \in DOMAIN cohort |-> WithLinkage(cohort[i])]
AllLinked(E) == {WithLinkage(e) : e \in E}

\* Linkage changes nothing a rank or a state is made of.
LEMMA LinkageKeeps ==
  ASSUME NEW e, Typed(e)
  PROVE  /\ Typed(WithLinkage(e))
         /\ WithLinkage(e).id = e.id /\ WithLinkage(e).type = e.type
         /\ StateOf(WithLinkage(e)) = StateOf(e)
         /\ FieldRank(WithLinkage(e)) = FieldRank(e)
<1>1. PICK c : WithLinkage(e) = [e EXCEPT !.corr = c]
  BY DEF WithLinkage
<1> DEFINE w == [e EXCEPT !.corr = c]
<1>2. /\ DOMAIN w = DOMAIN e
      /\ \A k \in DOMAIN e : k # "corr" => w[k] = e[k]
  OBVIOUS
<1>3. {"id", "type", "ts", "confidence", "body"} \subseteq DOMAIN e
  BY DEF Typed
<1> HIDE DEF w
<1>4. /\ w.id = e.id /\ w.type = e.type /\ w.ts = e.ts /\ w.confidence = e.confidence
      /\ w.body = e.body /\ Get(w, "rev", 0) = Get(e, "rev", 0)
  BY <1>2, <1>3 DEF Get
<1>5. Typed(w)
  BY <1>2, <1>4 DEF Typed
<1>6. FieldRank(w) = FieldRank(e)
  BY <1>4 DEF FieldRank
<1>7. StateOf(w) = StateOf(e)
  BY <1>4 DEF StateOf
<1>8. WithLinkage(e) = w
  BY <1>1 DEF w
<1> QED
  BY <1>4, <1>5, <1>6, <1>7, <1>8

\* The observations of a cohort with their linkage.
LEMMA LinkedPlaces ==
  ASSUME NEW E, Distinct(E), NEW obs, Places(obs, E)
  PROVE  /\ Distinct(AllLinked(E)) /\ Places(Linked(obs), AllLinked(E))
         /\ ToSet(Linked(obs)) = {WithLinkage(e) : e \in ToSet(obs)}
<1>1. Distinct(AllLinked(E))
  BY LinkageKeeps DEF Distinct, AllLinked
<1>2. DOMAIN Linked(obs) = DOMAIN obs /\ \A i \in DOMAIN obs : Linked(obs)[i] = WithLinkage(obs[i])
  BY DEF Linked
<1>3. ToSet(Linked(obs)) = {WithLinkage(e) : e \in ToSet(obs)}
  BY <1>2 DEF ToSet
<1>4. Places(Linked(obs), AllLinked(E))
  BY <1>2 DEF Places, AllLinked
<1> QED
  BY <1>1, <1>3, <1>4

\* With their linkage, alike observations stay alike.
LEMMA LinkedAlike ==
  ASSUME NEW E, Distinct(E), NEW a, NEW b, Alike(a, b, E)
  PROVE  Distinct(AllLinked(E)) /\ Alike(Linked(a), Linked(b), AllLinked(E))
<1>1. Places(a, E) /\ Places(b, E) /\ ToSet(a) = ToSet(b)
  BY DEF Alike
<1> QED
  BY <1>1, LinkedPlaces DEF Alike

MessageSources(obs) == Provenance(OverallWinner(Linked(AuthorityCohort(obs))), obs)

\* materializeMessage (materializer.ts:163).
LEMMA SameMessage ==
  ASSUME NEW E, Distinct(E), NEW a, NEW b, NEW id,
         Alike(AuthorityCohort(a), AuthorityCohort(b), E)
  PROVE  MaterializeMessage(b, id)
         = [MaterializeMessage(a, id) EXCEPT !.provenance = MessageSources(b)]
<1> DEFINE ca == Linked(AuthorityCohort(a))
           cb == Linked(AuthorityCohort(b))
           optional == {"model", "usage", "stopReason", "error"}
           RoleOf(c) == Role(Chosen(c, "role", "unknown"))
           Call(c) == ChosenLink(c, "toolCallId")
           SaidOf(c) == ChosenLink(c, "toolResultId")
           Result(c) == IF SaidOf(c) # None \/ Call(c) = None THEN SaidOf(c) ELSE ResultOf(Call(c))
           Blocks(c) == MessageBlocks(c, RoleOf(c), Call(c), Result(c))
<1>1. Distinct(AllLinked(E)) /\ Alike(ca, cb, AllLinked(E))
  BY LinkedAlike
<1>2. MaterializeMessage(a, id) =
        [id |-> id, runId |-> ChosenLink(ca, "runId"), turnId |-> ChosenLink(ca, "turnId"),
         parentId |-> ChosenLink(ca, "parentId"), toolCallId |-> Call(ca),
         toolResultId |-> Result(ca), order |-> Chosen(ca, "messageIndex", Latest(ca)),
         role |-> RoleOf(ca), state |-> StateOf(OverallWinner(ca)), revision |-> Revision(ca),
         blocks |-> Blocks(ca), createdAt |-> Earliest(ca), updatedAt |-> Latest(ca),
         optional |-> ChosenFields(ca, optional), provenance |-> MessageSources(a)]
  BY DEF MaterializeMessage, MessageOf, Linked, MessageSources
<1>3. MaterializeMessage(b, id) =
        [id |-> id, runId |-> ChosenLink(cb, "runId"), turnId |-> ChosenLink(cb, "turnId"),
         parentId |-> ChosenLink(cb, "parentId"), toolCallId |-> Call(cb),
         toolResultId |-> Result(cb), order |-> Chosen(cb, "messageIndex", Latest(cb)),
         role |-> RoleOf(cb), state |-> StateOf(OverallWinner(cb)), revision |-> Revision(cb),
         blocks |-> Blocks(cb), createdAt |-> Earliest(cb), updatedAt |-> Latest(cb),
         optional |-> ChosenFields(cb, optional), provenance |-> MessageSources(b)]
  BY DEF MaterializeMessage, MessageOf, Linked, MessageSources
<1> HIDE DEF ca, cb, optional
<1>4. /\ Revision(ca) = Revision(cb) /\ Earliest(ca) = Earliest(cb) /\ Latest(ca) = Latest(cb)
      /\ ChosenLink(ca, "runId") = ChosenLink(cb, "runId")
      /\ ChosenLink(ca, "turnId") = ChosenLink(cb, "turnId")
      /\ ChosenLink(ca, "parentId") = ChosenLink(cb, "parentId")
      /\ ChosenFields(ca, optional) = ChosenFields(cb, optional)
  BY <1>1, SameFields
<1>5. Chosen(ca, "messageIndex", Latest(ca)) = Chosen(cb, "messageIndex", Latest(cb))
  BY <1>1, <1>4, SameFields
<1>6. StateOf(OverallWinner(ca)) = StateOf(OverallWinner(cb))
  BY <1>1, SameWinner
<1>7. RoleOf(ca) = RoleOf(cb) /\ Call(ca) = Call(cb) /\ SaidOf(ca) = SaidOf(cb)
  BY <1>1, SameFields
<1>8. Result(ca) = Result(cb)
  BY <1>7
<1>9. Blocks(ca) = Blocks(cb)
  <2>1. /\ Chosen(ca, "content", <<>>) = Chosen(cb, "content", <<>>)
        /\ Chosen(ca, "isError", FALSE) = Chosen(cb, "isError", FALSE)
    <3>1. \A key, default : Chosen(ca, key, default) = Chosen(cb, key, default)
      BY <1>1, SameFields
    <3> QED
      BY <3>1, Zenon
  <2> HIDE DEF RoleOf, Call, Result
  <2> QED
    BY <1>7, <1>8, <2>1 DEF MessageBlocks
<1> HIDE DEF RoleOf, Call, SaidOf, Result, Blocks
<1> QED
  BY <1>2, <1>3, <1>4, <1>5, <1>6, <1>7, <1>8, <1>9

-----------------------------------------------------------------------------
(* The entity of what was seen.                                            *)

\* What has been seen are observations of one entity.
Inv == kind \in DOMAIN Observed /\ seen \in Seq(Observed[kind])

\* What the assumption says of the observations of the entity.
LEMMA Kinds ==
  ASSUME kind \in DOMAIN Observed
  PROVE  /\ kind \in {"run", "turn", "message", "tool"}
         /\ Distinct(Observed[kind])
         /\ \A e \in Observed[kind] : e.type[1] = kind
  BY MaterializerAssumption DEF Distinct

\* A sequence is observations at places.
LEMMA SeenPlaces ==
  ASSUME NEW E, NEW obs \in Seq(E), obs # <<>>
  PROVE  Places(obs, E) /\ ToSet(obs) \subseteq E
<1>1. Len(obs) \in Nat /\ DOMAIN obs = 1..Len(obs) /\ Len(obs) # 0
  OBVIOUS
<1>2. \A i \in DOMAIN obs : obs[i] \in E
  BY <1>1
<1>3. DOMAIN obs # {} /\ DOMAIN obs \subseteq 1..Len(obs)
  <2>1. 1 \in 1..Len(obs)
    BY <1>1
  <2> QED
    BY <1>1, <2>1
<1>4. Places(obs, E)
  BY <1>1, <1>2, <1>3 DEF Places
<1>5. ToSet(obs) \subseteq E
  BY <1>2 DEF ToSet
<1> QED
  BY <1>4, <1>5

Origin(obs) == IF kind = "message" THEN MessageSources(obs) ELSE Sources(obs)

\* Whatever the entity is, alike cohorts differ in its sources only.
LEMMA SameEntity ==
  ASSUME kind \in DOMAIN Observed, NEW a, NEW b,
         Alike(AuthorityCohort(a), AuthorityCohort(b), Observed[kind])
  PROVE  Entity(b) = [Entity(a) EXCEPT !.provenance = Origin(b)]
<1>1. CASE kind = "run"
  BY <1>1, Kinds, SameRun DEF Entity, Origin
<1>2. CASE kind = "turn"
  BY <1>2, Kinds, SameTurn DEF Entity, Origin
<1>3. CASE kind = "message"
  BY <1>3, Kinds, SameMessage DEF Entity, Origin
<1>4. CASE kind = "tool"
  BY <1>4, Kinds, SameTool DEF Entity, Origin
<1> QED
  BY <1>1, <1>2, <1>3, <1>4, Kinds

\* Alike observations make one entity.
LEMMA OneEntity ==
  ASSUME kind \in DOMAIN Observed, NEW a, NEW b, Alike(a, b, Observed[kind])
  PROVE  Entity(a) = Entity(b)
<1> DEFINE E == Observed[kind]
           ca == AuthorityCohort(a)
           cb == AuthorityCohort(b)
<1>1. Places(a, E) /\ Places(b, E) /\ ToSet(a) = ToSet(b) /\ Distinct(E)
  BY Kinds DEF Alike
<1>2. Alike(ca, cb, E) /\ Alike(ca, ca, E)
  BY <1>1, SameCohort
<1>3. Origin(a) = Origin(b)
  <2>1. OverallWinner(ca) = OverallWinner(cb)
    BY <1>1, <1>2, SameWinner
  <2>2. OverallWinner(Linked(ca)) = OverallWinner(Linked(cb))
    BY <1>1, <1>2, LinkedAlike, SameWinner
  <2>3. \A w : Provenance(w, a) = Provenance(w, b)
    BY <1>1 DEF Provenance
  <2> QED
    BY <2>1, <2>2, <2>3 DEF Origin, Sources, MessageSources
<1>4. /\ Entity(b) = [Entity(a) EXCEPT !.provenance = Origin(b)]
      /\ Entity(a) = [Entity(a) EXCEPT !.provenance = Origin(a)]
  BY <1>2, SameEntity
<1> QED
  BY <1>3, <1>4

\* The entity is a function of the set of its observations
\* (compareFieldEvent and authorityCohort, materializer.ts:25-52).
THEOREM OrderIsFree == EntitySpec => []OrderFree
<1>1. EntityInit => Inv
  BY DEF EntityInit, Inv
<1>2. Inv /\ [EntityNext]_entityVars => Inv'
  BY DEF Inv, EntityNext, Observe, entityVars
<1>3. Inv => OrderFree
  <2> SUFFICES ASSUME Inv, seen # <<>>,
                      NEW obs \in SeqOf(ToSet(seen), Len(seen)), ToSet(obs) = ToSet(seen)
               PROVE  Entity(obs) = Entity(seen)
    BY DEF OrderFree
  <2> DEFINE E == Observed[kind]
  <2>1. Places(seen, E) /\ ToSet(seen) \subseteq E
    BY SeenPlaces DEF Inv
  <2>2. PICK m \in 0..Len(seen) : obs \in [1..m -> ToSet(seen)]
    BY DEF SeqOf
  <2>3. m \in Nat /\ DOMAIN obs = 1..m /\ \A i \in DOMAIN obs : obs[i] \in E
    <3>1. Len(seen) \in Nat
      BY DEF Inv
    <3> QED
      BY <2>1, <2>2, <3>1
  <2>4. DOMAIN obs # {}
    <3>1. PICK i \in DOMAIN seen : TRUE
      BY <2>1 DEF Places
    <3>2. seen[i] \in ToSet(obs)
      BY <3>1 DEF ToSet
    <3> QED
      BY <3>2 DEF ToSet
  <2>5. Places(obs, E)
    BY <2>3, <2>4 DEF Places
  <2>6. Alike(obs, seen, E)
    BY <2>1, <2>5 DEF Alike
  <2> QED
    BY <2>6, OneEntity DEF Inv
<1> QED
  BY <1>1, <1>2, <1>3, PTL DEF EntitySpec

-----------------------------------------------------------------------------
(* What comes late.                                                        *)

\* What observations make but for the list of their sources.
LEMMA SameContent ==
  ASSUME kind \in DOMAIN Observed, NEW a, NEW b,
         Alike(AuthorityCohort(a), AuthorityCohort(b), Observed[kind])
  PROVE  Content(Entity(b)) = Content(Entity(a)) /\ Entity(b).state = Entity(a).state
<1>1. Entity(b) = [Entity(a) EXCEPT !.provenance = Origin(b)]
  BY SameEntity
<1> DEFINE x == Entity(a)
           y == Entity(b)
<1>2. DOMAIN y = DOMAIN x /\ \A k \in DOMAIN x : k # "provenance" => y[k] = x[k]
  BY <1>1
<1>3. Content(y) = Content(x)
  <2> HIDE DEF x, y
  <2> QED
    BY <1>2 DEF Content, Only
<1>4. "state" \in DOMAIN x
  BY Kinds DEF Entity, MaterializeRun, MaterializeTurn, MaterializeMessage, MessageOf,
               MaterializeTool
<1> QED
  BY <1>2, <1>3, <1>4

\* One more observation.
LEMMA Arrival ==
  ASSUME Inv, NEW e \in Observed[kind], seen # <<>>, NEW next, next = Append(seen, e)
  PROVE  /\ Places(seen, Observed[kind]) /\ Places(next, Observed[kind])
         /\ ToSet(next) = ToSet(seen) \cup {e} /\ ToSet(seen) \subseteq Observed[kind]
         /\ Last(next) = e
<1>1. next \in Seq(Observed[kind]) /\ next # <<>>
  BY DEF Inv
<1>2. Places(seen, Observed[kind]) /\ Places(next, Observed[kind])
      /\ ToSet(seen) \subseteq Observed[kind]
  BY <1>1, SeenPlaces DEF Inv
<1>3. /\ Len(next) = Len(seen) + 1 /\ Len(seen) \in Nat
      /\ DOMAIN seen = 1..Len(seen) /\ DOMAIN next = 1..(Len(seen) + 1)
      /\ next[Len(seen) + 1] = e
      /\ \A i \in 1..Len(seen) : next[i] = seen[i]
  BY DEF Inv
<1>4. ToSet(next) = ToSet(seen) \cup {e}
  BY <1>3 DEF ToSet
<1>5. Last(next) = e
  BY <1>3 DEF Last
<1> QED
  BY <1>2, <1>4, <1>5

\* What the winner of ended observations leaves ended, no other takes back.
LEMMA EndedWins ==
  ASSUME NEW E, Distinct(E), NEW S, S \subseteq E, NEW e \in E, e.type \notin Ends,
         NEW v, Wins(v, S), v.type \in Ends, NEW w, Wins(w, S \cup {e})
  PROVE  w = v
<1>1. w \in S \cup {e} /\ v \in S /\ ~Below(FieldRank(w), FieldRank(v))
  BY DEF Wins
<1>2. Typed(v) /\ Typed(e)
  BY <1>1 DEF Distinct
<1>3. w # e
  <2>1. FieldRank(e) \in Ranks(5) /\ FieldRank(v) \in Ranks(5)
    BY <1>2, RankTypes
  <2>2. FieldRank(e)[1] = 0 /\ FieldRank(v)[1] = 1
    BY DEF FieldRank
  <2>3. Below(FieldRank(e), FieldRank(v))
    <3> DEFINE x == FieldRank(e)
               y == FieldRank(v)
    <3>1. 1 \in DOMAIN x /\ x[1] < y[1] /\ \A j \in 1..(1 - 1) : x[j] = y[j]
      BY <2>1, <2>2 DEF Ranks
    <3> HIDE DEF x, y
    <3>2. Below(x, y)
      BY <3>1 DEF Below
    <3> QED
      BY <3>2 DEF x, y
  <2> QED
    BY <1>1, <2>3
<1>4. Wins(w, S)
  BY <1>1, <1>3 DEF Wins
<1> QED
  BY <1>4, OneWinner

\* One of a lower cohort is in the list of sources only.
LEMMA LowerChangesNothing ==
  ASSUME Inv, NEW e \in Observed[kind], seen # <<>>, NEW next, next = Append(seen, e),
         Lower(e, seen)
  PROVE  Content(Entity(next)) = Content(Entity(seen)) /\ Entity(next).state = Entity(seen).state
<1> DEFINE E == Observed[kind]
<1>1. kind \in DOMAIN Observed /\ Distinct(E)
  BY Kinds DEF Inv
<1>2. /\ Places(seen, E) /\ Places(next, E)
      /\ ToSet(next) = ToSet(seen) \cup {e} /\ ToSet(seen) \subseteq E
  BY Arrival
<1>3. Top(ToSet(next)) = Top(ToSet(seen))
  BY <1>1, <1>2, LowerStaysOut DEF Lower
<1>4. Alike(AuthorityCohort(seen), AuthorityCohort(next), E)
  BY <1>1, <1>2, <1>3, SameCohort
<1> QED
  BY <1>1, <1>4, SameContent

\* The state that the ending observations give.
EndedState(obs, type) ==
  IF DOMAIN OfType(obs, type) = {} THEN "running"
  ELSE TerminalState(OverallWinner(OfType(obs, type)).body, "completed")

\* One of the same cohort that ends nothing leaves every observation that ended it.
LEMMA PeerKeepsEnds ==
  ASSUME NEW E, Distinct(E), NEW a, NEW b, Places(a, E), Places(b, E), NEW e,
         ToSet(b) = ToSet(a) \cup {e}, NEW type, e.type # type
  PROVE  EndedState(b, type) = EndedState(a, type)
<1> DEFINE T == AreOf(ToSet(a), type)
<1>1. OfType(a, type) = Pick(a, T)
  BY Selections
<1>2. AreOf(ToSet(b), type) = T
  BY DEF AreOf
<1>3. OfType(b, type) = Pick(b, T)
  BY <1>2, Selections
<1>4. ToSet(a) \cap T = T /\ ToSet(b) \cap T = T
  BY DEF AreOf
<1> HIDE DEF T
<1>5. CASE T = {}
  <2>1. DOMAIN Pick(a, T) = {}
    BY <1>4, <1>5, Picked
  <2>2. DOMAIN Pick(b, T) = {}
    BY <1>4, <1>5, Picked
  <2> QED
    BY <1>1, <1>3, <2>1, <2>2 DEF EndedState
<1>6. CASE T # {}
  <2>1. DOMAIN Pick(a, T) # {} /\ Places(Pick(a, T), E) /\ ToSet(Pick(a, T)) = T
    BY <1>4, <1>6, Picked
  <2>2. DOMAIN Pick(b, T) # {} /\ Places(Pick(b, T), E) /\ ToSet(Pick(b, T)) = T
    BY <1>4, <1>6, Picked
  <2>3. OverallWinner(Pick(a, T)) = OverallWinner(Pick(b, T))
    BY <2>1, <2>2, SameWinner DEF Alike
  <2> QED
    BY <1>1, <1>3, <2>1, <2>2, <2>3 DEF EndedState
<1> QED
  BY <1>5, <1>6

\* The winner of a settled message or tool call stays it.
LEMMA PeerKeepsWinner ==
  ASSUME NEW E, Distinct(E), NEW a, NEW b, Places(a, E), Places(b, E), NEW e \in E,
         ToSet(b) = ToSet(a) \cup {e}, e.type \notin Ends,
         StateOf(OverallWinner(a)) # "running"
  PROVE  OverallWinner(b) = OverallWinner(a)
<1>1. Wins(OverallWinner(a), ToSet(a)) /\ Wins(OverallWinner(b), ToSet(a) \cup {e})
  BY WinnerWins
<1>2. OverallWinner(a).type \in Ends
  BY DEF StateOf, Ends
<1>3. ToSet(a) \subseteq E
  BY DEF Places, ToSet
<1> QED
  BY <1>1, <1>2, <1>3, EndedWins

\* One of the same cohort that ends nothing leaves a settled entity settled.
LEMMA PeerLeavesEnded ==
  ASSUME Inv, NEW e \in Observed[kind], seen # <<>>, NEW next, next = Append(seen, e),
         Settled(seen), e.type \notin Ends, ~Higher(e, seen), ~Lower(e, seen)
  PROVE  Entity(next).state = Entity(seen).state
<1> DEFINE E == Observed[kind]
           a == AuthorityCohort(seen)
           b == AuthorityCohort(next)
<1>1. kind \in DOMAIN Observed /\ Distinct(E)
  BY Kinds DEF Inv
<1>2. /\ Places(seen, E) /\ Places(next, E)
      /\ ToSet(next) = ToSet(seen) \cup {e} /\ ToSet(seen) \subseteq E
  BY Arrival
<1>3. Top(ToSet(next)) = Top(ToSet(seen)) \cup {e}
  <2> DEFINE S == ToSet(seen)
  <2>1. ~\E f \in S : Below(CohortRank(e), CohortRank(f))
    BY DEF Lower
  <2>2. \E f \in S : ~Below(CohortRank(f), CohortRank(e))
    BY DEF Higher
  <2>3. S \subseteq E
    BY <1>2
  <2> HIDE DEF S
  <2>4. Top(S \cup {e}) = Top(S) \cup {e}
    BY <1>1, <2>1, <2>2, <2>3, PeerJoins
  <2> QED
    BY <1>2, <2>4 DEF S
<1>4. Places(a, E) /\ Places(b, E) /\ ToSet(b) = ToSet(a) \cup {e}
  BY <1>1, <1>2, <1>3, CohortIsTop
<1>5. Entity(seen).state # "running"
  BY DEF Settled
<1> HIDE DEF a, b
<1>6. CASE kind = "run"
  <2> DEFINE type == <<"run", "settled">>
  <2>1. e.type # type
    BY DEF Ends
  <2>2. Entity(seen).state = EndedState(a, type) /\ Entity(next).state = EndedState(b, type)
    BY <1>6 DEF Entity, MaterializeRun, EndedState, a, b
  <2> HIDE DEF type
  <2>3. EndedState(b, type) = EndedState(a, type)
    BY <1>1, <1>4, <2>1, PeerKeepsEnds
  <2> QED
    BY <2>2, <2>3
<1>7. CASE kind = "turn"
  <2> DEFINE type == <<"turn", "completed">>
  <2>1. e.type # type
    BY DEF Ends
  <2>2. Entity(seen).state = EndedState(a, type) /\ Entity(next).state = EndedState(b, type)
    BY <1>7 DEF Entity, MaterializeTurn, EndedState, a, b
  <2> HIDE DEF type
  <2>3. EndedState(b, type) = EndedState(a, type)
    BY <1>1, <1>4, <2>1, PeerKeepsEnds
  <2> QED
    BY <2>2, <2>3
<1>8. CASE kind = "message"
  <2> DEFINE L == AllLinked(E)
             f == WithLinkage(e)
  <2>1. Entity(seen).state = StateOf(OverallWinner(Linked(a)))
        /\ Entity(next).state = StateOf(OverallWinner(Linked(b)))
    BY <1>8 DEF Entity, MaterializeMessage, MessageOf, Linked, a, b
  <2>2. \A obs : Places(obs, E) =>
                   /\ Distinct(L) /\ Places(Linked(obs), L)
                   /\ ToSet(Linked(obs)) = {WithLinkage(x) : x \in ToSet(obs)}
    BY <1>1, LinkedPlaces
  <2>3. f \in L /\ f.type \notin Ends
    BY <1>1, LinkageKeeps DEF AllLinked, Distinct
  <2>4. ToSet(Linked(b)) = ToSet(Linked(a)) \cup {f}
    BY <1>4, <2>2
  <2> HIDE DEF L, f
  <2>5. OverallWinner(Linked(b)) = OverallWinner(Linked(a))
    BY <1>4, <1>5, <2>1, <2>2, <2>3, <2>4, PeerKeepsWinner
  <2> QED
    BY <2>1, <2>5
<1>9. CASE kind = "tool"
  <2>1. Entity(seen).state = StateOf(OverallWinner(a))
        /\ Entity(next).state = StateOf(OverallWinner(b))
    BY <1>9 DEF Entity, MaterializeTool, a, b
  <2> QED
    BY <1>1, <1>4, <1>5, <2>1, PeerKeepsWinner
<1> QED
  BY <1>1, <1>6, <1>7, <1>8, <1>9, Kinds

\* A late observation takes nothing back that is settled ("lower cohorts never fill
\* holes", materializer.ts:11).
THEOREM LateKeeps == EntitySpec => LateNeverReverts
<1>1. EntityInit => Inv
  BY DEF EntityInit, Inv
<1>2. Inv /\ [EntityNext]_entityVars => Inv'
  BY DEF Inv, EntityNext, Observe, entityVars
<1> DEFINE KeptThen == seen # <<>> =>
                     LET e == Last(seen')
                     IN  /\ Lower(e, seen) => Content(Entity(seen')) = Content(Entity(seen))
                         /\ Settled(seen) /\ e.type \notin Ends /\ ~Higher(e, seen) =>
                              Entity(seen').state = Entity(seen).state
<1>3. Inv /\ [EntityNext]_entityVars => [KeptThen]_entityVars
  <2> SUFFICES ASSUME Inv, NEW e \in Observed[kind], Observe(e), seen # <<>>
               PROVE  KeptThen
    BY DEF EntityNext
  <2> DEFINE next == seen'
  <2>1. next = Append(seen, e)
    BY DEF Observe
  <2> HIDE DEF next
  <2>2. Last(next) = e
    BY <2>1, Arrival
  <2>3. Lower(e, seen) => Content(Entity(next)) = Content(Entity(seen))
    BY <2>1, LowerChangesNothing
  <2>4. Settled(seen) /\ e.type \notin Ends /\ ~Higher(e, seen) =>
          Entity(next).state = Entity(seen).state
    BY <2>1, LowerChangesNothing, PeerLeavesEnded
  <2> QED
    BY <2>2, <2>3, <2>4 DEF next
<1> QED
  BY <1>1, <1>2, <1>3, PTL DEF EntitySpec, LateNeverReverts

-----------------------------------------------------------------------------
(* The conversion of a session: what its importers share.                  *)

Unsigned(name, native, b, pivot) ==
  [harness |-> name, failed |-> FALSE, source |-> native, events |-> b.events,
   pivot |-> pivot, loss |-> b.loss]
Bundles(made, name, native, b, pivot) ==
  /\ made = Sealed(Unsigned(name, native, b, pivot))
  /\ pivot.revision = Len(b.events) /\ pivot.nextSeq = Len(b.events)

\* The bundle made of a builder is sealed, and counts its events.
LEMMA Makes ==
  ASSUME NEW name, NEW native, NEW b
  PROVE  /\ b.failed => MakeBundle(name, native, b) = [harness |-> name, failed |-> TRUE]
         /\ ~b.failed => \E pivot : Bundles(MakeBundle(name, native, b), name, native, b, pivot)
<1>1. BuildSnapshot(b.events).revision = Len(b.events)
      /\ BuildSnapshot(b.events).nextSeq = Len(b.events)
  BY DEF BuildSnapshot, Snapshot
<1> QED
  BY <1>1 DEF MakeBundle, Bundles, Unsigned

-----------------------------------------------------------------------------
(* The builder.                                                            *)

\* A builder all of whose events are valid, one that goes on from another, and
\* one that does with the same events.
Fit(b) ==
  /\ {"events", "failed", "loss"} \subseteq DOMAIN b /\ b.failed \in BOOLEAN
  /\ Row(b.events) /\ \A e \in ToSet(b.events) : ValidEnvelope(e)
Continues(b, r) ==
  /\ Fit(r) /\ ToSet(b.events) \subseteq ToSet(r.events)
  /\ (b.failed => r.failed) /\ b.loss \subseteq r.loss
Same(b, r) ==
  /\ {"events", "failed", "loss"} \subseteq DOMAIN r
  /\ r.events = b.events /\ r.failed = b.failed /\ b.loss \subseteq r.loss
Has(b, type, body, ts) ==
  \E e \in ToSet(b.events) : e.type = type /\ e.body = body /\ e.ts = ts
Says(b, content, ts) ==
  \E body : Has(b, <<"message", "completed">>, body, ts) /\ Get(body, "content", <<>>) = content

\* What is appended to a sequence.
LEMMA AppendRow ==
  ASSUME NEW s, Row(s), NEW e
  PROVE  Row(Append(s, e)) /\ ToSet(Append(s, e)) = ToSet(s) \cup {e}
<1> DEFINE S == ToSet(s) \cup {e}
<1>1. s \in Seq(S) /\ e \in S
  <2>1. s \in Seq(ToSet(s))
    BY DEF Row
  <2> QED
    BY <2>1
<1>2. /\ Append(s, e) \in Seq(S) /\ Len(Append(s, e)) = Len(s) + 1
      /\ \A i \in 1..Len(s) : Append(s, e)[i] = s[i]
      /\ Append(s, e)[Len(s) + 1] = e
  BY <1>1
<1>3. ToSet(Append(s, e)) = S
  <2>1. DOMAIN s = 1..Len(s) /\ DOMAIN Append(s, e) = 1..(Len(s) + 1) /\ Len(s) \in Nat
    BY <1>1, <1>2
  <2>2. ToSet(Append(s, e)) \subseteq S
    BY <1>2, <2>1 DEF ToSet
  <2>3. ASSUME NEW x \in S
        PROVE  x \in ToSet(Append(s, e))
    <3>1. CASE x = e
      BY <1>2, <2>1, <3>1 DEF ToSet
    <3>2. CASE x \in ToSet(s)
      BY <1>2, <2>1, <3>2 DEF ToSet
    <3> QED
      BY <3>1, <3>2
  <2> QED
    BY <2>2, <2>3
<1> QED
  BY <1>2, <1>3 DEF Row

\* An event that is valid is emitted; one that is not fails the import.
LEMMA Emits ==
  ASSUME NEW b, Fit(b), NEW type, NEW body, NEW nid, NEW ts, NEW corr, NEW rev
  PROVE  LET r == Emit(b, type, body, nid, ts, corr, rev)
         IN  /\ Continues(b, r)
             /\ (\A e : e.type = type /\ e.body = body /\ e.corr = corr => ValidEnvelope(e)) =>
                  (~b.failed => ~r.failed /\ Has(r, type, body, ts))
<1> DEFINE e == [id |-> EventId(b, type, nid), type |-> type, nid |-> nid, ts |-> ts,
            layer |-> "L1", authenticated |-> FALSE, authority |-> "authoritative",
            confidence |-> 1, corr |-> corr, rev |-> rev, body |-> body]
           r == Emit(b, type, body, nid, ts, corr, rev)
<1>1. e.type = type /\ e.body = body /\ e.corr = corr /\ e.ts = ts
  OBVIOUS
<1>2. r = IF b.failed \/ ~ValidEnvelope(e) THEN [b EXCEPT !.failed = TRUE]
          ELSE [b EXCEPT !.events = Append(@, e)]
  BY DEF Emit
<1> HIDE DEF e, r
<1>3. CASE b.failed \/ ~ValidEnvelope(e)
  <2>1. r.events = b.events /\ r.failed = TRUE /\ DOMAIN r = DOMAIN b /\ r.loss = b.loss
    BY <1>2, <1>3 DEF Fit
  <2>2. Continues(b, r)
    BY <2>1 DEF Fit, Continues
  <2> QED
    BY <1>1, <1>3, <2>1, <2>2 DEF r
<1>4. CASE ~b.failed /\ ValidEnvelope(e)
  <2>1. /\ r.events = Append(b.events, e) /\ r.failed = b.failed /\ DOMAIN r = DOMAIN b
        /\ r.loss = b.loss
    BY <1>2, <1>4 DEF Fit
  <2>2. Row(r.events) /\ ToSet(r.events) = ToSet(b.events) \cup {e}
    BY <2>1, AppendRow DEF Fit
  <2>3. Continues(b, r)
    BY <1>4, <2>1, <2>2 DEF Fit, Continues
  <2>4. Has(r, type, body, ts)
    BY <1>1, <2>2 DEF Has
  <2> QED
    BY <1>4, <2>1, <2>3, <2>4 DEF r
<1> QED
  BY <1>3, <1>4 DEF Fit

\* Going on is transitive; a builder that goes on from another has its events.
LEMMA ContinuesOn ==
  ASSUME NEW a, NEW b, NEW c, Continues(a, b), Continues(b, c)
  PROVE  Continues(a, c)
BY DEF Continues

\* An event is still there where the builder went on.
LEMMA HasStill ==
  ASSUME NEW b, NEW c, Continues(b, c), NEW type, NEW body, NEW ts, Has(b, type, body, ts)
  PROVE  Has(c, type, body, ts)
BY DEF Continues, Has

\* What changes no event.
LEMMA SameEvents ==
  ASSUME NEW b, Fit(b), NEW r, Same(b, r)
  PROVE  Continues(b, r) /\ (~b.failed => ~r.failed)
BY DEF Same, Continues, Fit

\* What is lost or declared is not emitted.
LEMMA Declares ==
  ASSUME NEW b, Fit(b)
  PROVE  /\ \A what : Continues(b, Lose(b, what)) /\ (~b.failed => ~Lose(b, what).failed)
         /\ \A call, args : /\ Continues(b, Declare(b, call, args))
                            /\ ~b.failed => ~Declare(b, call, args).failed
         /\ \A blocks, places : /\ Continues(b, DeclareAll(b, blocks, places))
                                /\ ~b.failed => ~DeclareAll(b, blocks, places).failed
<1>1. ASSUME NEW what
      PROVE  Continues(b, Lose(b, what)) /\ (~b.failed => ~Lose(b, what).failed)
  <2> DEFINE r == Lose(b, what)
  <2>1. Same(b, r)
    BY DEF Lose, Fit, Same
  <2> QED
    BY <2>1, SameEvents
<1>2. ASSUME NEW call, NEW args
      PROVE  /\ Continues(b, Declare(b, call, args))
             /\ ~b.failed => ~Declare(b, call, args).failed
  <2> DEFINE r == Declare(b, call, args)
  <2>1. Same(b, r)
    BY DEF Declare, Fit, Same
  <2> QED
    BY <2>1, SameEvents
<1>3. ASSUME NEW blocks, NEW places
      PROVE  /\ Continues(b, DeclareAll(b, blocks, places))
             /\ ~b.failed => ~DeclareAll(b, blocks, places).failed
  <2> DEFINE r == DeclareAll(b, blocks, places)
  <2>1. Same(b, r)
    BY DEF DeclareAll, Fit, Same
  <2> QED
    BY <2>1, SameEvents
<1> QED
  BY <1>1, <1>2, <1>3

\* An event that is no message and has no content is valid by its kind.
LEMMA ValidByKind ==
  ASSUME NEW e, e.type[1] # "message", "content" \notin DOMAIN e.body,
         RequiredCorrelation(e.type[1]) \subseteq DOMAIN e.corr,
         e.type[1] \in {"run", "turn", "tool"} =>
           "state" \in DOMAIN e.body /\ e.body.state \in LegalStates(e.type),
         e.type[1] = "tool" => ToolBody(e.type, e.body)
  PROVE  ValidEnvelope(e)
<1>1. ToSet(BlocksOf(e)) = {}
  BY DEF BlocksOf, Get, ToSet
<1>2. ~ContradictoryResult(e) /\ ~ContradictoryCall(e)
  BY DEF ContradictoryResult, ContradictoryCall
<1> QED
  BY <1>1, <1>2 DEF ValidEnvelope

\* The two events that open a run, and those that close it.
LEMMA Opens ==
  ASSUME NEW b, Fit(b), NEW run, NEW nid, NEW ts
  PROVE  LET r == EmitOpen(b, run, nid, ts)
         IN  Continues(b, r) /\ (~b.failed => ~r.failed)
<1> DEFINE b0 == [b EXCEPT !.run = run]
           b1 == Emit(b0, <<"run", "started">>, [state |-> "running"], nid, ts, [runId |-> run], 1)
           b2 == Emit(b1, <<"turn", "started">>, [turnIndex |-> 0, state |-> "running"],
                      nid, ts, RunCorr(run), 1)
<1>1. Continues(b, b0) /\ (~b.failed => ~b0.failed)
  <2>1. Same(b, b0)
    BY DEF Fit, Same
  <2> QED
    BY <2>1, SameEvents
<1>2. ASSUME NEW e, e.type = <<"run", "started">>, e.body = [state |-> "running"],
             e.corr = [runId |-> run]
      PROVE  ValidEnvelope(e)
  <2>1. e.type[1] = "run" /\ "content" \notin DOMAIN e.body
    BY <1>2
  <2>2. RequiredCorrelation(e.type[1]) \subseteq DOMAIN e.corr
    BY <1>2, <2>1 DEF RequiredCorrelation
  <2>3. "state" \in DOMAIN e.body /\ e.body.state \in LegalStates(e.type)
    BY <1>2 DEF LegalStates, Ends
  <2> QED
    BY <2>1, <2>2, <2>3, ValidByKind
<1>3. ASSUME NEW e, e.type = <<"turn", "started">>,
             e.body = [turnIndex |-> 0, state |-> "running"], e.corr = RunCorr(run)
      PROVE  ValidEnvelope(e)
  <2>1. e.type[1] = "turn" /\ "content" \notin DOMAIN e.body
    BY <1>3
  <2>2. RequiredCorrelation(e.type[1]) \subseteq DOMAIN e.corr
    BY <1>3, <2>1 DEF RequiredCorrelation, RunCorr
  <2>3. "state" \in DOMAIN e.body /\ e.body.state \in LegalStates(e.type)
    BY <1>3 DEF LegalStates, Ends
  <2> QED
    BY <2>1, <2>2, <2>3, ValidByKind
<1> HIDE DEF b0
<1>4. Continues(b0, b1) /\ (~b0.failed => ~b1.failed)
  BY <1>1, <1>2, Emits DEF Continues
<1> HIDE DEF b1
<1>5. Continues(b1, b2) /\ (~b1.failed => ~b2.failed)
  BY <1>3, <1>4, Emits DEF Continues
<1>6. b2 = EmitOpen(b, run, nid, ts)
  BY DEF EmitOpen, b1, b0
<1> HIDE DEF b2
<1> QED
  BY <1>1, <1>4, <1>5, <1>6, ContinuesOn

\* A run and its turn are closed by two events.
LEMMA Closes ==
  ASSUME NEW b, Fit(b), NEW state \in {"completed", "cancelled"}, NEW ts
  PROVE  LET r == EmitClose(b, state, ts)
         IN  Continues(b, r) /\ (~b.failed => ~r.failed)
<1> DEFINE b1 == Emit(b, <<"turn", "completed">>, [turnIndex |-> 0, state |-> state],
                      None, ts, RunCorr(b.run), 2)
           b2 == Emit(b1, <<"run", "settled">>, [state |-> state], None, ts,
                      [runId |-> b.run], 2)
<1>2. ASSUME NEW e, e.type = <<"turn", "completed">>,
             e.body = [turnIndex |-> 0, state |-> state], e.corr = RunCorr(b.run)
      PROVE  ValidEnvelope(e)
  <2>1. e.type[1] = "turn" /\ "content" \notin DOMAIN e.body
    BY <1>2
  <2>2. RequiredCorrelation(e.type[1]) \subseteq DOMAIN e.corr
    BY <1>2, <2>1 DEF RequiredCorrelation, RunCorr
  <2>3. "state" \in DOMAIN e.body /\ e.body.state \in LegalStates(e.type)
    BY <1>2 DEF LegalStates, Ends
  <2> QED
    BY <2>1, <2>2, <2>3, ValidByKind
<1>3. ASSUME NEW e, e.type = <<"run", "settled">>, e.body = [state |-> state],
             e.corr = [runId |-> b.run]
      PROVE  ValidEnvelope(e)
  <2>1. e.type[1] = "run" /\ "content" \notin DOMAIN e.body
    BY <1>3
  <2>2. RequiredCorrelation(e.type[1]) \subseteq DOMAIN e.corr
    BY <1>3, <2>1 DEF RequiredCorrelation
  <2>3. "state" \in DOMAIN e.body /\ e.body.state \in LegalStates(e.type)
    BY <1>3 DEF LegalStates
  <2> QED
    BY <2>1, <2>2, <2>3, ValidByKind
<1>4. Continues(b, b1) /\ (~b.failed => ~b1.failed)
  BY <1>2, Emits DEF Continues
<1> HIDE DEF b1
<1>5. Continues(b1, b2) /\ (~b1.failed => ~b2.failed)
  BY <1>3, <1>4, Emits DEF Continues
<1>6. EmitClose(b, state, ts) = IF b.run = None THEN b ELSE b2
  BY DEF EmitClose, b1
<1> HIDE DEF b2
<1>7. Continues(b, b)
  BY DEF Continues
<1> QED
  BY <1>4, <1>5, <1>6, <1>7, ContinuesOn

\* What is only observed is emitted whatever it is.
LEMMA Unknowns ==
  ASSUME NEW b, Fit(b), NEW nativeType, NEW v, NEW nid, NEW ts, NEW corr
  PROVE  LET r == EmitUnknown(b, nativeType, v, nid, ts, corr)
         IN  /\ Continues(b, r)
             /\ ~b.failed => ~r.failed /\ Has(r, <<"unknown", "observed">>,
                                              [nativeType |-> nativeType, value |-> v], ts)
<1>1. ASSUME NEW e, e.type = <<"unknown", "observed">>,
             e.body = [nativeType |-> nativeType, value |-> v], e.corr = corr
      PROVE  ValidEnvelope(e)
  <2>1. e.type[1] = "unknown" /\ "content" \notin DOMAIN e.body
    BY <1>1
  <2>2. RequiredCorrelation(e.type[1]) \subseteq DOMAIN e.corr
    BY <2>1 DEF RequiredCorrelation
  <2> QED
    BY <2>1, <2>2, ValidByKind
<1> QED
  BY <1>1, Emits DEF EmitUnknown

\* So is the completion of a tool.
LEMMA Tools ==
  ASSUME NEW b, Fit(b), NEW name, NEW args, NEW result, NEW isError \in BOOLEAN, NEW nid,
         NEW ts, NEW corr
  PROVE  LET r == EmitTool(b, name, args, result, isError, nid, ts, corr)
         IN  /\ Continues(b, r)
             /\ {"runId", "toolCallId"} \subseteq DOMAIN corr => (~b.failed => ~r.failed)
<1> DEFINE body == [toolName |-> name, args |-> args, result |-> result, isError |-> isError,
                    state |-> IF isError THEN "failed" ELSE "completed", toolIndex |-> b.toolIndex]
           b1 == Emit(b, <<"tool", "completed">>, body, nid, ts, corr, 1)
           r == EmitTool(b, name, args, result, isError, nid, ts, corr)
<1>0. /\ DOMAIN body = {"toolName", "args", "result", "isError", "state", "toolIndex"}
      /\ body.isError = isError
      /\ body.state = IF isError THEN "failed" ELSE "completed"
  OBVIOUS
<1> HIDE DEF body
<1>1. ASSUME NEW e, e.type = <<"tool", "completed">>, e.body = body, e.corr = corr,
             {"runId", "toolCallId"} \subseteq DOMAIN corr
      PROVE  ValidEnvelope(e)
  <2>1. e.type[1] = "tool" /\ "content" \notin DOMAIN e.body
    BY <1>0, <1>1
  <2>2. RequiredCorrelation(e.type[1]) \subseteq DOMAIN e.corr
    BY <1>1, <2>1 DEF RequiredCorrelation
  <2>3. "state" \in DOMAIN e.body /\ e.body.state \in LegalStates(e.type)
    BY <1>0, <1>1 DEF LegalStates, Ends
  <2>4. ToolBody(e.type, e.body)
    BY <1>0, <1>1 DEF ToolBody
  <2> QED
    BY <2>1, <2>2, <2>3, <2>4, ValidByKind
<1>2. Continues(b, b1) /\ ({"runId", "toolCallId"} \subseteq DOMAIN corr => (~b.failed => ~b1.failed))
  BY <1>1, Emits
<1>3. r = [b1 EXCEPT !.toolIndex = @ + 1]
  BY DEF EmitTool, body
<1> HIDE DEF b1, r
<1>4. Same(b1, r)
  BY <1>2, <1>3 DEF Continues, Fit, Same
<1>5. Continues(b1, r) /\ (~b1.failed => ~r.failed)
  BY <1>2, <1>4, SameEvents DEF Continues
<1> QED
  BY <1>2, <1>5, ContinuesOn DEF r

\* And the end of the session.
LEMMA Ending ==
  ASSUME NEW b, Fit(b)
  PROVE  Continues(b, EmitEnd(b)) /\ (~b.failed => ~EmitEnd(b).failed)
<1> DEFINE b1 == Emit(b, <<"session", "ended">>, [state |-> "exited"], None, LastTs(b), <<>>, 0)
<1>1. ASSUME NEW e, e.type = <<"session", "ended">>, e.body = [state |-> "exited"], e.corr = <<>>
      PROVE  ValidEnvelope(e)
  <2>1. e.type[1] = "session" /\ "content" \notin DOMAIN e.body
    BY <1>1
  <2>2. RequiredCorrelation(e.type[1]) \subseteq DOMAIN e.corr
    BY <2>1 DEF RequiredCorrelation
  <2> QED
    BY <2>1, <2>2, ValidByKind
<1>2. Continues(b, b1) /\ (~b.failed => ~b1.failed)
  BY <1>1, Emits
<1>3. EmitEnd(b) \in {b1, Lose(b1, "tool calls without a result")}
  BY DEF EmitEnd
<1> HIDE DEF b1
<1>4. /\ Continues(b1, Lose(b1, "tool calls without a result"))
      /\ ~b1.failed => ~Lose(b1, "tool calls without a result").failed
  BY <1>2, Declares DEF Continues
<1>5. CASE EmitEnd(b) = b1
  BY <1>2, <1>5
<1>6. CASE EmitEnd(b) = Lose(b1, "tool calls without a result")
  <2>1. Continues(b, Lose(b1, "tool calls without a result"))
    BY <1>2, <1>4, ContinuesOn
  <2> QED
    BY <1>2, <1>4, <1>6, <2>1
<1> QED
  BY <1>3, <1>5, <1>6

\* A message that is about one call c and its result q at most, or about none.
LinkedBy(body, corr, key) == key \in DOMAIN body \cup DOMAIN corr
AboutOne(body, corr, c, q) ==
  LET blocks == ToSet(Get(body, "content", <<>>)) IN
  /\ \A s \in {corr, body} : /\ "toolCallId" \in DOMAIN s => s.toolCallId = c
                             /\ "toolResultId" \in DOMAIN s => s.toolResultId = q
  /\ LinkedBy(body, corr, "toolResultId") => LinkedBy(body, corr, "toolCallId")
  /\ \A x \in blocks :
       /\ x.type = "tool-result" => x.call = c /\ x.result = q
       /\ x.type \in {"tool-call", "tool-result"} => x.call # None
  /\ LinkedBy(body, corr, "toolCallId") /\ (\E x \in blocks : x.type = "tool-call") =>
       \E x \in blocks : x.type = "tool-call" /\ x.call = c

\* A set with one possible element has no two.
LEMMA AtMostOne ==
  ASSUME NEW S, NEW c, S \subseteq {c}
  PROVE  ~(Cardinality(S) > 1)
<1>1. Cardinality(S) = Cardinality(S)
  BY DEF Cardinality
<1>2. Cardinality(S) \in {0, 1}
  <2>1. S = {} \/ S = {c}
    OBVIOUS
  <2> QED
    BY <2>1, FS_EmptySet, FS_Singleton
<1> QED
  BY <1>1, <1>2

\* A message about one call at most is valid.
LEMMA ValidMessage ==
  ASSUME NEW e, e.type[1] = "message", {"runId", "messageId"} \subseteq DOMAIN e.corr,
         "state" \in DOMAIN e.body, e.body.state \in LegalStates(e.type),
         ~StateRequired(e.type), NEW c, NEW q, AboutOne(e.body, e.corr, c, q)
  PROVE  ValidEnvelope(e)
<1> DEFINE blocks == ToSet(BlocksOf(e))
<1>1. blocks = ToSet(Get(e.body, "content", <<>>))
  BY DEF BlocksOf
<1>2. RequiredCorrelation(e.type[1]) \subseteq DOMAIN e.corr
  BY DEF RequiredCorrelation
<1>3. \A x \in blocks : ValidBlock(x)
  BY <1>1 DEF ValidBlock, AboutOne
<1>4. Named(e, "toolCallId") \subseteq {c} /\ Named(e, "toolResultId") \subseteq {q}
  BY DEF Named, AboutOne
<1>5. LinkedCalls(e) \subseteq {c} /\ LinkedResults(e) \subseteq {q}
  BY <1>1, <1>4 DEF LinkedCalls, LinkedResults, ResultBlocks, AboutOne
<1>6. LinkedCalls(e) = {} => LinkedResults(e) = {}
  <2> SUFFICES ASSUME LinkedCalls(e) = {}, LinkedResults(e) # {}
               PROVE  FALSE
    OBVIOUS
  <2>1. ResultBlocks(e) = {} /\ Named(e, "toolCallId") = {}
    BY DEF LinkedCalls
  <2>2. Named(e, "toolResultId") # {}
    BY <2>1 DEF LinkedResults
  <2>3. LinkedBy(e.body, e.corr, "toolResultId")
    BY <2>2 DEF Named, LinkedBy
  <2>4. LinkedBy(e.body, e.corr, "toolCallId")
    BY <2>3 DEF AboutOne
  <2> QED
    BY <2>1, <2>4 DEF Named, LinkedBy
<1>7. ~ContradictoryResult(e)
  BY <1>5, <1>6, AtMostOne DEF ContradictoryResult
<1>8. Named(e, "toolCallId") # {} /\ CallBlocks(e) # {} => c \in {x.call : x \in CallBlocks(e)}
  <2> SUFFICES ASSUME Named(e, "toolCallId") # {}, CallBlocks(e) # {}
               PROVE  c \in {x.call : x \in CallBlocks(e)}
    OBVIOUS
  <2>1. LinkedBy(e.body, e.corr, "toolCallId")
    BY DEF Named, LinkedBy
  <2>2. \E x \in blocks : x.type = "tool-call"
    BY DEF CallBlocks
  <2>3. PICK x \in blocks : x.type = "tool-call" /\ x.call = c
    BY <1>1, <2>1, <2>2 DEF AboutOne
  <2>4. x \in CallBlocks(e)
    BY <2>3 DEF CallBlocks
  <2> QED
    BY <2>3, <2>4
<1>9. ~ContradictoryCall(e)
  BY <1>4, <1>8, AtMostOne DEF ContradictoryCall
<1> HIDE DEF blocks
<1> QED
  BY <1>2, <1>3, <1>7, <1>9 DEF ValidEnvelope, blocks

\* What a body is about does not depend on its index and state.
LEMMA AboutOneStill ==
  ASSUME NEW body, NEW s, DOMAIN s \subseteq {"messageIndex", "state"}, NEW corr, NEW c, NEW q,
         AboutOne(body, corr, c, q)
  PROVE  /\ AboutOne(With(body, s), corr, c, q)
         /\ Get(With(body, s), "content", <<>>) = Get(body, "content", <<>>)
<1> DEFINE w == With(body, s)
<1>1. /\ DOMAIN w = DOMAIN body \cup DOMAIN s
      /\ \A k \in DOMAIN body : w[k] = body[k]
  BY DEF With
<1> HIDE DEF w
<1>2. \A k \in {"toolCallId", "toolResultId", "content"} : k \in DOMAIN w <=> k \in DOMAIN body
  BY <1>1
<1>3. /\ "toolCallId" \in DOMAIN body => w.toolCallId = body.toolCallId
      /\ "toolResultId" \in DOMAIN body => w.toolResultId = body.toolResultId
      /\ "content" \in DOMAIN body => w.content = body.content
  BY <1>1
<1>4. Get(w, "content", <<>>) = Get(body, "content", <<>>)
  BY <1>2, <1>3 DEF Get
<1>5. /\ LinkedBy(w, corr, "toolCallId") <=> LinkedBy(body, corr, "toolCallId")
      /\ LinkedBy(w, corr, "toolResultId") <=> LinkedBy(body, corr, "toolResultId")
  BY <1>2 DEF LinkedBy
<1>6. AboutOne(w, corr, c, q)
  BY <1>2, <1>3, <1>4, <1>5 DEF AboutOne
<1> QED
  BY <1>4, <1>6 DEF w

\* The completion of a message, and the content it has.
LEMMA Messages ==
  ASSUME NEW b, Fit(b), NEW body, NEW nid, NEW ts, NEW corr
  PROVE  LET r == EmitMessage(b, body, nid, ts, corr)
         IN  /\ Continues(b, r)
             /\ {"runId", "messageId"} \subseteq DOMAIN corr /\ "state" \notin DOMAIN body
                /\ (\E c, q : AboutOne(body, corr, c, q)) =>
                  (~b.failed => ~r.failed /\ Says(r, Get(body, "content", <<>>), ts))
<1> DEFINE s == [messageIndex |-> b.messageIndex, state |-> "completed"]
           w == With(body, s)
           b1 == Emit(b, <<"message", "completed">>, w, nid, ts, corr, 1)
           r == EmitMessage(b, body, nid, ts, corr)
           Good == {"runId", "messageId"} \subseteq DOMAIN corr /\ "state" \notin DOMAIN body
                   /\ (\E c, q : AboutOne(body, corr, c, q))
<1>0. "state" \notin DOMAIN body => "state" \in DOMAIN w /\ w.state = "completed"
  BY DEF With
<1>1. DOMAIN s \subseteq {"messageIndex", "state"}
  OBVIOUS
<1> HIDE DEF s
<1>2. ASSUME NEW e, e.type = <<"message", "completed">>, e.body = w, e.corr = corr, Good
      PROVE  ValidEnvelope(e)
  <2>1. PICK c, q : AboutOne(body, corr, c, q)
    BY <1>2
  <2>2. AboutOne(w, corr, c, q)
    BY <1>1, <2>1, AboutOneStill
  <2>3. w.state \in LegalStates(e.type) /\ ~StateRequired(e.type)
    BY <1>0, <1>2 DEF LegalStates, StateRequired, Ends
  <2>4. e.type[1] = "message"
    BY <1>2
  <2> HIDE DEF w
  <2> QED
    BY <1>0, <1>2, <2>2, <2>3, <2>4, ValidMessage
<1>3. Continues(b, b1) /\ (Good => (~b.failed => ~b1.failed /\ Has(b1, <<"message", "completed">>, w, ts)))
  BY <1>2, Emits
<1>4. r = [b1 EXCEPT !.messageIndex = @ + 1]
  BY DEF EmitMessage, s
<1> HIDE DEF b1, r
<1>5. Same(b1, r)
  BY <1>3, <1>4 DEF Continues, Fit, Same
<1>6. Continues(b1, r) /\ (~b1.failed => ~r.failed)
  BY <1>3, <1>5, SameEvents DEF Continues
<1>7. ASSUME Good, ~b.failed
      PROVE  Says(r, Get(body, "content", <<>>), ts)
  <2>1. Has(r, <<"message", "completed">>, w, ts)
    BY <1>3, <1>6, <1>7, HasStill
  <2>2. Get(w, "content", <<>>) = Get(body, "content", <<>>)
    BY <1>1, <1>7, AboutOneStill
  <2> QED
    BY <2>1, <2>2 DEF Says
<1> QED
  BY <1>3, <1>6, <1>7, ContinuesOn DEF r

-----------------------------------------------------------------------------
(* The folds of the importers.                                             *)

\* One step of each fold, in the context it has.
Taken(how, ctx, b, x) ==
  CASE how = "claude" -> ClaudeStep(b, ctx, x)
    [] how = "claude results" -> ToolResult(b, ctx[1], ctx[2], x)
    [] how = "codex" -> CodexStep(b, ctx[x], x)
    [] how = "pi" -> PiStep(b, x)
    [] how = "dimagent" -> DimagentStep(b, x)
    [] how = "dimagent calls" -> StartTool(b, ctx, x)

\* The function by which the fold of a sequence is defined, on sets of places.
Greatest(S) == CHOOSE x \in S : \A y \in S : x >= y
Iterates(g, how, ctx, base, s, places) ==
  g = [S \in SUBSET places |-> IF S = {} THEN base
                               ELSE Taken(how, ctx, g[S \ {Greatest(S)}], s[Greatest(S)])]

\* The last of some places up to n is one of them, the others are before n.
LEMMA TopIs ==
  ASSUME NEW n \in Nat, NEW S \in SUBSET (1..n), S # {}
  PROVE  Greatest(S) \in S /\ S \ {Greatest(S)} \subseteq 1..(n - 1)
<1>1. \E x \in S : \A y \in S : x >= y
  <2>1. \E x \in S : \A y \in S : y <= x
    BY GreatestNumber
  <2> QED
    BY <2>1
<1>2. Greatest(S) \in S /\ \A y \in S : Greatest(S) >= y
  BY <1>1 DEF Greatest
<1>3. Greatest(S) \in 1..n
  BY <1>2
<1>4. ASSUME NEW y \in S, y # Greatest(S)
      PROVE  y \in 1..(n - 1)
  BY <1>2, <1>3, <1>4
<1> QED
  BY <1>2, <1>4

\* That function exists.
LEMMA IteratesExists ==
  ASSUME NEW how, NEW ctx, NEW base, NEW s, NEW n \in Nat
  PROVE  \E g : Iterates(g, how, ctx, base, s, 1..n)
<1> DEFINE T == {m \in Nat : \E g : Iterates(g, how, ctx, base, s, 1..m)}
<1>1. 0 \in T
  <2> DEFINE g == [S \in SUBSET (1..0) |-> base]
  <2>1. \A S \in SUBSET (1..0) : S = {}
    OBVIOUS
  <2>2. Iterates(g, how, ctx, base, s, 1..0)
    BY <2>1 DEF Iterates
  <2> QED
    BY <2>2
<1>2. ASSUME NEW m \in Nat, m \in T
      PROVE  m + 1 \in T
  <2>1. PICK g : Iterates(g, how, ctx, base, s, 1..m)
    BY <1>2
  <2> DEFINE h == [S \in SUBSET (1..(m + 1)) |->
                     IF S = {} THEN base
                     ELSE Taken(how, ctx, g[S \ {Greatest(S)}], s[Greatest(S)])]
  <2>2. \A S \in SUBSET (1..m) : g[S] = IF S = {} THEN base
                                       ELSE Taken(how, ctx, g[S \ {Greatest(S)}], s[Greatest(S)])
    BY <2>1 DEF Iterates
  <2>3. \A S \in SUBSET (1..m) : S \in SUBSET (1..(m + 1))
    OBVIOUS
  <2>4. \A S \in SUBSET (1..m) : h[S] = g[S]
    BY <2>2, <2>3
  <2>5. ASSUME NEW S \in SUBSET (1..(m + 1)), S # {}
        PROVE  S \ {Greatest(S)} \in SUBSET (1..m)
    BY <2>5, TopIs
  <2>6. \A S \in SUBSET (1..(m + 1)) :
          h[S] = IF S = {} THEN base ELSE Taken(how, ctx, g[S \ {Greatest(S)}], s[Greatest(S)])
    OBVIOUS
  <2>7. DOMAIN h = SUBSET (1..(m + 1)) /\ h = [S \in DOMAIN h |-> h[S]]
    OBVIOUS
  <2> HIDE DEF h
  <2>8. \A S \in SUBSET (1..(m + 1)) :
          h[S] = IF S = {} THEN base ELSE Taken(how, ctx, h[S \ {Greatest(S)}], s[Greatest(S)])
    BY <2>4, <2>5, <2>6
  <2>9. Iterates(h, how, ctx, base, s, 1..(m + 1))
    BY <2>7, <2>8 DEF Iterates
  <2> QED
    BY <2>9
<1>3. \A m \in Nat : m \in T => m + 1 \in T
  BY <1>2
<1>4. Nat \subseteq T
  <2> HIDE DEF T
  <2> QED
    BY <1>1, <1>3, NaturalsIn
<1> QED
  BY <1>4

\* Its values are the stages of the fold.
Stages(h, how, ctx, base, s) ==
  h[0] = base /\ \A k \in 1..Len(s) : h[k] = Taken(how, ctx, h[k - 1], s[k])

\* The values of such a function along the sequence are its stages.
LEMMA Staged ==
  ASSUME NEW how, NEW ctx, NEW base, NEW s, Row(s), NEW g,
         Iterates(g, how, ctx, base, s, DOMAIN s)
  PROVE  \E h : Stages(h, how, ctx, base, s) /\ h[Len(s)] = g[DOMAIN s]
<1> DEFINE n == Len(s)
           h == [k \in 0..n |-> g[1..k]]
<1>1. n \in Nat /\ DOMAIN s = 1..n
  <2>1. s \in Seq(ToSet(s))
    BY DEF Row
  <2> QED
    BY <2>1
<1>2. \A S \in SUBSET (1..n) : g[S] = IF S = {} THEN base
                                    ELSE Taken(how, ctx, g[S \ {Greatest(S)}], s[Greatest(S)])
  BY <1>1 DEF Iterates
<1>3. h[0] = base
  <2>1. 1..0 = {} /\ {} \in SUBSET (1..n) /\ 0 \in 0..n
    BY <1>1
  <2>2. g[{}] = base
    BY <1>2, <2>1
  <2> HIDE DEF n
  <2> QED
    BY <2>1, <2>2
<1>4. ASSUME NEW k \in 1..n
      PROVE  h[k] = Taken(how, ctx, h[k - 1], s[k])
  <2>1. k \in Nat /\ 1..k \in SUBSET (1..n) /\ k \in 1..k /\ k \in 0..n /\ k - 1 \in 0..n
    BY <1>1
  <2>2. Greatest(1..k) = k
    <3>1. \E x \in 1..k : \A y \in 1..k : x >= y
      BY <2>1
    <3>2. Greatest(1..k) \in 1..k /\ \A y \in 1..k : Greatest(1..k) >= y
      BY <3>1 DEF Greatest
    <3> QED
      BY <2>1, <3>2
  <2>3. (1..k) \ {k} = 1..(k - 1)
    BY <2>1
  <2>4. g[1..k] = Taken(how, ctx, g[1..(k - 1)], s[k])
    BY <1>2, <2>1, <2>2, <2>3
  <2> HIDE DEF n
  <2> QED
    BY <2>1, <2>4
<1>5. h[n] = g[1..n]
  BY <1>1
<1> HIDE DEF h
<1>6. Stages(h, how, ctx, base, s)
  BY <1>3, <1>4 DEF Stages
<1> QED
  BY <1>1, <1>5, <1>6

\* If each step goes on from the stage before it, the fold does from every one.
Fold(r, how, ctx, base, s) ==
  \E h : /\ Stages(h, how, ctx, base, s) /\ h[Len(s)] = r
         /\ \A k \in 0..Len(s) : Fit(h[k]) /\ Continues(h[k], r)

\* A fold of steps that go on goes on from its base, and from each stage.
LEMMA Folding ==
  ASSUME NEW how, NEW ctx, NEW base, NEW s, Row(s), NEW r,
         \E g : Iterates(g, how, ctx, base, s, DOMAIN s) /\ r = g[DOMAIN s],
         Fit(base), \A b : \A k \in DOMAIN s : Fit(b) => Continues(b, Taken(how, ctx, b, s[k]))
  PROVE  Fold(r, how, ctx, base, s) /\ Continues(base, r)
<1> DEFINE n == Len(s)
<1>1. n \in Nat /\ DOMAIN s = 1..n
  <2>1. s \in Seq(ToSet(s))
    BY DEF Row
  <2> QED
    BY <2>1
<1>2. PICK h : Stages(h, how, ctx, base, s) /\ h[n] = r
  BY Staged
<1> HIDE DEF n
<1>0. h[0] = base /\ \A k \in 1..n : h[k] = Taken(how, ctx, h[k - 1], s[k])
  BY <1>2 DEF Stages, n
<1>3. \A k \in 0..n : Fit(h[k])
  <2> DEFINE T == {k \in Nat : k \in 0..n => Fit(h[k])}
  <2>1. 0 \in T
    BY <1>0
  <2>2. ASSUME NEW k \in Nat, k \in T
        PROVE  k + 1 \in T
    <3>1. CASE k + 1 \in 0..n
      <4>1. k \in 0..n /\ k + 1 \in 1..n /\ (k + 1) - 1 = k
        BY <1>1, <3>1
      <4>2. h[k + 1] = Taken(how, ctx, h[k], s[k + 1]) /\ Fit(h[k])
        BY <1>0, <2>2, <4>1
      <4>3. Continues(h[k], Taken(how, ctx, h[k], s[k + 1]))
        BY <1>1, <4>1, <4>2
      <4> QED
        BY <4>2, <4>3 DEF Continues
    <3> QED
      BY <3>1
  <2>3. Nat \subseteq T
    <3> HIDE DEF T
    <3> QED
      BY <2>1, <2>2, NaturalsIn
  <2> QED
    BY <1>1, <2>3
<1>4. \A k \in 0..n : Continues(h[k], h[n])
  <2> DEFINE T == {d \in Nat : d \in 0..n => Continues(h[n - d], h[n])}
  <2>1. 0 \in T
    <3>1. n \in 0..n /\ n - 0 = n
      BY <1>1
    <3> QED
      BY <1>3, <3>1 DEF Continues
  <2>2. ASSUME NEW d \in Nat, d \in T
        PROVE  d + 1 \in T
    <3>1. CASE d + 1 \in 0..n
      <4> DEFINE k == n - d
      <4>1. d \in 0..n /\ k \in 1..n /\ k - 1 = n - (d + 1) /\ k - 1 \in 0..n
        BY <1>1, <3>1
      <4> HIDE DEF k
      <4>2. h[k] = Taken(how, ctx, h[k - 1], s[k]) /\ Fit(h[k - 1])
        BY <1>0, <1>3, <4>1
      <4>3. Continues(h[k - 1], h[k])
        BY <1>1, <4>1, <4>2
      <4>4. Continues(h[k], h[n])
        BY <2>2, <4>1 DEF k
      <4> QED
        BY <4>1, <4>3, <4>4, ContinuesOn
    <3> QED
      BY <3>1
  <2>3. Nat \subseteq T
    <3> HIDE DEF T
    <3> QED
      BY <2>1, <2>2, NaturalsIn
  <2>4. ASSUME NEW k \in 0..n
        PROVE  Continues(h[k], h[n])
    <3>1. n - k \in 0..n /\ n - (n - k) = k
      BY <1>1
    <3>2. n - k \in T
      BY <2>3, <3>1
    <3> QED
      BY <3>1, <3>2
  <2> QED
    BY <2>4
<1>5. Fold(r, how, ctx, base, s)
  BY <1>2, <1>3, <1>4 DEF Fold, n
<1>6. 0 \in 0..n
  BY <1>1
<1> QED
  BY <1>0, <1>2, <1>4, <1>5, <1>6

\* The places of a sequence, in a row themselves.
Indices(native) == [i \in DOMAIN native |-> i]

\* The places of a sequence are one themselves.
LEMMA PlacesRow ==
  ASSUME NEW native, Row(native)
  PROVE  /\ Row(Indices(native)) /\ DOMAIN Indices(native) = DOMAIN native /\ Len(Indices(native)) = Len(native)
         /\ \A i \in DOMAIN native : Indices(native)[i] = i
<1>1. Len(native) \in Nat /\ DOMAIN native = 1..Len(native)
  <2>1. native \in Seq(ToSet(native))
    BY DEF Row
  <2> QED
    BY <2>1
<1>2. Indices(native) \in Seq(ToSet(Indices(native))) /\ Len(Indices(native)) = Len(native)
  BY <1>1 DEF Indices, ToSet
<1> QED
  BY <1>2 DEF Row, Indices

\* Each fold of an importer is the value of such a function.
LEMMA PiFold ==
  ASSUME NEW base, NEW s, Row(s)
  PROVE  \E g : /\ Iterates(g, "pi", <<>>, base, s, DOMAIN s)
                /\ FoldLeft(PiStep, base, s) = g[DOMAIN s]
<1> DEFINE F(g) == [S \in SUBSET DOMAIN s |->
                      IF S = {} THEN base
                      ELSE PiStep(g[S \ {Greatest(S)}], s[Greatest(S)])]
           it == CHOOSE g : g = F(g)
<1>1. FoldLeft(PiStep, base, s) = it[DOMAIN s]
  BY DEF FoldLeft, MapThenFoldSet, Max, Greatest
<1>2. \A b, x : Taken("pi", <<>>, b, x) = PiStep(b, x)
  BY DEF Taken
<1>3. \A g : Iterates(g, "pi", <<>>, base, s, DOMAIN s) <=> g = F(g)
  BY <1>2 DEF Iterates
<1> HIDE DEF F
<1>4. \E g : g = F(g)
  <2>1. PICK n \in Nat : DOMAIN s = 1..n
    BY DEF Row
  <2>2. \E g : Iterates(g, "pi", <<>>, base, s, DOMAIN s)
    BY <2>1, IteratesExists
  <2> QED
    BY <1>3, <2>2
<1>5. it = F(it)
  BY <1>4
<1> HIDE DEF it
<1> QED
  BY <1>1, <1>3, <1>5

\* The rows of dimagent.
LEMMA DimagentFold ==
  ASSUME NEW base, NEW s, Row(s)
  PROVE  \E g : /\ Iterates(g, "dimagent", <<>>, base, s, DOMAIN s)
                /\ FoldLeft(DimagentStep, base, s) = g[DOMAIN s]
<1> DEFINE F(g) == [S \in SUBSET DOMAIN s |->
                      IF S = {} THEN base
                      ELSE DimagentStep(g[S \ {Greatest(S)}], s[Greatest(S)])]
           it == CHOOSE g : g = F(g)
<1>1. FoldLeft(DimagentStep, base, s) = it[DOMAIN s]
  BY DEF FoldLeft, MapThenFoldSet, Max, Greatest
<1>2. \A b, x : Taken("dimagent", <<>>, b, x) = DimagentStep(b, x)
  BY DEF Taken
<1>3. \A g : Iterates(g, "dimagent", <<>>, base, s, DOMAIN s) <=> g = F(g)
  BY <1>2 DEF Iterates
<1> HIDE DEF F
<1>4. \E g : g = F(g)
  <2>1. PICK n \in Nat : DOMAIN s = 1..n
    BY DEF Row
  <2>2. \E g : Iterates(g, "dimagent", <<>>, base, s, DOMAIN s)
    BY <2>1, IteratesExists
  <2> QED
    BY <1>3, <2>2
<1>5. it = F(it)
  BY <1>4
<1> HIDE DEF it
<1> QED
  BY <1>1, <1>3, <1>5

\* The calls of a row.
CallsOf(base, r, s) == FoldLeft(LAMBDA acc, y : StartTool(acc, r, y), base, s)

\* They are declared one after the other.
LEMMA CallFold ==
  ASSUME NEW base, NEW r, NEW s, Row(s)
  PROVE  \E g : /\ Iterates(g, "dimagent calls", r, base, s, DOMAIN s)
                /\ CallsOf(base, r, s) = g[DOMAIN s]
<1> DEFINE F(g) == [S \in SUBSET DOMAIN s |->
                      IF S = {} THEN base
                      ELSE StartTool(g[S \ {Greatest(S)}], r, s[Greatest(S)])]
           it == CHOOSE g : g = F(g)
<1>1. CallsOf(base, r, s) = it[DOMAIN s]
  BY DEF CallsOf, FoldLeft, MapThenFoldSet, Max, Greatest
<1>2. \A b, x : Taken("dimagent calls", r, b, x) = StartTool(b, r, x)
  BY DEF Taken
<1>3. \A g : Iterates(g, "dimagent calls", r, base, s, DOMAIN s) <=> g = F(g)
  BY <1>2 DEF Iterates
<1> HIDE DEF F
<1>4. \E g : g = F(g)
  <2>1. PICK n \in Nat : DOMAIN s = 1..n
    BY DEF Row
  <2>2. \E g : Iterates(g, "dimagent calls", r, base, s, DOMAIN s)
    BY <2>1, IteratesExists
  <2> QED
    BY <1>3, <2>2
<1>5. it = F(it)
  BY <1>4
<1> HIDE DEF it
<1> QED
  BY <1>1, <1>3, <1>5

\* The results of an entry of claude.
ResultsOf(base, e, i, s) ==
  FoldLeft(LAMBDA acc, x : ToolResult(acc, e, i, x), base, s)

\* They are answered one after the other.
LEMMA ResultFold ==
  ASSUME NEW base, NEW e, NEW i, NEW s, Row(s)
  PROVE  \E g : /\ Iterates(g, "claude results", <<e, i>>, base, s, DOMAIN s)
                /\ ResultsOf(base, e, i, s) = g[DOMAIN s]
<1> DEFINE F(g) == [S \in SUBSET DOMAIN s |->
                      IF S = {} THEN base
                      ELSE ToolResult(g[S \ {Greatest(S)}], e, i, s[Greatest(S)])]
           it == CHOOSE g : g = F(g)
<1>1. ResultsOf(base, e, i, s) = it[DOMAIN s]
  BY DEF ResultsOf, FoldLeft, MapThenFoldSet, Max, Greatest
<1>2. \A b, x : Taken("claude results", <<e, i>>, b, x) = ToolResult(b, e, i, x)
  BY DEF Taken
<1>3. \A g : Iterates(g, "claude results", <<e, i>>, base, s, DOMAIN s) <=> g = F(g)
  BY <1>2 DEF Iterates
<1> HIDE DEF F
<1>4. \E g : g = F(g)
  <2>1. PICK n \in Nat : DOMAIN s = 1..n
    BY DEF Row
  <2>2. \E g : Iterates(g, "claude results", <<e, i>>, base, s, DOMAIN s)
    BY <2>1, IteratesExists
  <2> QED
    BY <1>3, <2>2
<1>5. it = F(it)
  BY <1>4
<1> HIDE DEF it
<1> QED
  BY <1>1, <1>3, <1>5

\* Codex and claude fold over places.
LEMMA CodexFold ==
  ASSUME NEW base, NEW native, Row(native)
  PROVE  \E g : /\ Iterates(g, "codex", native, base, Indices(native), DOMAIN Indices(native))
                /\ FoldLeftDomain(LAMBDA b, i : CodexStep(b, native[i], i), base, native) = g[DOMAIN Indices(native)]
<1> DEFINE F(g) == [S \in SUBSET DOMAIN Indices(native) |->
                      IF S = {} THEN base
                      ELSE CodexStep(g[S \ {Greatest(S)}], native[Indices(native)[Greatest(S)]], Indices(native)[Greatest(S)])]
           it == CHOOSE g : g = F(g)
<1>1. FoldLeftDomain(LAMBDA b, i : CodexStep(b, native[i], i), base, native) = it[DOMAIN Indices(native)]
  BY DEF Indices, FoldLeftDomain, FoldLeft, MapThenFoldSet, Max, Greatest
<1>2. \A b, x : Taken("codex", native, b, x) = CodexStep(b, native[x], x)
  BY DEF Taken
<1>3. \A g : Iterates(g, "codex", native, base, Indices(native), DOMAIN Indices(native)) <=> g = F(g)
  BY <1>2 DEF Iterates
<1> HIDE DEF F
<1>4. \E g : g = F(g)
  <2>1. PICK n \in Nat : DOMAIN Indices(native) = 1..n
    BY PlacesRow DEF Row
  <2>2. \E g : Iterates(g, "codex", native, base, Indices(native), DOMAIN Indices(native))
    BY <2>1, IteratesExists
  <2> QED
    BY <1>3, <2>2
<1>5. it = F(it)
  BY <1>4
<1> HIDE DEF it
<1> QED
  BY <1>1, <1>3, <1>5

\* So does claude.
LEMMA ClaudeFold ==
  ASSUME NEW base, NEW native, Row(native)
  PROVE  \E g : /\ Iterates(g, "claude", native, base, Indices(native), DOMAIN Indices(native))
                /\ FoldLeftDomain(LAMBDA b, i : ClaudeStep(b, native, i), base, native) = g[DOMAIN Indices(native)]
<1> DEFINE F(g) == [S \in SUBSET DOMAIN Indices(native) |->
                      IF S = {} THEN base
                      ELSE ClaudeStep(g[S \ {Greatest(S)}], native, Indices(native)[Greatest(S)])]
           it == CHOOSE g : g = F(g)
<1>1. FoldLeftDomain(LAMBDA b, i : ClaudeStep(b, native, i), base, native) = it[DOMAIN Indices(native)]
  BY DEF Indices, FoldLeftDomain, FoldLeft, MapThenFoldSet, Max, Greatest
<1>2. \A b, x : Taken("claude", native, b, x) = ClaudeStep(b, native, x)
  BY DEF Taken
<1>3. \A g : Iterates(g, "claude", native, base, Indices(native), DOMAIN Indices(native)) <=> g = F(g)
  BY <1>2 DEF Iterates
<1> HIDE DEF F
<1>4. \E g : g = F(g)
  <2>1. PICK n \in Nat : DOMAIN Indices(native) = 1..n
    BY PlacesRow DEF Row
  <2>2. \E g : Iterates(g, "claude", native, base, Indices(native), DOMAIN Indices(native))
    BY <2>1, IteratesExists
  <2> QED
    BY <1>3, <2>2
<1>5. it = F(it)
  BY <1>4
<1> HIDE DEF it
<1> QED
  BY <1>1, <1>3, <1>5

-----------------------------------------------------------------------------
(* What the evidence of a builder says, and when.                          *)

Tells(b, values) == values \subseteq EvidenceValues(b.events)
Timed(b, ts) == \E e \in ToSet(b.events) : e.ts = ts
AllValues(blocks) == UNION {Values(x) : x \in ToSet(blocks)}

\* What was told and when is told still where the builder went on.
LEMMA TellsStill ==
  ASSUME NEW b, NEW c, Continues(b, c)
  PROVE  /\ \A values : Tells(b, values) => Tells(c, values)
         /\ \A ts : Timed(b, ts) => Timed(c, ts)
<1>1. ToSet(b.events) \subseteq ToSet(c.events)
  BY DEF Continues
<1>2. EvidenceValues(b.events) \subseteq EvidenceValues(c.events)
  BY <1>1 DEF EvidenceValues
<1> QED
  BY <1>1, <1>2 DEF Tells, Timed

\* An event tells the value or the blocks it has.
LEMMA HasTells ==
  ASSUME NEW b, NEW type, NEW body, NEW ts, Has(b, type, body, ts)
  PROVE  /\ Timed(b, ts) /\ Tells(b, ToSet(Get(body, "value", <<>>)))
         /\ Tells(b, AllValues(Get(body, "content", <<>>)))
<1>1. PICK e \in ToSet(b.events) : e.type = type /\ e.body = body /\ e.ts = ts
  BY DEF Has
<1>2. ToSet(Get(e.body, "value", <<>>)) \subseteq EvidenceValues(b.events)
  BY DEF EvidenceValues
<1>3. UNION {Values(x) : x \in ToSet(BlocksOf(e))} \subseteq EvidenceValues(b.events)
  BY DEF EvidenceValues
<1> QED
  BY <1>1, <1>2, <1>3 DEF Tells, Timed, AllValues, BlocksOf

\* A message tells the values of its content.
LEMMA SaysTells ==
  ASSUME NEW b, NEW content, NEW ts, Says(b, content, ts)
  PROVE  Timed(b, ts) /\ Tells(b, AllValues(content))
BY HasTells DEF Says

\* The blocks of a record are told by blocks that have their values.
Carries(blocks, content) ==
  \A x \in ToSet(content) : \E y \in ToSet(blocks) : "v" \in DOMAIN y /\ y.v = x.v

\* A plain block has its values in v, where they count whatever it becomes.
LEMMA PlainValues ==
  /\ \A x : Plain(x) => Values(x) = ToSet(x.v)
  /\ \A y : "v" \in DOMAIN y => ToSet(y.v) \subseteq Values(y)
<1>1. ToSet(<<>>) = {}
  BY DEF ToSet
<1>2. ASSUME NEW x, Plain(x)
      PROVE  Values(x) = ToSet(x.v)
  <2>1. /\ "v" \in DOMAIN x /\ "summary" \notin DOMAIN x /\ "enc" \notin DOMAIN x
        /\ "att" \notin DOMAIN x /\ "output" \notin DOMAIN x
    BY <1>2 DEF Plain
  <2> QED
    BY <1>1, <2>1 DEF Values, Get
<1>3. ASSUME NEW y, "v" \in DOMAIN y
      PROVE  ToSet(y.v) \subseteq Values(y)
  BY <1>3 DEF Values, Get
<1> QED
  BY <1>2, <1>3

\* Blocks that carry a content tell its values.
LEMMA CarriedValues ==
  ASSUME NEW blocks, NEW content, Carries(blocks, content), \A x \in ToSet(content) : Plain(x)
  PROVE  AllValues(content) \subseteq AllValues(blocks)
<1>1. ASSUME NEW x \in ToSet(content)
      PROVE  Values(x) \subseteq AllValues(blocks)
  <2>1. PICK y \in ToSet(blocks) : "v" \in DOMAIN y /\ y.v = x.v
    BY DEF Carries
  <2>2. Values(x) = ToSet(y.v) /\ ToSet(y.v) \subseteq Values(y)
    BY <2>1, PlainValues
  <2> QED
    BY <2>1, <2>2 DEF AllValues
<1> QED
  BY <1>1 DEF AllValues

\* The values of a record are its own, and those of its content or its parts.
LEMMA RecordTold ==
  ASSUME NEW r
  PROVE  RecordValues(r) = Values(r) \cup AllValues(Get(r, "content", <<>>))
                                     \cup AllValues(Get(r, "parts", <<>>))
BY DEF RecordValues, AllValues

\* An empty content has no values.
LEMMA NothingTold == AllValues(<<>>) = {} /\ ToSet(<<>>) = {}
BY DEF AllValues, ToSet

\* The bundle of an import that did not throw.
LEMMA Sealing ==
  ASSUME NEW made, NEW name, NEW native, NEW b, NEW pivot, Bundles(made, name, native, b, pivot)
  PROVE  /\ made.failed = FALSE /\ made.source = native /\ made.events = b.events
         /\ made.loss = b.loss /\ (Fit(b) => ValidBundle(made))
<1> DEFINE u == Unsigned(name, native, b, pivot)
           K == {"harness", "failed", "source", "events", "pivot", "loss"}
<1>1. /\ u = [k \in K |-> u[k]] /\ DOMAIN u = K
      /\ u.failed = FALSE /\ u.source = native /\ u.events = b.events /\ u.pivot = pivot
      /\ u.loss = b.loss
  BY DEF Unsigned
<1>2. "integrity" \notin K /\ (K \cup {"integrity"}) \ {"integrity"} = K
  OBVIOUS
<1> HIDE DEF u, K
<1>3. /\ DOMAIN made = K \cup {"integrity"}
      /\ \A k \in K : made[k] = u[k]
      /\ made.integrity = u
  BY <1>1, <1>2 DEF Bundles, Sealed, With, u
<1>4. Only(made, K) = u
  BY <1>1, <1>3 DEF Only
<1>5. /\ made.failed = FALSE /\ made.source = native /\ made.events = b.events
      /\ made.pivot = pivot /\ made.loss = b.loss
  BY <1>1, <1>3 DEF K
<1>6. pivot.revision = Len(b.events) /\ pivot.nextSeq = Len(b.events)
  BY DEF Bundles
<1>7. DOMAIN made \ {"integrity"} = K
  BY <1>2, <1>3
<1>8. Fit(b) => ValidBundle(made)
  BY <1>3, <1>4, <1>5, <1>6, <1>7 DEF ValidBundle, Fit
<1> QED
  BY <1>5, <1>8

\* What an import makes of a log: a bundle of it, valid unless it threw.
Made(made, native) ==
  \/ made.failed = TRUE
  \/ made.failed = FALSE /\ made.source = native /\ ValidBundle(made)

\* A builder begins with the start of the session.
LEMMA Beginning ==
  ASSUME NEW h, NEW nid, NEW ts
  PROVE  LET r == Emit(Started(h), <<"session", "started">>, [reason |-> "import"],
                       nid, ts, <<>>, 0)
         IN  Fit(r) /\ ~r.failed /\ Timed(r, ts)
<1> DEFINE b == Started(h)
           r == Emit(b, <<"session", "started">>, [reason |-> "import"], nid, ts, <<>>, 0)
<1>1. Fit(b) /\ ~b.failed
  <2>1. b.events = <<>> /\ b.failed = FALSE /\ {"events", "failed", "loss"} \subseteq DOMAIN b
    BY DEF Started
  <2>2. <<>> \in Seq(ToSet(<<>>)) /\ ToSet(<<>>) = {}
    BY DEF ToSet
  <2> HIDE DEF b
  <2> QED
    BY <2>1, <2>2 DEF Fit, Row
<1> HIDE DEF b
<1>2. ASSUME NEW e, e.type = <<"session", "started">>, e.body = [reason |-> "import"], e.corr = <<>>
      PROVE  ValidEnvelope(e)
  <2>1. e.type[1] = "session" /\ "content" \notin DOMAIN e.body
    BY <1>2
  <2>2. RequiredCorrelation(e.type[1]) \subseteq DOMAIN e.corr
    BY <2>1 DEF RequiredCorrelation
  <2> QED
    BY <2>1, <2>2, ValidByKind
<1>3. Continues(b, r) /\ ~r.failed /\ Has(r, <<"session", "started">>, [reason |-> "import"], ts)
  BY <1>1, <1>2, Emits
<1> QED
  BY <1>3, HasTells DEF Continues, b

\* It ends with the run closed and the end of the session.
LEMMA Finishing ==
  ASSUME NEW b, Fit(b), NEW ts
  PROVE  LET r == EmitEnd(EmitClose(b, "completed", ts))
         IN  Continues(b, r) /\ (~b.failed => ~r.failed)
<1> DEFINE c == EmitClose(b, "completed", ts)
<1>1. Continues(b, c) /\ (~b.failed => ~c.failed)
  BY Closes
<1> HIDE DEF c
<1>2. Continues(c, EmitEnd(c)) /\ (~c.failed => ~EmitEnd(c).failed)
  BY <1>1, Ending DEF Continues
<1> QED
  BY <1>1, <1>2, ContinuesOn DEF c

\* A fold none of whose steps fails does not fail.
LEMMA Succeeding ==
  ASSUME NEW r, NEW how, NEW ctx, NEW base, NEW s, Row(s), Fold(r, how, ctx, base, s),
         ~base.failed,
         \A b : \A k \in DOMAIN s : Fit(b) /\ ~b.failed => ~Taken(how, ctx, b, s[k]).failed
  PROVE  ~r.failed
<1> DEFINE n == Len(s)
<1>1. n \in Nat /\ DOMAIN s = 1..n
  <2>1. s \in Seq(ToSet(s))
    BY DEF Row
  <2> QED
    BY <2>1
<1>2. PICK h : /\ Stages(h, how, ctx, base, s) /\ h[n] = r
               /\ \A k \in 0..n : Fit(h[k]) /\ Continues(h[k], r)
  BY DEF Fold
<1> HIDE DEF n
<1>3. h[0] = base /\ \A k \in 1..n : h[k] = Taken(how, ctx, h[k - 1], s[k])
  BY <1>2 DEF Stages, n
<1> DEFINE T == {k \in Nat : k \in 0..n => ~h[k].failed}
<1>4. 0 \in T
  BY <1>3
<1>5. ASSUME NEW k \in Nat, k \in T
      PROVE  k + 1 \in T
  <2>1. CASE k + 1 \in 0..n
    <3>1. k \in 0..n /\ k + 1 \in 1..n /\ (k + 1) - 1 = k
      BY <1>1, <2>1
    <3>2. h[k + 1] = Taken(how, ctx, h[k], s[k + 1]) /\ Fit(h[k]) /\ ~h[k].failed
      BY <1>2, <1>3, <1>5, <3>1
    <3>3. ~Taken(how, ctx, h[k], s[k + 1]).failed
      BY <1>1, <3>1, <3>2
    <3> QED
      BY <3>2, <3>3
  <2> QED
    BY <2>1
<1>6. Nat \subseteq T
  <2> HIDE DEF T
  <2> QED
    BY <1>4, <1>5, NaturalsIn
<1> QED
  BY <1>1, <1>2, <1>6

\* A fold that did not fail goes on from the step it takes at each place.
LEMMA StageOf ==
  ASSUME NEW r, NEW how, NEW ctx, NEW base, NEW s, Row(s), Fold(r, how, ctx, base, s),
         ~r.failed, NEW k \in DOMAIN s
  PROVE  \E b : /\ Fit(b) /\ ~b.failed
                /\ ~Taken(how, ctx, b, s[k]).failed /\ Continues(Taken(how, ctx, b, s[k]), r)
<1> DEFINE n == Len(s)
<1>1. n \in Nat /\ DOMAIN s = 1..n
  <2>1. s \in Seq(ToSet(s))
    BY DEF Row
  <2> QED
    BY <2>1
<1>2. PICK h : /\ Stages(h, how, ctx, base, s) /\ h[n] = r
               /\ \A j \in 0..n : Fit(h[j]) /\ Continues(h[j], r)
  BY DEF Fold
<1> HIDE DEF n
<1>3. k \in 1..n /\ k \in 0..n /\ k - 1 \in 0..n
  BY <1>1
<1>4. h[k] = Taken(how, ctx, h[k - 1], s[k])
  BY <1>2, <1>3 DEF Stages, n
<1>5. Fit(h[k - 1]) /\ ~h[k - 1].failed /\ ~h[k].failed /\ Continues(h[k], r)
  BY <1>2, <1>3 DEF Continues
<1> QED
  BY <1>4, <1>5

\* What each step tells is told by the fold.
LEMMA Telling ==
  ASSUME NEW r, NEW how, NEW ctx, NEW base, NEW s, Row(s), Fold(r, how, ctx, base, s),
         ~r.failed, NEW k \in DOMAIN s, NEW values, NEW ts,
         \A b : Fit(b) /\ ~b.failed /\ ~Taken(how, ctx, b, s[k]).failed =>
                  Tells(Taken(how, ctx, b, s[k]), values) /\ Timed(Taken(how, ctx, b, s[k]), ts)
  PROVE  Tells(r, values) /\ Timed(r, ts)
<1>1. PICK b : /\ Fit(b) /\ ~b.failed
               /\ ~Taken(how, ctx, b, s[k]).failed /\ Continues(Taken(how, ctx, b, s[k]), r)
  BY StageOf
<1>2. Tells(Taken(how, ctx, b, s[k]), values) /\ Timed(Taken(how, ctx, b, s[k]), ts)
  BY <1>1
<1> QED
  BY <1>1, <1>2, TellsStill

-----------------------------------------------------------------------------
(* Messages as the importers emit them.                                    *)

\* Blocks none of which is a result or a call without a name.
Ordinary(content) ==
  \A x \in ToSet(content) : /\ x.type # "tool-result"
                            /\ x.type = "tool-call" => x.call # None

\* A message that answers no call.
LEMMA Speaking ==
  ASSUME NEW b, Fit(b), NEW role, NEW content, NEW nid, NEW ts, NEW corr,
         {"runId", "messageId"} \subseteq DOMAIN corr,
         DOMAIN corr \cap {"toolCallId", "toolResultId"} = {}
  PROVE  LET r == EmitMessage(b, [role |-> role, content |-> content], nid, ts, corr)
         IN  /\ Continues(b, r)
             /\ Ordinary(content) => (~b.failed => ~r.failed /\ Says(r, content, ts))
<1> DEFINE body == [role |-> role, content |-> content]
<1>1. DOMAIN body = {"role", "content"} /\ Get(body, "content", <<>>) = content
  BY DEF Get
<1> HIDE DEF body
<1>2. ASSUME Ordinary(content)
      PROVE  AboutOne(body, corr, None, None)
  BY <1>1, <1>2 DEF AboutOne, LinkedBy, Ordinary
<1>3. "state" \notin DOMAIN body
  BY <1>1
<1>4. LET r == EmitMessage(b, body, nid, ts, corr)
      IN  /\ Continues(b, r)
          /\ (\E c, q : AboutOne(body, corr, c, q)) => (~b.failed => ~r.failed /\ Says(r, content, ts))
  BY <1>1, <1>3, Messages
<1> QED
  BY <1>2, <1>4 DEF body

\* One with the result of a call, which it names in its body or does not.
LEMMA Answering ==
  ASSUME NEW b, Fit(b), NEW body, NEW x, NEW nid, NEW ts, NEW corr, NEW call, NEW result,
         {"runId", "messageId", "toolCallId", "toolResultId"} \subseteq DOMAIN corr,
         corr.toolCallId = call, corr.toolResultId = result,
         "content" \in DOMAIN body, body.content = <<x>>, "state" \notin DOMAIN body,
         "toolCallId" \in DOMAIN body => body.toolCallId = call,
         "toolResultId" \in DOMAIN body => body.toolResultId = result
  PROVE  LET r == EmitMessage(b, body, nid, ts, corr)
         IN  /\ Continues(b, r)
             /\ x.type = "tool-result" /\ x.call = call /\ x.result = result /\ call # None =>
                  (~b.failed => ~r.failed /\ Says(r, <<x>>, ts))
<1>1. Get(body, "content", <<>>) = <<x>> /\ ToSet(<<x>>) = {x}
  BY DEF Get, ToSet
<1>2. ASSUME x.type = "tool-result", x.call = call, x.result = result, call # None
      PROVE  AboutOne(body, corr, call, result)
  BY <1>1, <1>2 DEF AboutOne, LinkedBy
<1>3. LET r == EmitMessage(b, body, nid, ts, corr)
      IN  /\ Continues(b, r)
          /\ (\E c, q : AboutOne(body, corr, c, q)) => (~b.failed => ~r.failed /\ Says(r, <<x>>, ts))
  BY <1>1, Messages
<1> QED
  BY <1>2, <1>3

\* What an import emitted is in the evidence, unless it failed.
LEMMA Emitted ==
  ASSUME NEW b, Fit(b), NEW type, NEW body, NEW nid, NEW ts, NEW corr, NEW rev
  PROVE  LET r == Emit(b, type, body, nid, ts, corr, rev)
         IN  ~r.failed => Has(r, type, body, ts)
<1> DEFINE e == [id |-> EventId(b, type, nid), type |-> type, nid |-> nid, ts |-> ts,
            layer |-> "L1", authenticated |-> FALSE, authority |-> "authoritative",
            confidence |-> 1, corr |-> corr, rev |-> rev, body |-> body]
           r == Emit(b, type, body, nid, ts, corr, rev)
<1>1. e.type = type /\ e.body = body /\ e.ts = ts
  OBVIOUS
<1>2. r = IF b.failed \/ ~ValidEnvelope(e) THEN [b EXCEPT !.failed = TRUE]
          ELSE [b EXCEPT !.events = Append(@, e)]
  BY DEF Emit
<1> HIDE DEF e, r
<1>3. CASE b.failed \/ ~ValidEnvelope(e)
  BY <1>2, <1>3 DEF Fit, r
<1>4. CASE ~b.failed /\ ValidEnvelope(e)
  <2>1. r.events = Append(b.events, e)
    BY <1>2, <1>4 DEF Fit
  <2>2. e \in ToSet(r.events)
    BY <2>1, AppendRow DEF Fit
  <2> QED
    BY <1>1, <2>2 DEF Has, r
<1> QED
  BY <1>3, <1>4

\* So is a message.
LEMMA Uttered ==
  ASSUME NEW b, Fit(b), NEW body, NEW nid, NEW ts, NEW corr
  PROVE  LET r == EmitMessage(b, body, nid, ts, corr)
         IN  ~r.failed => Says(r, Get(body, "content", <<>>), ts)
<1> DEFINE s == [messageIndex |-> b.messageIndex, state |-> "completed"]
           w == With(body, s)
           b1 == Emit(b, <<"message", "completed">>, w, nid, ts, corr, 1)
           r == EmitMessage(b, body, nid, ts, corr)
<1>1. Get(w, "content", <<>>) = Get(body, "content", <<>>)
  <2>1. /\ "content" \in DOMAIN w <=> "content" \in DOMAIN body
        /\ "content" \in DOMAIN body => w.content = body.content
    BY DEF With
  <2> HIDE DEF w
  <2> QED
    BY <2>1 DEF Get
<1>2. r = [b1 EXCEPT !.messageIndex = @ + 1]
  BY DEF EmitMessage
<1> HIDE DEF w
<1>3. Fit(b1) /\ (~b1.failed => Has(b1, <<"message", "completed">>, w, ts))
  BY Emits, Emitted DEF Continues
<1> HIDE DEF b1, r
<1>4. r.events = b1.events /\ r.failed = b1.failed
  BY <1>2, <1>3 DEF Fit
<1>5. ~r.failed => Has(r, <<"message", "completed">>, w, ts)
  BY <1>3, <1>4 DEF Has
<1> QED
  BY <1>1, <1>5 DEF Says, r

\* Blocks that are results and calls of a record, all of its calls among them.
Matches(blocks, results, calls) ==
  /\ \A x \in blocks :
       /\ x.type = "tool-result" => \E y \in results : x.call = y.call /\ x.result = y.result
       /\ x.type = "tool-call" => \E y \in calls : x.call = y.call
  /\ \A y \in calls : \E x \in blocks : x.type = "tool-call" /\ x.call = y.call

\* A record that is not at odds with itself is about one call at most.
LEMMA NotAtOdds ==
  ASSUME NEW own, \A c, d \in own : c = d, NEW answers \in BOOLEAN, NEW results, NEW calls,
         ~AtOdds(own, answers, results, calls),
         NEW body, NEW corr, NEW blocks, blocks = ToSet(Get(body, "content", <<>>)),
         \A s \in {corr, body} :
           /\ "toolCallId" \in DOMAIN s => s.toolCallId \in own
           /\ "toolResultId" \in DOMAIN s => answers /\ \E c \in own : s.toolResultId = ResultOf(c),
         LinkedBy(body, corr, "toolResultId") => LinkedBy(body, corr, "toolCallId"),
         Matches(blocks, results, calls)
  PROVE  \E c, q : AboutOne(body, corr, c, q)
<1>1. \A x \in results \cup calls : x.call # None
  BY DEF AtOdds
<1>2. \A x, y \in results : x.call = y.call /\ x.result = y.result
  BY DEF AtOdds
<1>3. \A x \in results : \A c \in own : x.call = c /\ (answers => x.result = ResultOf(c))
  BY DEF AtOdds
<1>4. own # {} /\ calls # {} => \E y \in calls : y.call \in own
  BY DEF AtOdds
<1>5. ASSUME NEW c, NEW q, \A y \in results : y.call = c /\ y.result = q,
             \A d \in own : d = c, answers => \A d \in own : ResultOf(d) = q
      PROVE  AboutOne(body, corr, c, q)
  <2>1. \A s \in {corr, body} : /\ "toolCallId" \in DOMAIN s => s.toolCallId = c
                                /\ "toolResultId" \in DOMAIN s => s.toolResultId = q
    BY <1>5
  <2>2. \A x \in blocks : /\ x.type = "tool-result" => x.call = c /\ x.result = q
                          /\ x.type \in {"tool-call", "tool-result"} => x.call # None
    BY <1>1, <1>5 DEF Matches
  <2>3. ASSUME LinkedBy(body, corr, "toolCallId"), \E x \in blocks : x.type = "tool-call"
        PROVE  \E x \in blocks : x.type = "tool-call" /\ x.call = c
    <3>1. own # {} /\ calls # {}
      <4>1. own # {}
        BY <2>3 DEF LinkedBy
      <4>2. calls # {}
        BY <2>3 DEF Matches
      <4> QED
        BY <4>1, <4>2
    <3>2. PICK y \in calls : y.call \in own
      BY <1>4, <3>1
    <3>3. y.call = c
      BY <1>5, <3>2
    <3>4. \E x \in blocks : x.type = "tool-call" /\ x.call = y.call
      BY DEF Matches
    <3> QED
      BY <3>3, <3>4
  <2> QED
    BY <2>1, <2>2, <2>3 DEF AboutOne
<1>6. CASE results # {}
  <2>1. PICK z \in results : TRUE
    BY <1>6
  <2> DEFINE c == z.call
             q == z.result
  <2>2. \A y \in results : y.call = c /\ y.result = q
    BY <1>2, <2>1
  <2>3. \A d \in own : c = d /\ (answers => q = ResultOf(d))
    BY <1>3, <2>1
  <2> HIDE DEF c, q
  <2>4. \A d \in own : d = c
    BY <2>3
  <2>5. answers => \A d \in own : ResultOf(d) = q
    BY <2>3
  <2>6. AboutOne(body, corr, c, q)
    BY <1>5, <2>2, <2>4, <2>5
  <2> QED
    BY <2>6
<1>7. CASE results = {} /\ own # {}
  <2>1. PICK d \in own : TRUE
    BY <1>7
  <2> QED
    BY <1>5, <1>7, <2>1
<1>8. CASE results = {} /\ own = {}
  BY <1>5, <1>8
<1> QED
  BY <1>6, <1>7, <1>8

-----------------------------------------------------------------------------
(* Pi.                                                                     *)

\* Its blocks become canonical with their values, results and calls what they are.
LEMMA PiBlocks ==
  ASSUME NEW e, IsPiEntry(e)
  PROVE  LET content == PiBlocksToCanonical(e.content)
         IN  /\ Carries(content, e.content)
             /\ Matches(ToSet(content), AllOf(e.content, "toolResult"), AllOf(e.content, "toolCall"))
<1> DEFINE content == PiBlocksToCanonical(e.content)
           T == {"text", "thinking", "reasoning", "toolCall", "toolResult", "image"}
           Same2(x, y) ==
             /\ "v" \in DOMAIN y /\ y.v = x.v
             /\ y.type = "tool-result" => x.type = "toolResult" /\ y.call = x.call /\ y.result = x.result
             /\ y.type = "tool-call" => x.type = "toolCall"
             /\ x.type = "toolCall" => y.type = "tool-call"
             /\ x.type = "toolCall" => y.call = x.call
<1>1. \A i \in DOMAIN e.content :
        /\ Plain(e.content[i])
        /\ e.content[i].type \in {"toolCall", "toolResult"} => "call" \in DOMAIN e.content[i]
        /\ e.content[i].type = "toolResult" => "result" \in DOMAIN e.content[i]
  BY DEF IsPiEntry, ToSet
<1>2. DOMAIN PiType = T
  BY DEF PiType
<1>3. DOMAIN content = DOMAIN e.content
  BY DEF PiBlocksToCanonical
<1>4. ASSUME NEW i \in DOMAIN e.content
      PROVE  Same2(e.content[i], content[i])
  <2> DEFINE x == e.content[i]
             y == content[i]
  <2>1. y = IF x.type \in T THEN [x EXCEPT !.type = PiType[x.type]]
            ELSE IF x.type = "unknown" THEN x
            ELSE [type |-> "unknown", nativeType |-> x.type, v |-> x.v]
    BY <1>2 DEF PiBlocksToCanonical
  <2>2. /\ "type" \in DOMAIN x /\ "v" \in DOMAIN x
        /\ x.type \in {"toolCall", "toolResult"} => "call" \in DOMAIN x
        /\ x.type = "toolResult" => "result" \in DOMAIN x
    BY <1>1 DEF Plain
  <2>3. \A t \in T : /\ PiType[t] = "tool-result" => t = "toolResult"
                     /\ PiType[t] = "tool-call" => t = "toolCall"
                     /\ t = "toolCall" => PiType[t] = "tool-call"
    BY DEF PiType
  <2>4. "unknown" \notin T /\ "toolCall" \in T
    OBVIOUS
  <2> HIDE DEF x, y, content, T
  <2>5. CASE x.type \in T
    <3>1. /\ y.type = PiType[x.type] /\ y.v = x.v /\ DOMAIN y = DOMAIN x
          /\ "call" \in DOMAIN x => y.call = x.call
          /\ "result" \in DOMAIN x => y.result = x.result
      BY <2>1, <2>2, <2>5
    <3> QED
      BY <2>2, <2>3, <2>5, <3>1 DEF x, y
  <2>6. CASE x.type \notin T /\ x.type = "unknown"
    BY <2>1, <2>2, <2>6 DEF x, y
  <2>7. CASE x.type \notin T /\ x.type # "unknown"
    <3>1. y = [type |-> "unknown", nativeType |-> x.type, v |-> x.v]
      BY <2>1, <2>7
    <3>2. y.type = "unknown" /\ y.v = x.v /\ "v" \in DOMAIN y
      BY <3>1
    <3> QED
      BY <2>4, <2>7, <3>2 DEF x, y
  <2> QED
    BY <2>5, <2>6, <2>7
<1> HIDE DEF content
<1>5. Carries(content, e.content)
  BY <1>3, <1>4 DEF Carries, ToSet
<1>6. Matches(ToSet(content), AllOf(e.content, "toolResult"), AllOf(e.content, "toolCall"))
  <2>1. ASSUME NEW y \in ToSet(content)
        PROVE  \E x \in ToSet(e.content) : Same2(x, y)
    BY <1>3, <1>4 DEF ToSet
  <2>2. ASSUME NEW x \in ToSet(e.content)
        PROVE  \E y \in ToSet(content) : Same2(x, y)
    BY <1>3, <1>4 DEF ToSet
  <2> QED
    BY <2>1, <2>2 DEF Matches, AllOf
<1> QED
  BY <1>5, <1>6 DEF content

\* A message of a log is said, with the link of the call it answers, if any.
LEMMA PiSays ==
  ASSUME NEW b, Fit(b), NEW e,
         NEW link \in {<<>>, [toolCallId |-> e.call, toolResultId |-> ResultOf(e.call)]}
  PROVE  LET r == PiSaid(b, e, link)
         IN  /\ Continues(b, r)
             /\ ~r.failed => Says(r, PiBlocksToCanonical(e.content), e.ts)
             /\ IsPiEntry(e) /\ e.type = "message" /\ ~Refused("pi", e)
                /\ (link # <<>> => e.role = "toolResult" /\ e.call # None) =>
                  (~b.failed => ~r.failed)
<1> DEFINE content == PiBlocksToCanonical(e.content)
           msg == [role |-> e.role, content |-> content, isError |-> e.isError]
           named == IF e.call = None THEN <<>> ELSE [toolCallId |-> e.call]
           body == With(msg, named)
           own == MessageCorr(b, <<"message">> \o e.id)
           corr == With(own, link)
           r == PiSaid(b, e, link)
           calls == {e.call} \ {None}
           answers == e.role = "toolResult"
<1>1. r = EmitMessage(b, body, e.id, e.ts, corr)
  BY DEF PiSaid
<1>2. /\ DOMAIN link \subseteq {"toolCallId", "toolResultId"}
      /\ "toolCallId" \in DOMAIN link => link.toolCallId = e.call
      /\ "toolResultId" \in DOMAIN link => link.toolResultId = ResultOf(e.call)
      /\ "toolResultId" \in DOMAIN link => "toolCallId" \in DOMAIN link
      /\ "toolCallId" \in DOMAIN link => link # <<>>
  OBVIOUS
<1>3. /\ DOMAIN named \subseteq {"toolCallId"}
      /\ "toolCallId" \in DOMAIN named => named.toolCallId = e.call /\ e.call # None
  OBVIOUS
<1>4. DOMAIN own = {"runId", "turnId", "messageId"}
  BY DEF MessageCorr, RunCorr, With
<1> HIDE DEF named, own, content, answers, calls
<1>5. /\ DOMAIN msg = {"role", "content", "isError"} /\ msg.content = content
  OBVIOUS
<1> HIDE DEF msg
<1>6. /\ DOMAIN body = {"role", "content", "isError"} \cup DOMAIN named
      /\ body.content = content
      /\ "toolCallId" \in DOMAIN body => body.toolCallId = e.call /\ e.call # None
      /\ DOMAIN corr = {"runId", "turnId", "messageId"} \cup DOMAIN link
      /\ "toolCallId" \in DOMAIN corr => corr.toolCallId = e.call
      /\ "toolResultId" \in DOMAIN corr => corr.toolResultId = ResultOf(e.call)
  BY <1>2, <1>3, <1>4, <1>5 DEF With
<1> HIDE DEF body, corr
<1>7. Get(body, "content", <<>>) = content /\ "state" \notin DOMAIN body
  BY <1>3, <1>6 DEF Get
<1>8. ASSUME IsPiEntry(e), e.type = "message", ~Refused("pi", e),
             link # <<>> => e.role = "toolResult" /\ e.call # None
      PROVE  \E c, q : AboutOne(body, corr, c, q)
  <2> DEFINE results == AllOf(e.content, "toolResult")
             asked == AllOf(e.content, "toolCall")
             blocks == ToSet(content)
  <2>1. ~AtOdds(calls, answers, results, asked)
    BY <1>8 DEF Refused, calls, answers
  <2>2. Matches(blocks, results, asked)
    BY <1>8, PiBlocks DEF content
  <2> HIDE DEF results, asked, blocks
  <2>3. (\A c, d \in calls : c = d) /\ (\A c \in calls : c = e.call) /\ answers \in BOOLEAN
    BY DEF calls, answers
  <2>4. \A s \in {corr, body} :
          /\ "toolCallId" \in DOMAIN s => s.toolCallId \in calls
          /\ "toolResultId" \in DOMAIN s => answers /\ \E c \in calls : s.toolResultId = ResultOf(c)
    <3>1. /\ "toolCallId" \in DOMAIN corr => e.call \in calls
          /\ "toolResultId" \in DOMAIN corr => answers /\ e.call \in calls
      BY <1>2, <1>6, <1>8 DEF calls, answers
    <3>2. "toolCallId" \in DOMAIN body => e.call \in calls
      BY <1>6 DEF calls
    <3>3. "toolResultId" \notin DOMAIN body
      BY <1>3, <1>6
    <3> QED
      BY <1>6, <3>1, <3>2, <3>3
  <2>5. LinkedBy(body, corr, "toolResultId") => LinkedBy(body, corr, "toolCallId")
    BY <1>2, <1>3, <1>6 DEF LinkedBy
  <2>6. blocks = ToSet(Get(body, "content", <<>>))
    BY <1>7 DEF blocks
  <2> QED
    BY <2>1, <2>2, <2>3, <2>4, <2>5, <2>6, NotAtOdds
<1>9. {"runId", "messageId"} \subseteq DOMAIN corr
  BY <1>6
<1>10. LET q == EmitMessage(b, body, e.id, e.ts, corr)
       IN  /\ Continues(b, q)
           /\ (\E c, s : AboutOne(body, corr, c, s)) => (~b.failed => ~q.failed)
           /\ ~q.failed => Says(q, content, e.ts)
  BY <1>7, <1>9, Messages, Uttered
<1> QED
  BY <1>1, <1>8, <1>10 DEF content

\* Runs are opened and closed alike.
LEMMA PiRuns ==
  ASSUME NEW b, Fit(b), NEW seed, NEW ts
  PROVE  LET r == OpenPiRun(ClosePiRun(b), seed, ts)
         IN  Continues(b, r) /\ (~b.failed => ~r.failed)
<1> DEFINE c == EmitClose(b, "completed", LastTs(b))
           r == EmitOpen(c, <<"run">> \o seed, <<"import">> \o seed, ts)
<1>1. OpenPiRun(ClosePiRun(b), seed, ts) = r
  BY DEF OpenPiRun, ClosePiRun
<1>2. Continues(b, c) /\ (~b.failed => ~c.failed)
  BY Closes
<1> HIDE DEF c
<1>3. Continues(c, r) /\ (~c.failed => ~r.failed)
  BY <1>2, Opens DEF Continues
<1> HIDE DEF r
<1> QED
  BY <1>1, <1>2, <1>3, ContinuesOn

\* An entry that is a message is said; an answer also completes its tool.
LEMMA PiMessages ==
  ASSUME NEW b, Fit(b), NEW e, IsPiEntry(e), e.type = "message"
  PROVE  LET r == Spoken(b, e)
         IN  /\ Continues(b, r)
             /\ ~Refused("pi", e) /\ ~b.failed => ~r.failed
             /\ ~r.failed => Says(r, PiBlocksToCanonical(e.content), e.ts)
<1> DEFINE content == PiBlocksToCanonical(e.content)
           link == [toolCallId |-> e.call, toolResultId |-> ResultOf(e.call)]
           r == Spoken(b, e)
<1> HIDE DEF content
<1>1. CASE e.role # "toolResult" \/ e.call = None
  <2>1. r = PiSaid(b, e, <<>>)
    BY <1>1 DEF Spoken
  <2> QED
    BY <2>1, PiSays DEF content
<1>2. CASE ~(e.role # "toolResult" \/ e.call = None)
  <2> DEFINE s == PiSaid(b, e, link)
             corr == With(MessageCorr(b, <<"message">> \o e.id), link)
             result == [form |-> "blocks", v |-> TextOf(e.content)]
             tool == Declared(b, e.call)
  <2>1. r = EmitTool(s, tool.name, tool.args, result, e.isError, e.id, e.ts, corr)
    BY <1>2 DEF Spoken
  <2>2. /\ Continues(b, s)
        /\ ~Refused("pi", e) /\ ~b.failed => ~s.failed
        /\ ~s.failed => Says(s, content, e.ts)
    BY <1>2, PiSays DEF content
  <2>3. {"runId", "toolCallId"} \subseteq DOMAIN corr
    BY DEF MessageCorr, RunCorr, With
  <2>4. e.isError \in BOOLEAN
    BY DEF IsPiEntry
  <2> HIDE DEF s, corr, result, tool, r
  <2>5. Continues(s, r) /\ (~s.failed => ~r.failed)
    BY <2>1, <2>2, <2>3, <2>4, Tools DEF Continues
  <2>6. ~r.failed => Says(r, content, e.ts)
    <3>1. ~r.failed => Says(s, content, e.ts)
      BY <2>2, <2>5 DEF Continues
    <3> QED
      BY <2>5, <3>1, HasStill DEF Says
  <2> QED
    BY <2>2, <2>5, <2>6, ContinuesOn DEF r, content
<1> QED
  BY <1>1, <1>2

\* An entry that is taken is told, at its time.
LEMMA PiSteps ==
  ASSUME NEW b, Fit(b), NEW e, IsPiEntry(e)
  PROVE  LET r == PiStep(b, e)
         IN  /\ Continues(b, r)
             /\ ~Refused("pi", e) /\ ~b.failed => ~r.failed
             /\ ~r.failed /\ e.type # "session" =>
                  Tells(r, RecordValues(e)) /\ Timed(r, e.ts)
<1> DEFINE r == PiStep(b, e)
<1>1. /\ DOMAIN e = {"type", "id", "parent", "role", "call", "content", "isError", "v", "ts"}
      /\ IF e.type = "message" THEN e.v = <<>> ELSE e.content = <<>>
      /\ \A x \in ToSet(e.content) : Plain(x)
  BY DEF IsPiEntry, BlankEntry, Plain, ToSet
<1>2. RecordValues(e) = ToSet(e.v) \cup AllValues(e.content)
  <2>1. Values(e) = ToSet(e.v)
    BY <1>1, PlainValues DEF Plain
  <2>2. Get(e, "content", <<>>) = e.content /\ Get(e, "parts", <<>>) = <<>>
    BY <1>1 DEF Get
  <2> QED
    BY <2>1, <2>2, RecordTold, NothingTold
<1>3. CASE e.type = "session"
  <2>1. r = b
    BY <1>3 DEF PiStep
  <2> QED
    BY <1>3, <2>1 DEF Continues
<1>4. CASE e.type = "message"
  <2> DEFINE content == PiBlocksToCanonical(e.content)
             seed == IF e.id = None THEN <<"entry", Len(b.events)>> ELSE e.id
             opened == IF e.role = "user" \/ b.run = None
                       THEN OpenPiRun(ClosePiRun(b), seed, e.ts) ELSE b
             declared == DeclareCalls(opened, e)
             spoken == Spoken(declared, e)
  <2>1. r = IF e.id = None THEN [opened EXCEPT !.failed = TRUE] ELSE spoken
    BY <1>4 DEF PiStep, MessageEntry
  <2>2. Continues(b, opened) /\ (~b.failed => ~opened.failed)
    <3>1. Continues(b, b)
      BY DEF Continues
    <3> QED
      BY <3>1, PiRuns
  <2> HIDE DEF opened, r
  <2>3. Continues(opened, declared) /\ (~opened.failed => ~declared.failed)
    <3> DEFINE calls == {i \in DOMAIN e.content :
                           e.content[i].type = "toolCall" /\ e.content[i].call # None}
    <3>1. declared = IF e.role = "assistant" THEN DeclareAll(opened, e.content, calls) ELSE opened
      BY DEF DeclareCalls
    <3> HIDE DEF calls, declared
    <3>2. Continues(opened, opened) /\ Fit(opened)
      BY <2>2 DEF Continues
    <3>3. /\ Continues(opened, DeclareAll(opened, e.content, calls))
          /\ ~opened.failed => ~DeclareAll(opened, e.content, calls).failed
      BY <3>2, Declares
    <3> QED
      BY <3>1, <3>2, <3>3
  <2> HIDE DEF declared, content
  <2>4. /\ Continues(declared, spoken)
        /\ ~Refused("pi", e) /\ ~declared.failed => ~spoken.failed
        /\ ~spoken.failed => Says(spoken, content, e.ts)
    BY <1>4, <2>3, PiMessages DEF Continues, content
  <2> HIDE DEF spoken
  <2>5. Continues(b, spoken) /\ (~Refused("pi", e) /\ ~b.failed => ~spoken.failed)
    BY <2>2, <2>3, <2>4, ContinuesOn
  <2>6. ASSUME e.id = None
        PROVE  /\ Continues(b, r) /\ (~Refused("pi", e) /\ ~b.failed => ~r.failed)
               /\ ~r.failed => Tells(r, RecordValues(e)) /\ Timed(r, e.ts)
    <3> DEFINE q == [opened EXCEPT !.failed = TRUE]
    <3>1. Fit(opened)
      BY <2>2 DEF Continues
    <3>2. q.events = opened.events /\ q.failed = TRUE /\ DOMAIN q = DOMAIN opened /\ q.loss = opened.loss
      BY <3>1 DEF Fit
    <3> HIDE DEF q
    <3>3. Continues(opened, q)
      BY <3>1, <3>2 DEF Fit, Continues
    <3>4. Refused("pi", e)
      BY <1>4, <2>6 DEF Refused
    <3>5. r = q /\ r.failed = TRUE
      BY <2>1, <2>6, <3>2 DEF q
    <3> QED
      BY <2>2, <3>3, <3>4, <3>5, ContinuesOn
  <2>7. ASSUME e.id # None
        PROVE  /\ Continues(b, r) /\ (~Refused("pi", e) /\ ~b.failed => ~r.failed)
               /\ ~r.failed => Tells(r, RecordValues(e)) /\ Timed(r, e.ts)
    <3>1. AllValues(e.content) \subseteq AllValues(content)
      BY <1>1, PiBlocks, CarriedValues DEF content
    <3>2. RecordValues(e) = AllValues(e.content)
      BY <1>1, <1>2, <1>4, NothingTold
    <3>3. ~spoken.failed => Tells(spoken, AllValues(content)) /\ Timed(spoken, e.ts)
      BY <2>4, SaysTells
    <3>4. ~spoken.failed => Tells(spoken, RecordValues(e))
      BY <3>1, <3>2, <3>3 DEF Tells
    <3>5. r = spoken
      BY <2>1, <2>7
    <3> QED
      BY <2>5, <3>3, <3>4, <3>5
  <2> QED
    BY <1>4, <2>6, <2>7 DEF r
<1>5. CASE e.type # "session" /\ e.type # "message"
  <2> DEFINE body == [nativeType |-> e.type, value |-> e.v]
  <2>1. r = EmitUnknown(b, e.type, e.v, e.id, e.ts, <<>>)
    BY <1>5 DEF PiStep
  <2>2. /\ Continues(b, r)
        /\ ~b.failed => ~r.failed /\ Has(r, <<"unknown", "observed">>, body, e.ts)
    BY <2>1, Unknowns
  <2>3. Get(body, "value", <<>>) = e.v
    BY DEF Get
  <2>4. RecordValues(e) = ToSet(e.v)
    BY <1>1, <1>2, <1>5, NothingTold
  <2> HIDE DEF body
  <2>5. ~b.failed => Timed(r, e.ts) /\ Tells(r, ToSet(e.v))
    BY <2>2, <2>3, HasTells
  <2>6. ~r.failed => ~b.failed
    BY <2>2 DEF Continues
  <2> QED
    BY <2>2, <2>4, <2>5, <2>6
<1> QED
  BY <1>3, <1>4, <1>5

\* The import of a log of pi tells each of its entries, or throws at one.
LEMMA PiImports ==
  ASSUME NEW native, IsPiLog(native), NEW h
  PROVE  LET made == ImportPiSession(native, h)
         IN  \/ made.failed = TRUE /\ \E e \in ToSet(native) : Refused("pi", e)
             \/ /\ made.failed = FALSE /\ made.source = native /\ ValidBundle(made)
                /\ \A e \in ToSet(native) :
                     /\ RecordValues(e) \subseteq EvidenceValues(made.events)
                     /\ Timed(made, e.ts)
<1> DEFINE made == ImportPiSession(native, h)
           ts == native[Min({i \in DOMAIN native : native[i].type = "session"})].ts
           b0 == Emit(Started(h), <<"session", "started">>, [reason |-> "import"],
                      <<"session", 0>>, ts, <<>>, 0)
           f == FoldLeft(PiStep, b0, native)
           b == EmitEnd(EmitClose(f, "completed", LastTs(f)))
           Good == \A e \in ToSet(native) : ~Refused("pi", e)
<1>1. made = MakeBundle("pi", native, b)
  BY DEF ImportPiSession, ClosePiRun
<1>2. /\ Row(native) /\ \A i \in DOMAIN native : IsPiEntry(native[i])
      /\ \A i \in DOMAIN native : native[i].type = "session" <=> i = 1
      /\ native[1].type = "session" /\ native[1].v = <<>>
      /\ Good => \A i \in DOMAIN native : ~Refused("pi", native[i])
  BY DEF IsPiLog, Row, ToSet
<1> HIDE DEF Good
<1>3. Fit(b0) /\ ~b0.failed /\ Timed(b0, ts)
  BY Beginning
<1> HIDE DEF b0
<1>4. \A x, y : Taken("pi", <<>>, x, y) = PiStep(x, y)
  BY DEF Taken
<1>5. Fold(f, "pi", <<>>, b0, native) /\ Continues(b0, f)
  <2>1. \E g : Iterates(g, "pi", <<>>, b0, native, DOMAIN native) /\ f = g[DOMAIN native]
    BY <1>2, PiFold
  <2>2. \A x : \A k \in DOMAIN native : Fit(x) => Continues(x, Taken("pi", <<>>, x, native[k]))
    BY <1>2, <1>4, PiSteps
  <2> HIDE DEF f
  <2> QED
    BY <1>2, <1>3, <2>1, <2>2, Folding
<1> HIDE DEF f
<1>6. Good => ~f.failed
  <2> SUFFICES ASSUME Good
               PROVE  ~f.failed
    OBVIOUS
  <2>1. \A x : \A k \in DOMAIN native :
          Fit(x) /\ ~x.failed => ~Taken("pi", <<>>, x, native[k]).failed
    BY <1>2, <1>4, PiSteps
  <2> QED
    BY <1>2, <1>3, <1>5, <2>1, Succeeding
<1>7. Continues(f, b) /\ (~f.failed => ~b.failed)
  BY <1>5, Finishing DEF Continues
<1> HIDE DEF b
<1>8. ASSUME ~f.failed, NEW i \in DOMAIN native, i # 1
      PROVE  Tells(f, RecordValues(native[i])) /\ Timed(f, native[i].ts)
  <2> DEFINE vs == RecordValues(native[i])
             at == native[i].ts
  <2>1. \A x : Fit(x) /\ ~x.failed /\ ~Taken("pi", <<>>, x, native[i]).failed =>
          Tells(Taken("pi", <<>>, x, native[i]), vs) /\ Timed(Taken("pi", <<>>, x, native[i]), at)
    BY <1>2, <1>4, <1>8, PiSteps
  <2> HIDE DEF vs, at
  <2>2. Tells(f, vs) /\ Timed(f, at)
    BY <1>2, <1>5, <1>8, <2>1, Telling
  <2> QED
    BY <2>2 DEF vs, at
<1>9. ASSUME 1 \in DOMAIN native
      PROVE  Tells(f, RecordValues(native[1])) /\ Timed(f, native[1].ts)
  <2>1. {i \in DOMAIN native : native[i].type = "session"} = {1}
    BY <1>2, <1>9
  <2>2. Min({1}) = 1
    <3>1. \A x \in {1} : \A y \in {1} : x <= y
      OBVIOUS
    <3> QED
      BY <3>1 DEF Min
  <2>3. ts = native[1].ts
    BY <2>1, <2>2
  <2>4. RecordValues(native[1]) = {}
    <3>1. /\ DOMAIN native[1] = {"type", "id", "parent", "role", "call", "content", "isError", "v", "ts"}
          /\ native[1].content = <<>>
      BY <1>2, <1>9 DEF IsPiEntry, BlankEntry
    <3>2. Values(native[1]) = {}
      BY <1>2, <3>1, PlainValues, NothingTold DEF Plain
    <3>3. Get(native[1], "content", <<>>) = <<>> /\ Get(native[1], "parts", <<>>) = <<>>
      BY <3>1 DEF Get
    <3> QED
      BY <3>2, <3>3, RecordTold, NothingTold
  <2> QED
    BY <1>3, <1>5, <2>3, <2>4, TellsStill DEF Tells
<1>10. CASE b.failed
  <2>1. made = [harness |-> "pi", failed |-> TRUE]
    BY <1>1, <1>10, Makes
  <2>2. made.failed = TRUE
    BY <2>1
  <2>3. ~Good
    BY <1>6, <1>7, <1>10
  <2> QED
    BY <2>2, <2>3 DEF Good
<1>11. CASE ~b.failed
  <2>1. PICK pivot : Bundles(made, "pi", native, b, pivot)
    BY <1>1, <1>11, Makes
  <2> HIDE DEF made
  <2>2. made.failed = FALSE /\ made.source = native /\ made.events = b.events /\ ValidBundle(made)
    BY <1>7, <2>1, Sealing DEF Continues
  <2>3. ~f.failed
    BY <1>7, <1>11 DEF Continues
  <2>4. \A i \in DOMAIN native : Tells(b, RecordValues(native[i])) /\ Timed(b, native[i].ts)
    BY <1>7, <1>8, <1>9, <2>3, TellsStill
  <2> QED
    BY <2>2, <2>4 DEF Tells, Timed, ToSet, made
<1> QED
  BY <1>10, <1>11

-----------------------------------------------------------------------------
(* Codex.                                                                  *)

\* The values of a record are where its kind has them.
LEMMA CodexValues ==
  ASSUME NEW r, IsRecord(r)
  PROVE  /\ RecordValues(r) = ToSet(r.v) \cup ToSet(r.summary) \cup ToSet(r.enc)
                              \cup ToSet(r.output.v) \cup AllValues(r.content)
         /\ \A x \in ToSet(r.content) : Plain(x)
         /\ r.type # "response_item" => RecordValues(r) = ToSet(r.v)
         /\ r.type = "response_item" =>
              /\ r.item = "message" => RecordValues(r) = AllValues(r.content)
              /\ r.item = "reasoning" => RecordValues(r) = ToSet(r.summary) \cup ToSet(r.enc)
              /\ r.item = "function_call_output" => RecordValues(r) = ToSet(r.output.v)
              /\ r.item \notin {"message", "reasoning", "function_call_output"} =>
                   RecordValues(r) = ToSet(r.v)
<1>1. /\ DOMAIN r = {"type", "item", "role", "call", "content", "output", "summary", "enc", "v", "ts"}
      /\ \A key \in {"v", "content", "summary", "enc"} \ Carriers(r) : r[key] = <<>>
      /\ "output" \notin Carriers(r) => r.output.v = <<>>
      /\ \A x \in ToSet(r.content) : Plain(x)
  BY DEF IsRecord, BlankRecord, Plain, ToSet
<1>2. Get(r, "content", <<>>) = r.content /\ Get(r, "parts", <<>>) = <<>>
  BY <1>1 DEF Get
<1>3. Values(r) = ToSet(r.v) \cup ToSet(r.summary) \cup ToSet(r.enc) \cup ToSet(r.output.v)
  <2>1. /\ Get(r, "v", <<>>) = r.v /\ Get(r, "summary", <<>>) = r.summary
        /\ Get(r, "enc", <<>>) = r.enc /\ Get(r, "att", <<>>) = <<>>
    BY <1>1 DEF Get
  <2> QED
    BY <1>1, <2>1, NothingTold DEF Values
<1>4. RecordValues(r) = ToSet(r.v) \cup ToSet(r.summary) \cup ToSet(r.enc)
                        \cup ToSet(r.output.v) \cup AllValues(r.content)
  BY <1>2, <1>3, RecordTold, NothingTold
<1>5. Carriers(r) = IF r.type # "response_item" THEN {"v"}
                    ELSE IF r.item = "message" THEN {"content"}
                    ELSE IF r.item = "reasoning" THEN {"summary", "enc"}
                    ELSE IF r.item = "function_call_output" THEN {"output"} ELSE {"v"}
  BY DEF Carriers
<1> QED
  BY <1>1, <1>4, <1>5, NothingTold

\* The blocks of a message keep their values.
LEMMA CodexBlocks ==
  ASSUME NEW content, \A x \in ToSet(content) : Plain(x)
  PROVE  /\ Carries(MessageContentToBlocks(content), content)
         /\ Ordinary(MessageContentToBlocks(content))
<1> DEFINE blocks == MessageContentToBlocks(content)
           T == {"input_text", "output_text", "text", "input_image", "image"}
<1>1. DOMAIN CodexType = T /\ \A t \in T : CodexType[t] \in {"text", "image"}
  BY DEF CodexType
<1>2. DOMAIN blocks = DOMAIN content
  BY DEF MessageContentToBlocks
<1>3. ASSUME NEW i \in DOMAIN content
      PROVE  /\ "v" \in DOMAIN blocks[i] /\ blocks[i].v = content[i].v
             /\ blocks[i].type \in {"text", "image", "unknown"}
  <2> DEFINE x == content[i]
  <2>1. blocks[i] = IF x.type \in T THEN [x EXCEPT !.type = CodexType[x.type]]
                    ELSE [type |-> "unknown", nativeType |-> x.type, v |-> x.v]
    BY <1>1 DEF MessageContentToBlocks
  <2>2. "type" \in DOMAIN x /\ "v" \in DOMAIN x
    BY DEF Plain, ToSet
  <2> HIDE DEF x, blocks, T
  <2>3. CASE x.type \in T
    <3>1. blocks[i].type = CodexType[x.type] /\ blocks[i].v = x.v /\ "v" \in DOMAIN blocks[i]
      BY <2>1, <2>2, <2>3
    <3> QED
      BY <1>1, <2>3, <3>1 DEF x
  <2>4. CASE x.type \notin T
    <3>1. blocks[i] = [type |-> "unknown", nativeType |-> x.type, v |-> x.v]
      BY <2>1, <2>4
    <3> QED
      BY <3>1 DEF x
  <2> QED
    BY <2>3, <2>4
<1> HIDE DEF blocks
<1>4. Carries(blocks, content) /\ Ordinary(blocks)
  BY <1>2, <1>3 DEF Carries, Ordinary, ToSet
<1> QED
  BY <1>4 DEF blocks

\* So do those of reasoning.
LEMMA ReasoningTold ==
  ASSUME NEW r
  PROVE  /\ Ordinary(ReasoningBlocks(r))
         /\ ToSet(r.summary) \cup ToSet(r.enc) \subseteq AllValues(ReasoningBlocks(r))
<1> DEFINE x == [type |-> "thinking", v |-> r.summary]
           y == [type |-> "unknown", nativeType |-> Reasoning, summary |-> r.summary,
                 enc |-> r.enc, v |-> <<>>]
           blocks == ReasoningBlocks(r)
<1>1. blocks = (IF r.summary = <<>> THEN <<>> ELSE <<x>>)
               \o (IF r.enc = <<>> /\ r.summary = <<>> THEN <<>> ELSE <<y>>)
  BY DEF ReasoningBlocks
<1>2. ToSet(r.summary) \cup ToSet(r.enc) \subseteq Values(y)
  BY DEF Values, Get
<1>3. x.type = "thinking" /\ y.type = "unknown"
  OBVIOUS
<1> HIDE DEF x, y, blocks
<1>4. /\ <<>> \o <<>> = <<>> /\ <<>> \o <<y>> = <<y>> /\ <<x>> \o <<y>> = <<x, y>>
      /\ ToSet(<<y>>) = {y} /\ ToSet(<<x, y>>) = {x, y} /\ ToSet(<<>>) = {}
  <2>1. <<>> \o <<>> = <<>>
    OBVIOUS
  <2>2. <<>> \o <<y>> = <<y>>
    OBVIOUS
  <2>3. <<x>> \o <<y>> = <<x, y>>
    <3> DEFINE S == {x, y}
    <3>1. <<x>> \in Seq(S) /\ <<y>> \in Seq(S) /\ Len(<<x>>) = 1 /\ Len(<<y>>) = 1
      OBVIOUS
    <3>2. /\ <<x>> \o <<y>> \in Seq(S) /\ Len(<<x>> \o <<y>>) = 2
          /\ (<<x>> \o <<y>>)[1] = x /\ (<<x>> \o <<y>>)[2] = y
      BY <3>1, ConcatProperties
    <3>3. /\ <<x, y>> \in Seq(S) /\ Len(<<x, y>>) = 2
          /\ <<x, y>>[1] = x /\ <<x, y>>[2] = y
      OBVIOUS
    <3>4. \A i \in 1..2 : i = 1 \/ i = 2
      OBVIOUS
    <3> DEFINE u == <<x>> \o <<y>>
               w == <<x, y>>
    <3> HIDE DEF S, u, w
    <3>5. \A i \in 1..Len(u) : u[i] = w[i]
      BY <3>2, <3>3, <3>4 DEF u, w
    <3>6. u \in Seq(S) /\ w \in Seq(S) /\ Len(u) = Len(w)
      BY <3>2, <3>3 DEF u, w
    <3>7. u = w
      BY <3>5, <3>6, SeqEqual
    <3> QED
      BY <3>7 DEF u, w
  <2>4. ToSet(<<y>>) = {y}
    BY DEF ToSet
  <2>5. ToSet(<<x, y>>) = {x, y}
    BY DEF ToSet
  <2>6. ToSet(<<>>) = {}
    BY DEF ToSet
  <2> QED
    BY <2>1, <2>2, <2>3, <2>4, <2>5, <2>6
<1>5. CASE r.summary = <<>> /\ r.enc = <<>>
  BY <1>1, <1>4, <1>5 DEF Ordinary, AllValues, blocks
<1>6. CASE ~(r.summary = <<>> /\ r.enc = <<>>)
  <2>1. blocks \in {<<y>>, <<x, y>>}
    BY <1>1, <1>4, <1>6
  <2>2. y \in ToSet(blocks) /\ ToSet(blocks) \subseteq {x, y}
    BY <1>4, <2>1
  <2> QED
    BY <1>2, <1>3, <2>2 DEF Ordinary, AllValues, blocks
<1> QED
  BY <1>5, <1>6

\* Runs are opened and closed as those of pi are.
LEMMA CodexRuns ==
  ASSUME NEW b, Fit(b), NEW i, NEW ts
  PROVE  /\ LET r == OpenCodexRun(b, i, ts) IN Continues(b, r) /\ (~b.failed => ~r.failed)
         /\ LET r == EnsureCodexRun(b, i, ts) IN Continues(b, r) /\ (~b.failed => ~r.failed)
         /\ \A state \in {"completed", "cancelled"} :
              /\ Continues(b, CloseCodexRun(b, state))
              /\ ~b.failed => ~CloseCodexRun(b, state).failed
<1>1. Continues(b, OpenCodexRun(b, i, ts)) /\ (~b.failed => ~OpenCodexRun(b, i, ts).failed)
  BY Opens DEF OpenCodexRun
<1>2. EnsureCodexRun(b, i, ts) \in {b, OpenCodexRun(b, i, ts)}
  BY DEF EnsureCodexRun
<1>3. Continues(b, b)
  BY DEF Continues
<1>4. ASSUME NEW state \in {"completed", "cancelled"}
      PROVE  /\ Continues(b, CloseCodexRun(b, state))
             /\ ~b.failed => ~CloseCodexRun(b, state).failed
  BY Closes DEF CloseCodexRun
<1> QED
  BY <1>1, <1>2, <1>3, <1>4

\* What is observed in the current run is told.
LEMMA CodexObserves ==
  ASSUME NEW b, Fit(b), NEW nativeType, NEW r
  PROVE  LET q == InRun(b, nativeType, r)
         IN  /\ Continues(b, q)
             /\ ~b.failed => ~q.failed /\ Tells(q, ToSet(r.v)) /\ Timed(q, r.ts)
<1> DEFINE body == [nativeType |-> nativeType, value |-> r.v]
           q == InRun(b, nativeType, r)
<1>1. q = EmitUnknown(b, nativeType, r.v, None, r.ts, RunCorr(b.run))
  BY DEF InRun
<1>2. Continues(b, q) /\ (~b.failed => ~q.failed /\ Has(q, <<"unknown", "observed">>, body, r.ts))
  BY <1>1, Unknowns
<1>3. Get(body, "value", <<>>) = r.v
  BY DEF Get
<1> HIDE DEF q, body
<1> QED
  BY <1>2, <1>3, HasTells DEF q

\* So is an item of the conversation.
LEMMA CodexItems ==
  ASSUME NEW b, Fit(b), NEW r, IsRecord(r), r.type = "response_item", NEW i
  PROVE  LET q == ResponseItem(b, r, i)
         IN  /\ Continues(b, q)
             /\ ~b.failed => ~q.failed
             /\ ~b.failed => LeftOut("codex", r, q.loss)
                             \/ (Tells(q, RecordValues(r)) /\ Timed(q, r.ts))
<1> DEFINE q == ResponseItem(b, r, i)
           corr == RecordCorr(b, i)
<1>1. DOMAIN corr = {"runId", "turnId", "messageId"}
  BY DEF RecordCorr, MessageCorr, RunCorr, With
<1> HIDE DEF q, corr
<1>3. CASE r.item = "message"
  <2> DEFINE content == MessageContentToBlocks(r.content)
             role == IF r.role \in {"user", "assistant", "system"} THEN r.role ELSE "unknown"
  <2>1. q = EmitMessage(b, [role |-> role, content |-> content], None, r.ts, corr)
    BY <1>3 DEF ResponseItem, CodexMessage, q, corr
  <2>2. /\ Carries(content, r.content) /\ Ordinary(content)
        /\ \A x \in ToSet(r.content) : Plain(x)
    BY CodexValues, CodexBlocks
  <2> HIDE DEF content, role
  <2>3. Continues(b, q) /\ (~b.failed => ~q.failed /\ Says(q, content, r.ts))
    BY <1>1, <2>1, <2>2, Speaking
  <2>4. RecordValues(r) \subseteq AllValues(content)
    BY <1>3, <2>2, CarriedValues, CodexValues
  <2> QED
    BY <2>3, <2>4, SaysTells DEF Tells, q
<1>4. CASE r.item = "reasoning"
  <2> DEFINE content == ReasoningBlocks(r)
  <2>1. q = EmitMessage(b, [role |-> "assistant", content |-> content], None, r.ts, corr)
    BY <1>4 DEF ResponseItem, q, corr
  <2>2. Ordinary(content) /\ ToSet(r.summary) \cup ToSet(r.enc) \subseteq AllValues(content)
    BY ReasoningTold
  <2> HIDE DEF content
  <2>3. Continues(b, q) /\ (~b.failed => ~q.failed /\ Says(q, content, r.ts))
    BY <1>1, <2>1, <2>2, Speaking
  <2>4. RecordValues(r) \subseteq AllValues(content)
    BY <1>4, <2>2, CodexValues
  <2> QED
    BY <2>3, <2>4, SaysTells DEF Tells, q
<1>5. CASE r.item = "function_call"
  <2> DEFINE call == IF r.call = None THEN <<"call", -i>> ELSE r.call
             x == [type |-> "tool-call", call |-> call, v |-> r.v]
             c == Declare(b, call, r.v)
  <2>1. q = EmitMessage(c, [role |-> "assistant", content |-> <<x>>], None, r.ts, corr)
    BY <1>5 DEF ResponseItem, FunctionCall, q, corr
  <2>2. call # None
    BY DEF None
  <2>3. Continues(b, c) /\ (~b.failed => ~c.failed)
    BY Declares
  <2>4. x.type = "tool-call" /\ x.call = call /\ x.v = r.v /\ "v" \in DOMAIN x
    OBVIOUS
  <2> HIDE DEF call, x, c
  <2>5. ToSet(<<x>>) = {x}
    BY DEF ToSet
  <2>6. Ordinary(<<x>>) /\ ToSet(r.v) \subseteq AllValues(<<x>>)
    BY <2>2, <2>4, <2>5, PlainValues DEF Ordinary, AllValues
  <2>7. Continues(c, q) /\ (~c.failed => ~q.failed /\ Says(q, <<x>>, r.ts))
    BY <1>1, <2>1, <2>3, <2>6, Speaking DEF Continues
  <2>8. RecordValues(r) = ToSet(r.v)
    BY <1>5, CodexValues
  <2>9. Continues(b, q)
    BY <2>3, <2>7, ContinuesOn
  <2> QED
    BY <2>3, <2>6, <2>7, <2>8, <2>9, SaysTells DEF Tells, q
<1>6. CASE r.item = "function_call_output" /\ r.call = None
  <2> DEFINE why == "function_call_output without call_id"
  <2>1. q = Lose(b, why)
    BY <1>6 DEF ResponseItem, FunctionCallOutput, q
  <2>2. Continues(b, Lose(b, why)) /\ (~b.failed => ~Lose(b, why).failed)
    BY Declares
  <2>3. why \in q.loss
    BY <2>1 DEF Lose, Fit
  <2>4. LeftOut("codex", r, q.loss)
    BY <1>6, <2>3 DEF LeftOut
  <2> QED
    BY <2>1, <2>2, <2>4 DEF q
<1>7. CASE r.item = "function_call_output" /\ r.call # None
  <2> DEFINE result == ResultOf(r.call)
             link == [toolCallId |-> r.call, toolResultId |-> result]
             full == With(corr, link)
             x == [type |-> "tool-result", call |-> r.call, result |-> result,
                   content |-> r.output, isError |-> FALSE, v |-> r.output.v]
             body == [role |-> "tool", content |-> <<x>>, toolCallId |-> r.call,
                      toolResultId |-> result]
             tool == Declared(b, r.call)
             c == EmitMessage(b, body, None, r.ts, full)
  <2>1. r.call # None
    BY <1>7
  <2>2. q = EmitTool(c, tool.name, tool.args, r.output, FALSE, None, r.ts, full)
    BY <1>7, <2>1 DEF ResponseItem, FunctionCallOutput, q, corr
  <2>3. /\ DOMAIN full = {"runId", "turnId", "messageId", "toolCallId", "toolResultId"}
        /\ full.toolCallId = r.call /\ full.toolResultId = result
    BY <1>1 DEF With
  <2>4. /\ x.type = "tool-result" /\ x.call = r.call /\ x.result = result
        /\ x.v = r.output.v /\ "v" \in DOMAIN x
        /\ DOMAIN body = {"role", "content", "toolCallId", "toolResultId"}
        /\ body.content = <<x>> /\ body.toolCallId = r.call /\ body.toolResultId = result
    OBVIOUS
  <2> HIDE DEF result, full, x, body, tool
  <2>5. Continues(b, c) /\ (~b.failed => ~c.failed /\ Says(c, <<x>>, r.ts))
    BY <2>1, <2>3, <2>4, Answering
  <2> HIDE DEF c
  <2>6. Continues(c, q) /\ (~c.failed => ~q.failed)
    BY <2>2, <2>3, <2>5, Tools DEF Continues
  <2>7. Continues(b, q)
    BY <2>5, <2>6, ContinuesOn
  <2>8. Says(c, <<x>>, r.ts) => Says(q, <<x>>, r.ts)
    BY <2>6, HasStill DEF Says
  <2>9. ToSet(<<x>>) = {x}
    BY DEF ToSet
  <2>10. RecordValues(r) \subseteq AllValues(<<x>>)
    BY <1>7, <2>4, <2>9, CodexValues, PlainValues DEF AllValues
  <2> QED
    BY <2>5, <2>6, <2>7, <2>8, <2>10, SaysTells DEF Tells, q
<1>8. CASE r.item \notin {"message", "reasoning", "function_call", "function_call_output"}
  <2>1. q = InRun(b, r.item, r)
    BY <1>8 DEF ResponseItem, q
  <2>2. RecordValues(r) = ToSet(r.v)
    BY <1>8, CodexValues
  <2> QED
    BY <2>1, <2>2, CodexObserves DEF q
<1> QED
  BY <1>3, <1>4, <1>5, <1>7, <1>8, <1>6

\* A record is told, at its time, or is one of those that are left out.
LEMMA CodexSteps ==
  ASSUME NEW b, Fit(b), NEW r, IsRecord(r), NEW i
  PROVE  LET q == CodexStep(b, r, i)
         IN  /\ Continues(b, q)
             /\ ~b.failed => ~q.failed
             /\ ~b.failed => LeftOut("codex", r, q.loss)
                             \/ (Tells(q, RecordValues(r)) /\ Timed(q, r.ts))
<1> DEFINE q == CodexStep(b, r, i)
<1>1. CASE r.type \notin {"turn_context", "event_msg", "response_item"}
  <2> DEFINE native == IF r.type = "session_meta" THEN "codex.session_meta" ELSE r.type
             body == [nativeType |-> native, value |-> r.v]
  <2>1. q = EmitUnknown(b, native, r.v, None, r.ts, <<>>)
    BY <1>1 DEF CodexStep
  <2> HIDE DEF native, q
  <2>2. Continues(b, q) /\ (~b.failed => ~q.failed /\ Has(q, <<"unknown", "observed">>, body, r.ts))
    BY <2>1, Unknowns
  <2>3. Get(body, "value", <<>>) = r.v
    BY DEF Get
  <2> HIDE DEF body
  <2>4. RecordValues(r) = ToSet(r.v)
    BY <1>1, CodexValues
  <2> QED
    BY <2>2, <2>3, <2>4, HasTells DEF q
<1>2. CASE r.type = "turn_context"
  <2> DEFINE c == CloseCodexRun(b, "completed")
             d == OpenCodexRun(c, i, r.ts)
  <2>1. q = InRun(d, "codex.turn_context", r)
    BY <1>2 DEF CodexStep, TurnContext
  <2>2. Continues(b, c) /\ (~b.failed => ~c.failed)
    BY CodexRuns
  <2> HIDE DEF c, q
  <2>3. Continues(c, d) /\ (~c.failed => ~d.failed)
    BY <2>2, CodexRuns DEF Continues
  <2> HIDE DEF d
  <2>4. /\ Continues(d, q)
        /\ ~d.failed => ~q.failed /\ Tells(q, ToSet(r.v)) /\ Timed(q, r.ts)
    BY <2>1, <2>3, CodexObserves DEF Continues
  <2>5. RecordValues(r) = ToSet(r.v)
    BY <1>2, CodexValues
  <2>6. Continues(b, q)
    BY <2>2, <2>3, <2>4, ContinuesOn
  <2> QED
    BY <2>2, <2>3, <2>4, <2>5, <2>6 DEF q
<1>3. CASE r.type = "event_msg"
  <2> DEFINE c == EnsureCodexRun(b, i, r.ts)
             d == InRun(c, r.item, r)
             e == CloseCodexRun(d, "cancelled")
  <2>1. /\ r.item = "token_count" => q = d
        /\ r.item = "turn_aborted" => q = e
        /\ r.item \notin {"token_count", "turn_aborted"} => q = b
    BY <1>3 DEF CodexStep, EventMsg
  <2>2. r.item \in {"token_count", "turn_aborted"} \/ LeftOut("codex", r, q.loss)
    BY <1>3 DEF LeftOut, Retained
  <2>3. Continues(b, c) /\ (~b.failed => ~c.failed)
    BY CodexRuns
  <2> HIDE DEF c, q
  <2>4. /\ Continues(c, d)
        /\ ~c.failed => ~d.failed /\ Tells(d, ToSet(r.v)) /\ Timed(d, r.ts)
    BY <2>3, CodexObserves DEF Continues
  <2> HIDE DEF d
  <2>5. Continues(d, e) /\ (~d.failed => ~e.failed)
    BY <2>4, CodexRuns DEF Continues
  <2> HIDE DEF e
  <2>6. RecordValues(r) = ToSet(r.v)
    BY <1>3, CodexValues
  <2>7. Continues(b, d) /\ Continues(b, e) /\ Continues(b, b)
    <3>1. Continues(b, d)
      BY <2>3, <2>4, ContinuesOn
    <3>2. Continues(b, e)
      BY <2>5, <3>1, ContinuesOn
    <3> QED
      BY <3>1, <3>2 DEF Continues
  <2>8. (Tells(d, ToSet(r.v)) => Tells(e, ToSet(r.v))) /\ (Timed(d, r.ts) => Timed(e, r.ts))
    BY <2>5, TellsStill
  <2>9. CASE r.item = "token_count"
    BY <2>1, <2>3, <2>4, <2>6, <2>7, <2>9 DEF q
  <2>10. CASE r.item = "turn_aborted"
    BY <2>1, <2>3, <2>4, <2>5, <2>6, <2>7, <2>8, <2>10 DEF q
  <2>11. CASE r.item \notin {"token_count", "turn_aborted"}
    BY <1>3, <2>1, <2>2, <2>7, <2>11 DEF q
  <2> QED
    BY <2>9, <2>10, <2>11
<1>4. CASE r.type = "response_item"
  <2> DEFINE c == EnsureCodexRun(b, i, r.ts)
  <2>1. q = ResponseItem(c, r, i)
    BY <1>4 DEF CodexStep
  <2>2. Continues(b, c) /\ (~b.failed => ~c.failed)
    BY CodexRuns
  <2> HIDE DEF c, q
  <2>3. /\ Continues(c, q)
        /\ ~c.failed => ~q.failed
        /\ ~c.failed => LeftOut("codex", r, q.loss)
                        \/ (Tells(q, RecordValues(r)) /\ Timed(q, r.ts))
    BY <1>4, <2>1, <2>2, CodexItems DEF Continues
  <2>4. Continues(b, q)
    BY <2>2, <2>3, ContinuesOn
  <2> QED
    BY <2>2, <2>3, <2>4 DEF q
<1> QED
  BY <1>1, <1>2, <1>3, <1>4

\* The import of a rollout never throws, and tells each of its other records.
LEMMA CodexImports ==
  ASSUME NEW native, IsCodexLog(native), NEW h
  PROVE  LET made == ImportCodexSession(native, h)
         IN  /\ made.failed = FALSE /\ made.source = native /\ ValidBundle(made)
             /\ \A r \in ToSet(native) :
                  \/ LeftOut("codex", r, made.loss)
                  \/ RecordValues(r) \subseteq EvidenceValues(made.events) /\ Timed(made, r.ts)
<1> DEFINE made == ImportCodexSession(native, h)
           ts == native[Min({i \in DOMAIN native : native[i].type = "session_meta"})].ts
           b0 == Emit(Started(h), <<"session", "started">>, [reason |-> "import"],
                      None, ts, <<>>, 0)
           f == FoldLeftDomain(LAMBDA x, i : CodexStep(x, native[i], i), b0, native)
           b == EmitEnd(EmitClose(f, "completed", LastTs(f)))
           s == Indices(native)
<1>1. made = MakeBundle("codex", native, b)
  BY DEF ImportCodexSession, CloseCodexRun
<1>2. /\ Row(native) /\ \A i \in DOMAIN native : IsRecord(native[i])
      /\ Row(s) /\ DOMAIN s = DOMAIN native /\ \A i \in DOMAIN native : s[i] = i
  <2>1. Row(native) /\ \A i \in DOMAIN native : IsRecord(native[i])
    BY DEF IsCodexLog, Row, ToSet
  <2> QED
    BY <2>1, PlacesRow
<1>3. Fit(b0) /\ ~b0.failed
  BY Beginning
<1> HIDE DEF b0
<1>4. \A x : \A k \in DOMAIN native :
        Taken("codex", native, x, s[k]) = CodexStep(x, native[k], k)
  BY <1>2 DEF Taken
<1>5. Fold(f, "codex", native, b0, s) /\ Continues(b0, f)
  <2>1. \E g : Iterates(g, "codex", native, b0, s, DOMAIN s) /\ f = g[DOMAIN s]
    BY <1>2, CodexFold
  <2>2. \A x : \A k \in DOMAIN s : Fit(x) => Continues(x, Taken("codex", native, x, s[k]))
    BY <1>2, <1>4, CodexSteps
  <2> HIDE DEF f, s
  <2> QED
    BY <1>2, <1>3, <2>1, <2>2, Folding
<1> HIDE DEF f, s
<1>6. ~f.failed
  <2>1. \A x : \A k \in DOMAIN s : Fit(x) /\ ~x.failed => ~Taken("codex", native, x, s[k]).failed
    BY <1>2, <1>4, CodexSteps
  <2> QED
    BY <1>2, <1>3, <1>5, <2>1, Succeeding
<1>7. Continues(f, b) /\ ~b.failed
  BY <1>5, <1>6, Finishing DEF Continues
<1> HIDE DEF b
<1>8. PICK pivot : Bundles(made, "codex", native, b, pivot)
  BY <1>1, <1>7, Makes
<1> HIDE DEF made
<1>9. /\ made.failed = FALSE /\ made.source = native /\ made.events = b.events
      /\ made.loss = b.loss /\ ValidBundle(made)
  <2>1. Fit(b)
    BY <1>7 DEF Continues
  <2>2. /\ made.failed = FALSE /\ made.source = native /\ made.events = b.events
        /\ made.loss = b.loss /\ (Fit(b) => ValidBundle(made))
    BY <1>8, Sealing
  <2> QED
    BY <2>1, <2>2
<1>10. ASSUME NEW i \in DOMAIN native
       PROVE  \/ LeftOut("codex", native[i], b.loss)
              \/ Tells(b, RecordValues(native[i])) /\ Timed(b, native[i].ts)
  <2>1. PICK x : /\ Fit(x) /\ ~x.failed
                 /\ ~Taken("codex", native, x, s[i]).failed
                 /\ Continues(Taken("codex", native, x, s[i]), f)
    BY <1>2, <1>5, <1>6, StageOf
  <2> DEFINE q == CodexStep(x, native[i], i)
  <2>2. q = Taken("codex", native, x, s[i])
    BY <1>4
  <2>3. \/ LeftOut("codex", native[i], q.loss)
        \/ Tells(q, RecordValues(native[i])) /\ Timed(q, native[i].ts)
    BY <1>2, <2>1, CodexSteps
  <2> HIDE DEF q
  <2>4. Continues(q, b)
    BY <1>7, <2>1, <2>2, ContinuesOn
  <2>5. LeftOut("codex", native[i], q.loss) => LeftOut("codex", native[i], b.loss)
    BY <2>4 DEF Continues, LeftOut
  <2> QED
    BY <2>3, <2>4, <2>5, TellsStill
<1> QED
  BY <1>9, <1>10 DEF Tells, Timed, ToSet, made

-----------------------------------------------------------------------------
(* Claude.  Its messages are put together of the blocks of several entries. *)

\* The concatenation of two sequences has the members of both.
LEMMA ConcatRow ==
  ASSUME NEW s, Row(s), NEW t, Row(t)
  PROVE  Row(s \o t) /\ ToSet(s \o t) = ToSet(s) \cup ToSet(t)
<1> DEFINE S == ToSet(s) \cup ToSet(t)
           u == s \o t
<1>1. s \in Seq(S) /\ t \in Seq(S)
  <2>1. s \in Seq(ToSet(s)) /\ t \in Seq(ToSet(t))
    BY DEF Row
  <2> QED
    BY <2>1
<1>2. /\ u \in Seq(S) /\ Len(u) = Len(s) + Len(t) /\ Len(s) \in Nat /\ Len(t) \in Nat
      /\ \A i \in 1..(Len(s) + Len(t)) : u[i] = IF i <= Len(s) THEN s[i] ELSE t[i - Len(s)]
  BY <1>1, ConcatProperties
<1>3. DOMAIN u = 1..(Len(s) + Len(t)) /\ DOMAIN s = 1..Len(s) /\ DOMAIN t = 1..Len(t)
  BY <1>1, <1>2
<1> HIDE DEF u
<1>4. ASSUME NEW i \in 1..Len(s)
      PROVE  i \in DOMAIN u /\ u[i] = s[i]
  BY <1>2, <1>3
<1>5. ASSUME NEW i \in 1..Len(t)
      PROVE  i + Len(s) \in DOMAIN u /\ u[i + Len(s)] = t[i]
  <2>1. i + Len(s) \in 1..(Len(s) + Len(t)) /\ ~(i + Len(s) <= Len(s)) /\ (i + Len(s)) - Len(s) = i
    BY <1>2
  <2> QED
    BY <1>2, <1>3, <2>1
<1>6. S \subseteq ToSet(u)
  BY <1>3, <1>4, <1>5 DEF ToSet
<1>7. ToSet(u) \subseteq S
  BY <1>2, <1>3 DEF ToSet
<1>8. ToSet(u) = S
  BY <1>6, <1>7
<1> QED
  BY <1>2, <1>8 DEF Row, u

\* The function by which a flattened sequence is defined.
Flattens(g, seqs, k) ==
  g = [i \in 1..k |-> IF i = 1 THEN seqs[i] ELSE g[i - 1] \o seqs[i]]

\* A flattened sequence has what each of its parts has.
LEMMA Flattened ==
  ASSUME NEW seqs, Row(seqs), \A i \in DOMAIN seqs : Row(seqs[i])
  PROVE  LET f == FlattenSeq(seqs)
         IN  Row(f) /\ ToSet(f) = UNION {ToSet(seqs[i]) : i \in DOMAIN seqs}
<1> DEFINE n == Len(seqs)
           Next1(g) == [i \in 1..n |-> IF i = 1 THEN seqs[i] ELSE g[i - 1] \o seqs[i]]
           flatten == CHOOSE g : g = Next1(g)
           f == FlattenSeq(seqs)
           All(k) == UNION {ToSet(seqs[i]) : i \in 1..k}
<1>1. n \in Nat /\ DOMAIN seqs = 1..n
  <2>1. seqs \in Seq(ToSet(seqs))
    BY DEF Row
  <2> QED
    BY <2>1
<1>2. f = IF n = 0 THEN seqs ELSE flatten[n]
  BY DEF FlattenSeq
<1> HIDE DEF f
<1>3. CASE n = 0
  <2>1. DOMAIN seqs = {} /\ f = seqs
    BY <1>1, <1>2, <1>3
  <2>2. ToSet(seqs) = {}
    BY <2>1 DEF ToSet
  <2> QED
    BY <2>1, <2>2 DEF f
<1>4. CASE n # 0
  <2> DEFINE T == {k \in Nat : \E g : Flattens(g, seqs, k)}
  <2>1. 0 \in T
    <3> DEFINE g == [i \in 1..0 |-> seqs]
    <3>1. Flattens(g, seqs, 0)
      BY DEF Flattens
    <3> QED
      BY <3>1
  <2>2. ASSUME NEW k \in Nat, k \in T
        PROVE  k + 1 \in T
    <3>1. PICK g : Flattens(g, seqs, k)
      BY <2>2
    <3> DEFINE h == [i \in 1..(k + 1) |-> IF i = 1 THEN seqs[i] ELSE g[i - 1] \o seqs[i]]
    <3>2. \A i \in 1..k : g[i] = IF i = 1 THEN seqs[i] ELSE g[i - 1] \o seqs[i]
      BY <3>1 DEF Flattens
    <3>3. \A i \in 1..k : i \in 1..(k + 1)
      OBVIOUS
    <3>4. \A i \in 1..k : h[i] = g[i]
      BY <3>2, <3>3
    <3>5. \A i \in 1..(k + 1) : h[i] = IF i = 1 THEN seqs[i] ELSE g[i - 1] \o seqs[i]
      OBVIOUS
    <3>6. \A i \in 1..(k + 1) : i # 1 => i - 1 \in 1..k
      OBVIOUS
    <3>7. DOMAIN h = 1..(k + 1) /\ h = [i \in DOMAIN h |-> h[i]]
      OBVIOUS
    <3> HIDE DEF h
    <3>8. \A i \in 1..(k + 1) : h[i] = IF i = 1 THEN seqs[i] ELSE h[i - 1] \o seqs[i]
      BY <3>4, <3>5, <3>6
    <3>9. Flattens(h, seqs, k + 1)
      BY <3>7, <3>8 DEF Flattens
    <3> QED
      BY <3>9
  <2>3. Nat \subseteq T
    <3> HIDE DEF T
    <3> QED
      BY <2>1, <2>2, NaturalsIn
  <2>4. \E g : g = Next1(g)
    <3>1. \E g : Flattens(g, seqs, n)
      BY <1>1, <2>3
    <3> QED
      BY <3>1 DEF Flattens
  <2>5. flatten = Next1(flatten)
    <3> HIDE DEF Next1
    <3> QED
      BY <2>4
  <2>6. \A i \in 1..n : flatten[i] = IF i = 1 THEN seqs[i] ELSE flatten[i - 1] \o seqs[i]
    BY <2>5
  <2> HIDE DEF flatten, T, Next1
  <2> DEFINE R == {k \in Nat : k \in 1..n => Row(flatten[k]) /\ ToSet(flatten[k]) = All(k)}
  <2>7. 0 \in R
    OBVIOUS
  <2>8. ASSUME NEW k \in Nat, k \in R
        PROVE  k + 1 \in R
    <3>1. CASE k + 1 \in 1..n /\ k = 0
      <4>1. flatten[1] = seqs[1] /\ 1 \in DOMAIN seqs
        BY <1>1, <2>6, <3>1
      <4>2. All(1) = ToSet(seqs[1])
        <5>1. \A i : i \in 1..1 <=> i = 1
          OBVIOUS
        <5> QED
          BY <5>1
      <4> QED
        BY <3>1, <4>1, <4>2
    <3>2. CASE k + 1 \in 1..n /\ k # 0
      <4>1. k \in 1..n /\ k + 1 # 1 /\ (k + 1) - 1 = k /\ k + 1 \in DOMAIN seqs
        BY <1>1, <3>2
      <4>2. flatten[k + 1] = flatten[k] \o seqs[k + 1]
        BY <2>6, <3>2, <4>1
      <4>3. Row(flatten[k]) /\ ToSet(flatten[k]) = All(k) /\ Row(seqs[k + 1])
        BY <2>8, <4>1
      <4>4. All(k + 1) = All(k) \cup ToSet(seqs[k + 1])
        <5>1. \A i : i \in 1..(k + 1) <=> i \in 1..k \/ i = k + 1
          OBVIOUS
        <5> QED
          BY <5>1
      <4> HIDE DEF All
      <4>5. Row(flatten[k + 1]) /\ ToSet(flatten[k + 1]) = All(k + 1)
        BY <4>2, <4>3, <4>4, ConcatRow
      <4> QED
        BY <4>5
    <3> QED
      BY <3>1, <3>2
  <2>9. Nat \subseteq R
    <3> HIDE DEF R
    <3> QED
      BY <2>7, <2>8, NaturalsIn
  <2>10. Row(flatten[n]) /\ ToSet(flatten[n]) = All(n)
    <3>1. n \in Nat /\ n \in 1..n
      BY <1>1, <1>4
    <3> HIDE DEF All, n
    <3> QED
      BY <2>9, <3>1
  <2> QED
    BY <1>1, <1>2, <1>4, <2>10 DEF f
<1> QED
  BY <1>3, <1>4

\* Runs, again.
LEMMA ClaudeRuns ==
  ASSUME NEW b, Fit(b), NEW seed, NEW ts
  PROVE  /\ LET r == OpenClaudeRun(b, seed, ts) IN Continues(b, r) /\ (~b.failed => ~r.failed)
         /\ LET r == EnsureClaudeRun(b, seed, ts) IN Continues(b, r) /\ (~b.failed => ~r.failed)
         /\ LET r == CloseClaudeRun(b) IN Continues(b, r) /\ (~b.failed => ~r.failed)
<1>1. Continues(b, OpenClaudeRun(b, seed, ts)) /\ (~b.failed => ~OpenClaudeRun(b, seed, ts).failed)
  BY Opens DEF OpenClaudeRun
<1>2. EnsureClaudeRun(b, seed, ts) \in {b, OpenClaudeRun(b, seed, ts)}
  BY DEF EnsureClaudeRun
<1>3. Continues(b, b)
  BY DEF Continues
<1>4. Continues(b, CloseClaudeRun(b)) /\ (~b.failed => ~CloseClaudeRun(b).failed)
  BY Closes DEF CloseClaudeRun
<1> QED
  BY <1>1, <1>2, <1>3, <1>4

\* A block as it becomes canonical.
LEMMA ClaudeBlock ==
  ASSUME NEW x, Plain(x)
  PROVE  LET y == Canonical(x)
         IN  /\ "v" \in DOMAIN y /\ y.v = x.v
             /\ x.type \in {"tool_use", "tool_result"} =>
                  /\ y.type = (IF x.type = "tool_use" THEN "tool-call" ELSE "tool-result")
                  /\ \A key \in {"call", "result"} \cap DOMAIN x : y[key] = x[key]
             /\ x.type \notin {"tool_use", "tool_result"} =>
                  y.type \in {"text", "thinking", "image", "unknown"}
             /\ x.type \notin {"tool_use", "tool_result", "thinking"} =>
                  y.type \in {"text", "image", "unknown"}
<1> DEFINE y == Canonical(x)
           T == {"text", "thinking", "tool_use", "tool_result", "image"}
<1>1. /\ DOMAIN ClaudeType = T
      /\ ClaudeType["text"] = "text" /\ ClaudeType["image"] = "image"
      /\ ClaudeType["thinking"] = "thinking"
      /\ ClaudeType["tool_use"] = "tool-call"
      /\ ClaudeType["tool_result"] = "tool-result"
  BY DEF ClaudeType
<1>2. y = IF x.type \in T THEN [x EXCEPT !.type = ClaudeType[x.type]]
          ELSE [type |-> "unknown", nativeType |-> x.type, v |-> x.v]
  BY <1>1 DEF Canonical
<1>3. "type" \in DOMAIN x /\ "v" \in DOMAIN x
  BY DEF Plain
<1> HIDE DEF y, T
<1>4. CASE x.type \in T
  <2>1. /\ y.type = ClaudeType[x.type] /\ DOMAIN y = DOMAIN x
        /\ \A key \in DOMAIN x : key # "type" => y[key] = x[key]
    BY <1>2, <1>3, <1>4
  <2> QED
    BY <1>1, <1>3, <1>4, <2>1 DEF T, y
<1>5. CASE x.type \notin T
  <2>1. y = [type |-> "unknown", nativeType |-> x.type, v |-> x.v]
    BY <1>2, <1>5
  <2>2. y.type = "unknown" /\ y.v = x.v /\ "v" \in DOMAIN y
    BY <2>1
  <2> QED
    BY <1>5, <2>2 DEF T, y
<1> QED
  BY <1>4, <1>5

\* To remember messages changes no event.
LEMMA Remembers ==
  ASSUME NEW b, Fit(b), NEW message, NEW nid, NEW ts, NEW uuids, NEW id, NEW corr
  PROVE  LET m == EmitMessage(b, message, nid, ts, With(MessageCorr(b, id), corr))
             r == ClaudeSaid(b, message, nid, ts, uuids, id, corr)
         IN  Continues(m, r) /\ (~m.failed => ~r.failed)
<1> DEFINE m == EmitMessage(b, message, nid, ts, With(MessageCorr(b, id), corr))
           r == ClaudeSaid(b, message, nid, ts, uuids, id, corr)
<1>1. r = Remember(m, uuids, id)
  BY DEF ClaudeSaid
<1>2. Fit(m)
  BY Messages DEF Continues
<1> HIDE DEF m, r
<1>3. Same(m, r)
  BY <1>1, <1>2 DEF Remember, Fit, Same
<1> QED
  BY <1>2, <1>3, SameEvents DEF m, r

\* An entry that answers calls.
LEMMA ClaudeAnswers ==
  ASSUME NEW b, Fit(b), NEW e, IsClaudeEntry(e), NEW i, NEW x \in ToSet(e.content)
  PROVE  LET r == ToolResult(b, e, i, x)
         IN  /\ Continues(b, r)
             /\ ~b.failed => ~r.failed
             /\ ~b.failed /\ x.type = "tool_result" => Tells(r, Values(x))
<1> DEFINE r == ToolResult(b, e, i, x)
<1>1. CASE x.type # "tool_result"
  <2>1. r = b
    BY <1>1 DEF ToolResult
  <2> QED
    BY <1>1, <2>1 DEF Continues
<1>2. CASE x.type = "tool_result"
  <2>1. /\ Plain(x) /\ x.call # None /\ x.isError \in BOOLEAN
        /\ x.result = ResultOf(x.call) /\ {"call", "result"} \subseteq DOMAIN x
    <3>1. /\ Plain(x) /\ Names(x) /\ "result" \in DOMAIN x
          /\ x.result = ResultOf(x.call) /\ x.isError \in BOOLEAN
      BY <1>2 DEF IsClaudeEntry, ToSet
    <3> QED
      BY <3>1 DEF Plain, Names
  <2> DEFINE seed == OrElse(e.uuid, Line(i))
             id == <<"result">> \o seed \o x.call
             c == EnsureClaudeRun(b, seed, e.ts)
             link == [toolCallId |-> x.call, toolResultId |-> ResultOf(x.call)]
             tool == Declared(c, x.call)
             y == Canonical(x)
             body == With([role |-> "tool", content |-> <<y>>], link)
             corr == With(MessageCorr(c, id), link)
             m == EmitMessage(c, body, e.uuid, e.ts, corr)
             s == ClaudeSaid(c, body, e.uuid, e.ts, {e.uuid}, id, link)
  <2>2. r = EmitTool(s, tool.name, tool.args, x.content, x.isError, e.uuid, e.ts, corr)
    BY <1>2, <2>1 DEF ToolResult, Answered
  <2>3. /\ DOMAIN body = {"role", "content", "toolCallId", "toolResultId"}
        /\ body.content = <<y>> /\ body.toolCallId = x.call /\ body.toolResultId = ResultOf(x.call)
    BY DEF With
  <2>4. /\ {"runId", "messageId", "toolCallId", "toolResultId"} \subseteq DOMAIN corr
        /\ corr.toolCallId = x.call /\ corr.toolResultId = ResultOf(x.call)
    BY DEF With, MessageCorr, RunCorr
  <2>5. /\ y.type = "tool-result" /\ y.call = x.call /\ y.result = ResultOf(x.call)
        /\ "v" \in DOMAIN y /\ y.v = x.v
    BY <1>2, <2>1, ClaudeBlock
  <2>6. Continues(b, c) /\ (~b.failed => ~c.failed)
    BY ClaudeRuns
  <2> HIDE DEF c
  <2>7. Continues(m, s) /\ (~m.failed => ~s.failed)
    BY <2>6, Remembers DEF Continues
  <2> HIDE DEF seed, id, link, tool, y, body, corr, s
  <2>8. Continues(c, m) /\ (~c.failed => ~m.failed /\ Says(m, <<y>>, e.ts))
    BY <2>1, <2>3, <2>4, <2>5, <2>6, Answering DEF Continues
  <2> HIDE DEF m, r
  <2>9. Continues(s, r) /\ (~s.failed => ~r.failed)
    <3>1. Fit(s) /\ x.isError \in BOOLEAN /\ {"runId", "toolCallId"} \subseteq DOMAIN corr
      BY <2>1, <2>4, <2>7 DEF Continues
    <3> QED
      BY <2>2, <3>1, Tools
  <2>10. Continues(m, r) /\ Continues(b, r)
    BY <2>6, <2>7, <2>8, <2>9, ContinuesOn
  <2>11. Values(x) \subseteq AllValues(<<y>>)
    <3>1. ToSet(<<y>>) = {y}
      BY DEF ToSet
    <3> QED
      BY <2>1, <2>5, <3>1, PlainValues DEF AllValues
  <2>12. ~b.failed => Tells(m, AllValues(<<y>>))
    BY <2>6, <2>8, SaysTells
  <2>13. ~b.failed => Tells(r, AllValues(<<y>>))
    BY <2>10, <2>12, TellsStill
  <2> QED
    BY <2>6, <2>7, <2>8, <2>9, <2>10, <2>11, <2>13 DEF Tells, r
<1> QED
  BY <1>1, <1>2

\* The blocks of some types, in their order.
LEMMA OfTypesHas ==
  ASSUME NEW blocks, Row(blocks), NEW types
  PROVE  ToSet(OfTypes(blocks, types)) = {x \in ToSet(blocks) : x.type \in types}
<1> DEFINE seqs == [i \in DOMAIN blocks |-> IF blocks[i].type \in types THEN <<blocks[i]>> ELSE <<>>]
<1>1. OfTypes(blocks, types) = FlattenSeq(seqs)
  BY DEF OfTypes
<1>2. Row(seqs) /\ DOMAIN seqs = DOMAIN blocks
  <2>1. Len(blocks) \in Nat /\ DOMAIN blocks = 1..Len(blocks)
    BY DEF Row
  <2> QED
    BY <2>1 DEF Row, ToSet
<1>3. /\ \A x : Row(<<x>>) /\ ToSet(<<x>>) = {x}
      /\ Row(<<>>) /\ ToSet(<<>>) = {}
  BY DEF Row, ToSet
<1>4. ASSUME NEW i \in DOMAIN blocks
      PROVE  /\ Row(seqs[i])
             /\ ToSet(seqs[i]) = IF blocks[i].type \in types THEN {blocks[i]} ELSE {}
  <2>1. seqs[i] = IF blocks[i].type \in types THEN <<blocks[i]>> ELSE <<>>
    OBVIOUS
  <2> HIDE DEF seqs
  <2> QED
    BY <1>3, <2>1
<1> HIDE DEF seqs
<1>5. ToSet(FlattenSeq(seqs)) = UNION {ToSet(seqs[i]) : i \in DOMAIN seqs}
  BY <1>2, <1>4, Flattened
<1>6. UNION {ToSet(seqs[i]) : i \in DOMAIN seqs} = {x \in ToSet(blocks) : x.type \in types}
  BY <1>2, <1>4 DEF ToSet
<1> QED
  BY <1>1, <1>5, <1>6

\* What a user entry says itself, and what its results say.
LEMMA ClaudeUsers ==
  ASSUME NEW b, Fit(b), NEW e, IsClaudeEntry(e), e.type = "user", NEW i
  PROVE  LET r == UserEntry(b, e, i)
         IN  /\ Continues(b, r)
             /\ ~b.failed => ~r.failed /\ Tells(r, AllValues(e.content))
<1> DEFINE r == UserEntry(b, e, i)
           canonical == ToCanonical(e.content)
           texts == OfTypes(canonical, {"text", "image", "unknown"})
           seed == OrElse(e.uuid, Line(i))
           isPrompt == /\ \A x \in ToSet(e.content) : x.type # "tool_result"
                       /\ texts # <<>> /\ ~e.meta /\ ~e.side
           opened == IF isPrompt THEN OpenClaudeRun(CloseClaudeRun(b), seed, e.ts)
                     ELSE EnsureClaudeRun(b, seed, e.ts)
           f == FoldLeft(LAMBDA acc, x : ToolResult(acc, e, i, x), opened, e.content)
           how == "claude results"
           ctx == <<e, i>>
<1>1. r = UserText(f, e, i, texts)
  BY DEF UserEntry
<1>2. /\ Row(e.content) /\ e.content \in Seq(ToSet(e.content))
      /\ \A x \in ToSet(e.content) : Plain(x) /\ x.type \notin {"thinking", "tool_use"}
  BY DEF IsClaudeEntry, Row, ToSet, Plain
<1>3. Continues(b, opened) /\ (~b.failed => ~opened.failed)
  <2> DEFINE c == CloseClaudeRun(b)
             d == OpenClaudeRun(c, seed, e.ts)
             n == EnsureClaudeRun(b, seed, e.ts)
  <2>1. opened \in {d, n}
    OBVIOUS
  <2>2. /\ Continues(b, n) /\ (~b.failed => ~n.failed)
        /\ Continues(b, c) /\ (~b.failed => ~c.failed)
    BY ClaudeRuns
  <2> HIDE DEF c, n, opened
  <2>3. Fit(c)
    BY <2>2 DEF Continues
  <2>4. Continues(c, d) /\ (~c.failed => ~d.failed)
    BY <2>3, ClaudeRuns
  <2> HIDE DEF d
  <2> QED
    BY <2>1, <2>2, <2>4, ContinuesOn
<1> HIDE DEF isPrompt, opened, seed
<1>4. \A x, y : Taken(how, ctx, x, y) = ToolResult(x, e, i, y)
  BY DEF Taken
<1>5. \A k \in DOMAIN e.content : e.content[k] \in ToSet(e.content)
  BY DEF ToSet
<1>6. Fold(f, how, ctx, opened, e.content) /\ Continues(opened, f)
  <2>0. f = ResultsOf(opened, e, i, e.content)
    BY DEF ResultsOf
  <2> HIDE DEF f
  <2>1. \E g : Iterates(g, how, ctx, opened, e.content, DOMAIN e.content) /\ f = g[DOMAIN e.content]
    BY <1>2, <2>0, ResultFold
  <2>3. Fit(opened)
    BY <1>3 DEF Continues
  <2>2. \A x : \A k \in DOMAIN e.content : Fit(x) => Continues(x, Taken(how, ctx, x, e.content[k]))
    BY <1>4, <1>5, ClaudeAnswers
  <2> HIDE DEF how, ctx
  <2> QED
    BY <1>2, <2>1, <2>2, <2>3, Folding
<1> HIDE DEF f
<1>7. ~opened.failed => ~f.failed
  <2>1. \A x : \A k \in DOMAIN e.content :
          Fit(x) /\ ~x.failed => ~Taken(how, ctx, x, e.content[k]).failed
    BY <1>4, <1>5, ClaudeAnswers
  <2> HIDE DEF how, ctx
  <2> QED
    BY <1>2, <1>6, <2>1, Succeeding
<1>8. ASSUME ~b.failed, NEW x \in ToSet(e.content), x.type = "tool_result"
      PROVE  Tells(f, Values(x))
  <2>1. PICK k \in DOMAIN e.content : x = e.content[k]
    BY DEF ToSet
  <2> HIDE DEF how, ctx
  <2>2. PICK z : /\ Fit(z) /\ ~z.failed
                 /\ ~Taken(how, ctx, z, e.content[k]).failed
                 /\ Continues(Taken(how, ctx, z, e.content[k]), f)
    BY <1>2, <1>3, <1>6, <1>7, <1>8, StageOf
  <2>3. Tells(Taken(how, ctx, z, e.content[k]), Values(x))
    BY <1>4, <1>8, <2>1, <2>2, ClaudeAnswers
  <2> QED
    BY <2>2, <2>3, TellsStill
<1>9. /\ DOMAIN canonical = DOMAIN e.content /\ Row(canonical)
      /\ \A k \in DOMAIN canonical : canonical[k] = Canonical(e.content[k])
  BY <1>2 DEF ToCanonical, Row, ToSet
<1> HIDE DEF canonical
<1>10. ToSet(texts) = {y \in ToSet(canonical) : y.type \in {"text", "image", "unknown"}}
  BY <1>9, OfTypesHas
<1> HIDE DEF texts
<1>11. ASSUME NEW x \in ToSet(e.content), x.type # "tool_result"
       PROVE  Values(x) \subseteq AllValues(texts) /\ texts # <<>>
  <2>1. PICK k \in DOMAIN e.content : x = e.content[k]
    BY DEF ToSet
  <2> DEFINE y == Canonical(x)
  <2>2. "v" \in DOMAIN y /\ y.v = x.v /\ y.type \in {"text", "image", "unknown"}
    BY <1>2, <1>11, ClaudeBlock
  <2>3. y \in ToSet(canonical)
    BY <1>9, <2>1 DEF ToSet
  <2> HIDE DEF y
  <2>4. y \in ToSet(texts)
    BY <1>10, <2>2, <2>3
  <2>5. Values(x) \subseteq Values(y)
    BY <1>2, <2>2, PlainValues
  <2> QED
    BY <2>4, <2>5, NothingTold DEF AllValues
<1>12. Ordinary(texts)
  BY <1>10 DEF Ordinary
<1>13. Continues(f, r) /\ (~f.failed => ~r.failed /\ (texts # <<>> => Tells(r, AllValues(texts))))
  <2>1. CASE texts = <<>>
    BY <1>1, <1>6, <2>1 DEF UserText, Continues
  <2>2. CASE texts # <<>>
    <3> DEFINE body == [role |-> "user", content |-> texts]
               id == <<"message">> \o OrElse(e.uuid, Line(i))
               parent == Parent(f, e)
               corr == With(MessageCorr(f, id), parent)
               m == EmitMessage(f, body, e.uuid, e.ts, corr)
    <3>1. r = ClaudeSaid(f, body, e.uuid, e.ts, {e.uuid}, id, parent)
      BY <1>1, <2>2 DEF UserText
    <3>2. DOMAIN parent \subseteq {"parentId"}
      BY DEF Parent
    <3>3. {"runId", "messageId"} \subseteq DOMAIN corr /\ DOMAIN corr \cap {"toolCallId", "toolResultId"} = {}
      BY <3>2 DEF With, MessageCorr, RunCorr
    <3>4. Fit(f)
      BY <1>6 DEF Continues
    <3> HIDE DEF r
    <3>5. Continues(m, r) /\ (~m.failed => ~r.failed)
      BY <3>1, <3>4, Remembers
    <3> HIDE DEF corr, parent, id
    <3>6. Continues(f, m) /\ (~f.failed => ~m.failed /\ Says(m, texts, e.ts))
      BY <1>12, <3>3, <3>4, Speaking
    <3> HIDE DEF m
    <3>7. ~f.failed => Tells(r, AllValues(texts))
      BY <3>5, <3>6, SaysTells, TellsStill
    <3> QED
      BY <3>5, <3>6, <3>7, ContinuesOn DEF r
  <2> QED
    BY <2>1, <2>2
<1> HIDE DEF r
<1>14. ASSUME ~b.failed
       PROVE  ~r.failed /\ Tells(r, AllValues(e.content))
  <2>1. ASSUME NEW x \in ToSet(e.content)
        PROVE  Tells(r, Values(x))
    <3>1. CASE x.type = "tool_result"
      BY <1>8, <1>13, <1>14, <3>1, TellsStill
    <3>2. CASE x.type # "tool_result"
      <4>1. Tells(r, AllValues(texts)) /\ Values(x) \subseteq AllValues(texts)
        BY <1>3, <1>7, <1>11, <1>13, <1>14, <3>2
      <4> QED
        BY <4>1 DEF Tells
    <3> QED
      BY <3>1, <3>2
  <2> QED
    BY <1>3, <1>7, <1>13, <1>14, <2>1 DEF Tells, AllValues
<1>15. Continues(b, r)
  BY <1>3, <1>6, <1>13, ContinuesOn
<1> QED
  BY <1>14, <1>15 DEF r

\* The content of a message has the blocks of all its entries.
LEMMA ClaudeGroups ==
  ASSUME NEW native, IsClaudeLog(native), NEW i \in DOMAIN native,
         native[i].type = "assistant", NEW content,
         content = FlattenSeq([j \in DOMAIN native |->
                     IF j \in GroupOf(native, i)
                     THEN ToCanonical(native[j].content) ELSE <<>>])
  PROVE  /\ Ordinary(content)
         /\ \A j \in GroupOf(native, i) :
              AllValues(native[j].content) \subseteq AllValues(content)
<1> DEFINE group == GroupOf(native, i)
           seqs == [j \in DOMAIN native |->
                      IF j \in group THEN ToCanonical(native[j].content) ELSE <<>>]
<1>1. /\ Row(native)
      /\ \A j \in DOMAIN native :
           /\ Row(native[j].content)
           /\ \A x \in ToSet(native[j].content) :
                /\ Plain(x)
                /\ native[j].type = "assistant" => x.type # "tool_result"
                /\ x.type = "tool_use" => "call" \in DOMAIN x /\ x.call # None
  <2>1. Row(native) /\ \A j \in DOMAIN native : IsClaudeEntry(native[j])
    BY DEF IsClaudeLog, Row, ToSet
  <2>2. ASSUME NEW e, IsClaudeEntry(e)
        PROVE  /\ Row(e.content)
               /\ \A x \in ToSet(e.content) :
                    /\ Plain(x)
                    /\ e.type = "assistant" => x.type # "tool_result"
                    /\ x.type = "tool_use" => "call" \in DOMAIN x /\ x.call # None
    BY <2>2 DEF IsClaudeEntry, Row, ToSet, Plain, Names
  <2> QED
    BY <2>1, <2>2
<1>2. \A j \in group : j \in DOMAIN native /\ native[j].type = "assistant"
  BY DEF GroupOf
<1>3. Row(seqs) /\ DOMAIN seqs = DOMAIN native
  <2>1. Len(native) \in Nat /\ DOMAIN native = 1..Len(native)
    BY <1>1 DEF Row
  <2> HIDE DEF group
  <2> QED
    BY <2>1 DEF Row, ToSet
<1>4. Row(<<>>) /\ ToSet(<<>>) = {}
  BY DEF Row, ToSet
<1>5. \A j \in DOMAIN native :
        seqs[j] = IF j \in group THEN ToCanonical(native[j].content) ELSE <<>>
  OBVIOUS
<1> HIDE DEF group, seqs
<1>6. ASSUME NEW j \in DOMAIN native
      PROVE  /\ Row(seqs[j])
             /\ j \notin group => ToSet(seqs[j]) = {}
             /\ j \in group => ToSet(seqs[j]) = {Canonical(x) : x \in ToSet(native[j].content)}
  <2> DEFINE s == native[j].content
             t == ToCanonical(s)
  <2>1. /\ t = [k \in DOMAIN s |-> Canonical(s[k])]
        /\ Len(s) \in Nat /\ DOMAIN s = 1..Len(s)
    BY <1>1 DEF ToCanonical, Row
  <2> HIDE DEF s, t
  <2>2. Row(t) /\ ToSet(t) = {Canonical(x) : x \in ToSet(s)}
    BY <2>1 DEF Row, ToSet
  <2> QED
    BY <1>4, <1>5, <2>2 DEF s, t
<1>7. ToSet(content) = UNION {ToSet(seqs[j]) : j \in DOMAIN seqs}
  <2>1. content = FlattenSeq(seqs)
    BY DEF seqs, group
  <2> QED
    BY <1>3, <1>6, <2>1, Flattened
<1>8. ASSUME NEW y \in ToSet(content)
      PROVE  \E j \in group : \E x \in ToSet(native[j].content) : y = Canonical(x)
  <2>1. PICK j \in DOMAIN native : y \in ToSet(seqs[j])
    BY <1>3, <1>7
  <2> QED
    BY <1>6, <2>1
<1>9. Ordinary(content)
  <2> SUFFICES ASSUME NEW y \in ToSet(content)
               PROVE  y.type # "tool-result" /\ (y.type = "tool-call" => y.call # None)
    BY DEF Ordinary
  <2>0. PICK j \in group : \E x \in ToSet(native[j].content) : y = Canonical(x)
    BY <1>8
  <2>1. PICK x \in ToSet(native[j].content) : y = Canonical(x)
    BY <2>0
  <2>2. /\ Plain(x) /\ x.type # "tool_result"
        /\ x.type = "tool_use" => "call" \in DOMAIN x /\ x.call # None
    BY <1>1, <1>2, <2>1
  <2>3. CASE x.type = "tool_use"
    BY <2>1, <2>2, <2>3, ClaudeBlock
  <2>4. CASE x.type # "tool_use"
    <3>1. y.type \in {"text", "thinking", "image", "unknown"}
      BY <2>1, <2>2, <2>4, ClaudeBlock
    <3> QED
      BY <3>1
  <2> QED
    BY <2>3, <2>4
<1>10. ASSUME NEW j \in group
       PROVE  AllValues(native[j].content) \subseteq AllValues(content)
  <2>1. j \in DOMAIN native
    BY <1>2
  <2>2. ASSUME NEW x \in ToSet(native[j].content)
        PROVE  Values(x) \subseteq AllValues(content)
    <3> DEFINE y == Canonical(x)
    <3>1. "v" \in DOMAIN y /\ y.v = x.v /\ Plain(x)
      BY <1>1, <2>1, ClaudeBlock
    <3>2. y \in ToSet(seqs[j])
      BY <1>6, <2>1
    <3> HIDE DEF y
    <3>3. y \in ToSet(content)
      BY <1>3, <1>7, <2>1, <3>2
    <3>4. Values(x) \subseteq Values(y)
      BY <3>1, PlainValues
    <3> QED
      BY <3>3, <3>4 DEF AllValues
  <2> QED
    BY <2>2 DEF AllValues
<1> QED
  BY <1>9, <1>10 DEF group

\* The message of some assistant entries tells them all.
LEMMA ClaudeAssistants ==
  ASSUME NEW b, Fit(b), NEW native, IsClaudeLog(native), NEW i \in DOMAIN native,
         native[i].type = "assistant"
  PROVE  LET r == AssistantGroup(b, native, i)
         IN  /\ Continues(b, r)
             /\ ~b.failed => ~r.failed /\ \A j \in GroupOf(native, i) :
                                            Tells(r, AllValues(native[j].content))
<1> DEFINE group == GroupOf(native, i)
           first == native[Min(group)]
           last == native[i]
           id == <<"message">> \o OrElse(last.mid, OrElse(last.uuid, <<"group", i>>))
           content == FlattenSeq([j \in DOMAIN native |->
                        IF j \in group THEN ToCanonical(native[j].content) ELSE <<>>])
           opened == EnsureClaudeRun(b, OrElse(first.uuid, <<"group", i>>), last.ts)
           places == {k \in DOMAIN content : content[k].type = "tool-call"}
           declared == DeclareAll(opened, content, places)
           parent == IF Parent(b, first) # <<>> THEN Parent(b, first)
                     ELSE Parent(b, last)
           nid == OrElse(last.uuid, first.uuid)
           uuids == {native[j].uuid : j \in group}
           body == [role |-> "assistant", content |-> content]
           corr == With(MessageCorr(declared, id), parent)
           m == EmitMessage(declared, body, nid, last.ts, corr)
           s == ClaudeSaid(declared, body, nid, last.ts, uuids, id, parent)
           lost == IF group # {i} THEN {"block-append entries merged"} ELSE {}
           r == AssistantGroup(b, native, i)
<1>1. r = [s EXCEPT !.loss = @ \cup lost]
  BY DEF AssistantGroup
<1>2. DOMAIN parent \subseteq {"parentId"}
  BY DEF Parent
<1>3. {"runId", "messageId"} \subseteq DOMAIN corr /\ DOMAIN corr \cap {"toolCallId", "toolResultId"} = {}
  <2> HIDE DEF parent
  <2> QED
    BY <1>2 DEF With, MessageCorr, RunCorr
<1>4. Ordinary(content) /\ \A j \in group : AllValues(native[j].content) \subseteq AllValues(content)
  BY ClaudeGroups
<1>5. Continues(b, opened) /\ (~b.failed => ~opened.failed)
  BY ClaudeRuns
<1> HIDE DEF content, opened, places, group, parent, id
<1>6. Continues(opened, declared) /\ (~opened.failed => ~declared.failed)
  <2>1. Fit(opened)
    BY <1>5 DEF Continues
  <2> QED
    BY <2>1, Declares
<1>7. Fit(declared)
  BY <1>6 DEF Continues
<1> HIDE DEF declared
<1>8. Continues(m, s) /\ (~m.failed => ~s.failed)
  BY <1>7, Remembers
<1> HIDE DEF corr, nid, uuids, s, lost, r
<1>9. Continues(declared, m) /\ (~declared.failed => ~m.failed /\ Says(m, content, last.ts))
  BY <1>3, <1>4, <1>7, Speaking
<1> HIDE DEF m
<1>10. Continues(s, r) /\ (~s.failed => ~r.failed)
  <2>1. Fit(s)
    BY <1>8 DEF Continues
  <2>2. Same(s, r)
    BY <1>1, <2>1 DEF Fit, Same
  <2> QED
    BY <2>1, <2>2, SameEvents
<1>11. Continues(m, r) /\ Continues(b, r)
  <2>1. Continues(m, r)
    BY <1>8, <1>10, ContinuesOn
  <2>2. Continues(declared, r)
    BY <1>9, <2>1, ContinuesOn
  <2>3. Continues(b, declared)
    BY <1>5, <1>6, ContinuesOn
  <2> QED
    BY <2>1, <2>2, <2>3, ContinuesOn
<1>12. ASSUME ~b.failed
       PROVE  ~r.failed /\ Tells(r, AllValues(content))
  <2>1. ~m.failed /\ Tells(m, AllValues(content))
    BY <1>5, <1>6, <1>9, <1>12, SaysTells
  <2> QED
    BY <1>8, <1>10, <1>11, <2>1, TellsStill
<1>13. ASSUME ~b.failed, NEW j \in group
       PROVE  Tells(r, AllValues(native[j].content))
  BY <1>4, <1>12, <1>13 DEF Tells
<1> QED
  BY <1>11, <1>12, <1>13 DEF r, group

\* The entries a step of the import speaks for.
Together(native, i) == IF native[i].type = "assistant" THEN GroupOf(native, i) ELSE {i}

\* What an entry of claude says: its value, and that of its blocks.
LEMMA ClaudeValues ==
  ASSUME NEW e, IsClaudeEntry(e)
  PROVE  /\ e.type \in {"user", "assistant"} => RecordValues(e) = AllValues(e.content)
         /\ e.type \notin {"user", "assistant"} => RecordValues(e) = ToSet(e.v)
<1>1. /\ DOMAIN e = {"type", "uuid", "mid", "parent", "content", "meta", "side", "v", "ts"}
      /\ e.type \in {"user", "assistant"} => e.v = <<>>
      /\ e.type \notin {"user", "assistant"} => e.content = <<>>
  BY DEF IsClaudeEntry
<1>2. Values(e) = ToSet(e.v)
  BY <1>1, PlainValues DEF Plain
<1>3. Get(e, "content", <<>>) = e.content /\ Get(e, "parts", <<>>) = <<>>
  BY <1>1 DEF Get
<1>4. RecordValues(e) = ToSet(e.v) \cup AllValues(e.content)
  BY <1>2, <1>3, RecordTold, NothingTold
<1> QED
  BY <1>1, <1>4, NothingTold

\* A step of the import goes on, and tells the entries it speaks for.
LEMMA ClaudeSteps ==
  ASSUME NEW b, Fit(b), NEW native, IsClaudeLog(native), NEW i \in DOMAIN native
  PROVE  LET r == ClaudeStep(b, native, i)
         IN  /\ Continues(b, r)
             /\ ~b.failed => ~r.failed
             /\ ~b.failed /\ i \in Timeline(native) =>
                  \A j \in Together(native, i) : Tells(r, RecordValues(native[j]))
<1> DEFINE r == ClaudeStep(b, native, i)
           e == native[i]
<1>1. \A j \in DOMAIN native : IsClaudeEntry(native[j])
  BY DEF IsClaudeLog, Row, ToSet
<1>2. CASE i \notin Timeline(native)
  <2>1. r = b
    BY <1>2 DEF ClaudeStep
  <2>2. Continues(b, b)
    BY DEF Continues
  <2> HIDE DEF r
  <2> QED
    BY <1>2, <2>1, <2>2 DEF r
<1>3. CASE i \in Timeline(native) /\ e.type = "assistant"
  <2>1. r = AssistantGroup(b, native, i)
    BY <1>3 DEF ClaudeStep, Entry
  <2>2. Together(native, i) = GroupOf(native, i)
    BY <1>3 DEF Together
  <2>3. \A j \in GroupOf(native, i) : j \in DOMAIN native /\ native[j].type = "assistant"
    BY DEF GroupOf
  <2>4. \A j \in GroupOf(native, i) :
          RecordValues(native[j]) = AllValues(native[j].content)
    BY <1>1, <2>3, ClaudeValues
  <2>5. /\ Continues(b, r)
        /\ ~b.failed => ~r.failed /\ \A j \in GroupOf(native, i) :
                                       Tells(r, AllValues(native[j].content))
    BY <1>3, <2>1, ClaudeAssistants
  <2> HIDE DEF r
  <2> QED
    BY <2>2, <2>4, <2>5 DEF r
<1>4. CASE i \in Timeline(native) /\ e.type = "user"
  <2>1. r = UserEntry(b, e, i)
    BY <1>4 DEF ClaudeStep, Entry
  <2>2. Together(native, i) = {i}
    BY <1>4 DEF Together
  <2>3. RecordValues(e) = AllValues(e.content)
    BY <1>1, <1>4, ClaudeValues
  <2>4. /\ Continues(b, r)
        /\ ~b.failed => ~r.failed /\ Tells(r, AllValues(e.content))
    BY <1>1, <1>4, <2>1, ClaudeUsers
  <2> HIDE DEF r
  <2> QED
    BY <2>2, <2>3, <2>4 DEF r
<1>5. CASE i \in Timeline(native) /\ e.type \notin {"user", "assistant"}
  <2> DEFINE body == [nativeType |-> e.type, value |-> e.v]
  <2>1. r = EmitUnknown(b, e.type, e.v, e.uuid, e.ts, <<>>)
    BY <1>5 DEF ClaudeStep, Entry
  <2>2. Together(native, i) = {i}
    BY <1>5 DEF Together
  <2>3. RecordValues(e) = ToSet(e.v)
    BY <1>1, <1>5, ClaudeValues
  <2>4. /\ Continues(b, r)
        /\ ~b.failed => ~r.failed /\ Has(r, <<"unknown", "observed">>, body, e.ts)
    BY <2>1, Unknowns
  <2>5. Get(body, "value", <<>>) = e.v
    BY DEF Get
  <2> HIDE DEF r, body
  <2>6. ~b.failed => Tells(r, ToSet(e.v))
    BY <2>4, <2>5, HasTells
  <2> QED
    BY <2>2, <2>3, <2>4, <2>6 DEF r
<1> QED
  BY <1>2, <1>3, <1>4, <1>5

\* Every entry is spoken for by one of the timeline.
LEMMA ClaudeSpokenFor ==
  ASSUME NEW native, Row(native), NEW j \in DOMAIN native
  PROVE  \E i \in DOMAIN native : i \in Timeline(native) /\ j \in Together(native, i)
<1>1. CASE native[j].type # "assistant"
  BY <1>1 DEF Together, Timeline
<1>2. CASE native[j].type = "assistant"
  <2> DEFINE group == GroupOf(native, j)
  <2>1. j \in group /\ \A i \in group : i \in DOMAIN native /\ native[i].type = "assistant"
    BY <1>2 DEF GroupOf
  <2>2. \A i \in group : GroupOf(native, i) = group
    BY <1>2 DEF GroupOf
  <2>3. PICK n \in Nat : DOMAIN native = 1..n
    BY DEF Row
  <2> HIDE DEF group
  <2>4. PICK i \in group : \A k \in group : k <= i
    BY <2>1, <2>3, GreatestNumber
  <2>5. Max(group) = i
    <3>1. \A k \in group : k \in Int
      BY <2>1, <2>3
    <3>2. Max(group) \in group /\ \A k \in group : Max(group) >= k
      BY <2>4, <3>1 DEF Max
    <3> QED
      BY <2>4, <3>1, <3>2
  <2>6. i \in Timeline(native)
    BY <2>1, <2>2, <2>4, <2>5 DEF Timeline
  <2>7. j \in Together(native, i)
    BY <2>1, <2>2 DEF Together
  <2> QED
    BY <2>1, <2>6, <2>7
<1> QED
  BY <1>1, <1>2

\* The import of a log of claude never throws, and tells each of its entries.
LEMMA ClaudeImports ==
  ASSUME NEW native, IsClaudeLog(native), NEW h
  PROVE  LET made == ImportClaudeSession(native, h)
         IN  /\ made.failed = FALSE /\ made.source = native /\ ValidBundle(made)
             /\ \A e \in ToSet(native) :
                  RecordValues(e) \subseteq EvidenceValues(made.events)
<1> DEFINE made == ImportClaudeSession(native, h)
           b0 == Emit(Started(h), <<"session", "started">>, [reason |-> "import"],
                      <<"session", 0>>, native[1].ts, <<>>, 0)
           f == FoldLeftDomain(LAMBDA x, i : ClaudeStep(x, native, i), b0, native)
           b == EmitEnd(EmitClose(f, "completed", LastTs(f)))
           s == Indices(native)
<1>1. made = MakeBundle("claude", native, b)
  BY DEF ImportClaudeSession, CloseClaudeRun
<1>2. /\ Row(native)
      /\ Row(s) /\ DOMAIN s = DOMAIN native /\ \A i \in DOMAIN native : s[i] = i
  <2>1. Row(native)
    BY DEF IsClaudeLog, Row, ToSet
  <2> QED
    BY <2>1, PlacesRow
<1>3. Fit(b0) /\ ~b0.failed
  BY Beginning
<1> HIDE DEF b0
<1>4. \A x : \A k \in DOMAIN native :
        Taken("claude", native, x, s[k]) = ClaudeStep(x, native, k)
  BY <1>2 DEF Taken
<1>5. Fold(f, "claude", native, b0, s) /\ Continues(b0, f)
  <2>1. \E g : Iterates(g, "claude", native, b0, s, DOMAIN s) /\ f = g[DOMAIN s]
    BY <1>2, ClaudeFold
  <2>2. \A x : \A k \in DOMAIN s : Fit(x) => Continues(x, Taken("claude", native, x, s[k]))
    BY <1>2, <1>4, ClaudeSteps
  <2> HIDE DEF f, s
  <2> QED
    BY <1>2, <1>3, <2>1, <2>2, Folding
<1> HIDE DEF f, s
<1>6. ~f.failed
  <2>1. \A x : \A k \in DOMAIN s : Fit(x) /\ ~x.failed => ~Taken("claude", native, x, s[k]).failed
    BY <1>2, <1>4, ClaudeSteps
  <2> QED
    BY <1>2, <1>3, <1>5, <2>1, Succeeding
<1>7. Continues(f, b) /\ ~b.failed
  BY <1>5, <1>6, Finishing DEF Continues
<1> HIDE DEF b
<1>8. PICK pivot : Bundles(made, "claude", native, b, pivot)
  BY <1>1, <1>7, Makes
<1> HIDE DEF made
<1>9. made.failed = FALSE /\ made.source = native /\ made.events = b.events /\ ValidBundle(made)
  <2>1. Fit(b)
    BY <1>7 DEF Continues
  <2>2. /\ made.failed = FALSE /\ made.source = native /\ made.events = b.events
        /\ made.loss = b.loss /\ (Fit(b) => ValidBundle(made))
    BY <1>8, Sealing
  <2> QED
    BY <2>1, <2>2
<1>10. ASSUME NEW j \in DOMAIN native
       PROVE  Tells(b, RecordValues(native[j]))
  <2> DEFINE vs == RecordValues(native[j])
  <2>1. PICK i \in DOMAIN native : i \in Timeline(native) /\ j \in Together(native, i)
    BY <1>2, ClaudeSpokenFor
  <2> HIDE DEF vs
  <2>2. PICK x : /\ Fit(x) /\ ~x.failed
                 /\ ~Taken("claude", native, x, s[i]).failed
                 /\ Continues(Taken("claude", native, x, s[i]), f)
    BY <1>2, <1>5, <1>6, StageOf
  <2>3. Tells(Taken("claude", native, x, s[i]), vs)
    BY <1>2, <1>4, <2>1, <2>2, ClaudeSteps DEF vs
  <2>4. Tells(f, vs)
    BY <2>2, <2>3, TellsStill
  <2> QED
    BY <1>7, <2>4, TellsStill DEF vs
<1> QED
  BY <1>9, <1>10 DEF Tells, ToSet, made

\* A part of a row of dimagent, and the block it becomes.
Becomes(x, y) ==
  /\ "v" \in DOMAIN y /\ y.v = x.v
  /\ x.type = "tool_result" => y.type = "tool-result" /\ y.call = x.call /\ y.result = x.result
  /\ x.type = "tool_use" => y.type = "tool-call" /\ y.call = x.call
  /\ x.type \notin {"tool_use", "tool_result"} => y.type \in {"text", "thinking", "unknown"}

\* Each part becomes such a block.
LEMMA DimagentParts ==
  ASSUME NEW r, IsRow(r), NEW k \in DOMAIN r.parts
  PROVE  Becomes(r.parts[k], DimPartsToCanonical(r.parts)[k])
<1> DEFINE x == r.parts[k]
           y == DimPartsToCanonical(r.parts)[k]
           T == {"text", "thinking", "tool_use", "tool_result"}
           blank == [type |-> "unknown", nativeType |-> x.type, v |-> x.v]
<1>1. /\ {"type", "v"} \subseteq DOMAIN x
      /\ x.type \in {"tool_use", "tool_result"} => "call" \in DOMAIN x
      /\ x.type = "tool_result" => "result" \in DOMAIN x
  <2>1. x \in ToSet(r.parts)
    BY DEF ToSet
  <2> HIDE DEF x
  <2> QED
    BY <2>1 DEF IsRow, Plain
<1>2. /\ DOMAIN DimagentType = T
      /\ DimagentType["text"] = "text"
      /\ DimagentType["thinking"] = "thinking"
      /\ DimagentType["tool_use"] = "tool-call"
  BY DEF DimagentType
<1>3. y = IF x.type = "tool_result"
          THEN [x EXCEPT !.type = "tool-result", !.isError = FailedPart(x)]
          ELSE IF x.type \in T THEN [x EXCEPT !.type = DimagentType[x.type]]
          ELSE blank
  BY <1>2 DEF DimPartsToCanonical
<1>4. blank.type = "unknown" /\ blank.v = x.v /\ "v" \in DOMAIN blank
  OBVIOUS
<1> HIDE DEF x, y, T, blank
<1>5. CASE x.type = "tool_result"
  <2>1. y = [x EXCEPT !.type = "tool-result", !.isError = FailedPart(x)]
    BY <1>3, <1>5
  <2>2. DOMAIN y = DOMAIN x /\ y.v = x.v /\ y.type = "tool-result" /\ y.call = x.call
        /\ y.result = x.result
    BY <1>1, <1>5, <2>1
  <2> QED
    BY <1>1, <1>5, <2>2 DEF Becomes, x, y
<1>6. CASE x.type \in T \ {"tool_result"}
  <2>1. y = [x EXCEPT !.type = DimagentType[x.type]]
    BY <1>3, <1>6
  <2>2. /\ DOMAIN y = DOMAIN x /\ y.v = x.v /\ y.type = DimagentType[x.type]
        /\ x.type = "tool_use" => y.call = x.call
    BY <1>1, <1>6, <2>1
  <2> QED
    BY <1>1, <1>2, <1>6, <2>2 DEF Becomes, x, y, T
<1>7. CASE x.type \notin T
  BY <1>3, <1>4, <1>7 DEF Becomes, x, y, T
<1> QED
  BY <1>5, <1>6, <1>7 DEF T

\* The part that answers a call, where a row has one.
LEMMA AnsweringPart ==
  ASSUME NEW r, IsRow(r)
  PROVE  LET part == ToolPart(r)
         IN  \/ part = <<>>
             \/ /\ part # <<>> /\ r.role = "tool_result"
                /\ part[1] \in ToSet(r.parts) /\ part[1].type = "tool_result"
                /\ part[1].call # None /\ part[1].isError \in BOOLEAN
<1> DEFINE at == {i \in DOMAIN r.parts : r.parts[i].type = "tool_result" /\ r.parts[i].call # None}
           part == ToolPart(r)
           m == Max(at)
<1>1. part = IF r.role = "tool_result" /\ at # {} THEN <<r.parts[m]>> ELSE <<>>
  BY DEF ToolPart
<1>2. PICK n \in Nat : DOMAIN r.parts = 1..n
  BY DEF IsRow, Row
<1>3. ASSUME at # {}
      PROVE  m \in at
  <2>1. PICK i \in at : \A k \in at : k <= i
    BY <1>2, <1>3, GreatestNumber
  <2>2. \A k \in at : k \in Int
    BY <1>2
  <2> HIDE DEF at
  <2> QED
    BY <2>1, <2>2 DEF Max
<1>4. CASE r.role = "tool_result" /\ at # {}
  <2>1. part = <<r.parts[m]>>
    BY <1>1, <1>4
  <2>2. /\ m \in DOMAIN r.parts /\ r.parts[m].type = "tool_result" /\ r.parts[m].call # None
    BY <1>3, <1>4
  <2> DEFINE x == r.parts[m]
  <2>3. x \in ToSet(r.parts) /\ x \in ToSet(r.parts)
    BY <2>2 DEF ToSet
  <2>4. x.isError \in BOOLEAN
    BY <2>2, <2>3 DEF IsRow
  <2>5. part[1] = x /\ part # <<>>
    BY <2>1
  <2> HIDE DEF x, part, m, at
  <2> QED
    BY <1>4, <2>2, <2>3, <2>4, <2>5 DEF x, part
<1>5. CASE ~(r.role = "tool_result" /\ at # {})
  BY <1>1, <1>5
<1> QED
  BY <1>4, <1>5

\* What the message of a row that is taken says is about one call at most.
LEMMA RowAbout ==
  ASSUME NEW r, IsRow(r), ~Refused("dimagent", r), NEW role, NEW corr, NEW part,
         part = ToolPart(r),
         part = <<>> => DOMAIN corr \cap {"toolCallId", "toolResultId"} = {},
         part # <<>> => /\ {"toolCallId", "toolResultId"} \subseteq DOMAIN corr
                        /\ corr.toolCallId = part[1].call
                        /\ corr.toolResultId = ResultOf(part[1].call)
  PROVE  \E c, q : AboutOne([role |-> role, content |-> DimPartsToCanonical(r.parts)],
                            corr, c, q)
<1> DEFINE content == DimPartsToCanonical(r.parts)
           body == [role |-> role, content |-> content]
           results == AllOf(r.parts, "tool_result")
           calls == AllOf(r.parts, "tool_use")
           own == IF r.role = "tool_result" THEN {x.call : x \in results} \ {None} ELSE {}
           blocks == ToSet(content)
           answers == TRUE
<1>1. ~AtOdds(own, answers, results, calls)
  BY DEF Refused
<1>2. \A c, d \in own : c = d
  BY <1>1 DEF AtOdds
<1>3. ASSUME NEW y \in blocks
      PROVE  \E x \in ToSet(r.parts) : Becomes(x, y)
  <2>1. PICK k \in DOMAIN r.parts : y = content[k]
    BY DEF ToSet, DimPartsToCanonical
  <2>2. Becomes(r.parts[k], content[k])
    BY DimagentParts
  <2> HIDE DEF content
  <2> QED
    BY <2>1, <2>2 DEF ToSet
<1>4. ASSUME NEW x \in ToSet(r.parts)
      PROVE  \E y \in blocks : Becomes(x, y)
  <2>1. PICK k \in DOMAIN r.parts : x = r.parts[k]
    BY DEF ToSet
  <2>2. Becomes(r.parts[k], content[k]) /\ k \in DOMAIN content
    BY DimagentParts DEF DimPartsToCanonical
  <2> HIDE DEF content
  <2> QED
    BY <2>1, <2>2 DEF ToSet
<1>5. /\ DOMAIN body = {"role", "content"} /\ Get(body, "content", <<>>) = content
  BY DEF Get
<1>6. part # <<>> => part[1].call \in own
  <2>1. part # <<>> => /\ r.role = "tool_result" /\ part[1] \in ToSet(r.parts)
                       /\ part[1].type = "tool_result" /\ part[1].call # None
    BY AnsweringPart
  <2> QED
    BY <2>1 DEF AllOf
<1> HIDE DEF content, body, blocks, own
<1>7. Matches(blocks, results, calls)
  <2>1. ASSUME NEW y \in blocks, y.type \in {"tool-result", "tool-call"}
        PROVE  \E x \in ToSet(r.parts) :
                 /\ x.type = (IF y.type = "tool-result" THEN "tool_result" ELSE "tool_use")
                 /\ x.call = y.call /\ (y.type = "tool-result" => x.result = y.result)
    <3>1. PICK x \in ToSet(r.parts) : Becomes(x, y)
      BY <1>3
    <3>2. CASE x.type = "tool_result"
      BY <3>1, <3>2 DEF Becomes
    <3>3. CASE x.type = "tool_use"
      BY <3>1, <3>3 DEF Becomes
    <3>4. CASE x.type \notin {"tool_use", "tool_result"}
      BY <2>1, <3>1, <3>4 DEF Becomes
    <3> QED
      BY <3>2, <3>3, <3>4
  <2>2. \A x \in calls : \E y \in blocks : y.type = "tool-call" /\ y.call = x.call
    BY <1>4 DEF AllOf, Becomes
  <2> QED
    BY <2>1, <2>2 DEF Matches, AllOf
<1>8. answers \in BOOLEAN
  OBVIOUS
<1> HIDE DEF results, calls
<1>9. \A s \in {corr, body} :
        /\ "toolCallId" \in DOMAIN s => s.toolCallId \in own
        /\ "toolResultId" \in DOMAIN s => answers /\ \E c \in own : s.toolResultId = ResultOf(c)
  <2>1. /\ "toolCallId" \in DOMAIN corr => corr.toolCallId \in own
        /\ "toolResultId" \in DOMAIN corr => \E c \in own : corr.toolResultId = ResultOf(c)
    BY <1>6
  <2> QED
    BY <1>5, <2>1
<1> HIDE DEF answers
<1>10. LinkedBy(body, corr, "toolResultId") => LinkedBy(body, corr, "toolCallId")
  BY <1>5 DEF LinkedBy
<1>11. blocks = ToSet(Get(body, "content", <<>>))
  BY <1>5 DEF blocks
<1>12. \E c, q : AboutOne(body, corr, c, q)
  BY <1>1, <1>2, <1>8, <1>11, <1>9, <1>10, <1>7, NotAtOdds
<1> QED
  BY <1>12 DEF body, content

\* One of the two events of a message.
LEMMA MessageEvent ==
  ASSUME NEW b, Fit(b), NEW type \in {<<"message", "started">>, <<"message", "completed">>},
         NEW message, "state" \notin DOMAIN message, NEW s, "state" \in DOMAIN s,
         DOMAIN s \subseteq {"messageIndex", "state"},
         s.state = (IF type = <<"message", "started">> THEN "running" ELSE "completed"),
         NEW nid, NEW ts, NEW corr, {"runId", "messageId"} \subseteq DOMAIN corr, NEW rev
  PROVE  LET r == Emit(b, type, With(message, s), nid, ts, corr, rev)
         IN  /\ Continues(b, r)
             /\ (\E c, q : AboutOne(message, corr, c, q)) => (~b.failed => ~r.failed)
             /\ ~r.failed => Tells(r, AllValues(Get(message, "content", <<>>)))
<1> DEFINE w == With(message, s)
           r == Emit(b, type, w, nid, ts, corr, rev)
           Good == \E c, q : AboutOne(message, corr, c, q)
<1>1. "state" \in DOMAIN w /\ w.state = s.state
  BY DEF With
<1>2. Get(w, "content", <<>>) = Get(message, "content", <<>>)
  <2>1. "content" \in DOMAIN w <=> "content" \in DOMAIN message
    BY DEF With
  <2>2. "content" \in DOMAIN message => w.content = message.content
    BY DEF With
  <2> HIDE DEF w
  <2> QED
    BY <2>1, <2>2 DEF Get
<1>3. ASSUME NEW e, e.type = type, e.body = w, e.corr = corr, Good
      PROVE  ValidEnvelope(e)
  <2>1. PICK c, q : AboutOne(message, corr, c, q)
    BY <1>3
  <2>2. AboutOne(w, corr, c, q)
    BY <2>1, AboutOneStill
  <2>3. s.state \in LegalStates(e.type) /\ ~StateRequired(e.type)
    <3>1. CASE type = <<"message", "started">>
      BY <1>3, <3>1 DEF LegalStates, StateRequired, Ends
    <3>2. CASE type = <<"message", "completed">>
      BY <1>3, <3>2 DEF LegalStates, StateRequired, Ends
    <3> QED
      BY <3>1, <3>2
  <2>4. e.type[1] = "message"
    BY <1>3
  <2> HIDE DEF w
  <2> QED
    BY <1>1, <1>3, <2>2, <2>3, <2>4, ValidMessage
<1> HIDE DEF w, Good
<1>4. Continues(b, r) /\ (Good => (~b.failed => ~r.failed))
  BY <1>3, Emits
<1>5. ~r.failed => Has(r, type, w, ts)
  BY Emitted
<1> HIDE DEF r
<1>6. ~r.failed => Tells(r, AllValues(Get(w, "content", <<>>)))
  BY <1>5, HasTells
<1> QED
  BY <1>2, <1>4, <1>6 DEF Good, r, w

\* What a row of dimagent says: its attachments, and its parts.
LEMMA DimagentValues ==
  ASSUME NEW r, IsRow(r)
  PROVE  /\ RecordValues(r) = ToSet(r.att) \cup AllValues(r.parts)
         /\ AllValues(r.parts) \subseteq AllValues(DimPartsToCanonical(r.parts))
<1> DEFINE content == DimPartsToCanonical(r.parts)
<1>1. DOMAIN r = {"mid", "role", "run", "parts", "att", "key", "ts", "upd"}
  BY DEF IsRow
<1>2. Values(r) = ToSet(r.att)
  <2>1. /\ Get(r, "v", <<>>) = <<>> /\ Get(r, "summary", <<>>) = <<>>
        /\ Get(r, "enc", <<>>) = <<>> /\ Get(r, "att", <<>>) = r.att
        /\ "output" \notin DOMAIN r
    BY <1>1 DEF Get
  <2> QED
    BY <2>1, NothingTold DEF Values
<1>3. Get(r, "content", <<>>) = <<>> /\ Get(r, "parts", <<>>) = r.parts
  BY <1>1 DEF Get
<1>4. RecordValues(r) = ToSet(r.att) \cup AllValues(r.parts)
  BY <1>2, <1>3, RecordTold, NothingTold
<1>5. ASSUME NEW x \in ToSet(r.parts)
      PROVE  Values(x) \subseteq AllValues(content)
  <2>1. PICK k \in DOMAIN r.parts : x = r.parts[k]
    BY DEF ToSet
  <2> DEFINE y == content[k]
  <2>2. "v" \in DOMAIN y /\ y.v = x.v
    BY <2>1, DimagentParts DEF Becomes
  <2>3. y \in ToSet(content)
    BY DEF ToSet, DimPartsToCanonical
  <2>4. Plain(x)
    <3>1. x \in ToSet(r.parts)
      BY DEF ToSet
    <3> QED
      BY <3>1 DEF IsRow, Plain
  <2> HIDE DEF y, content
  <2>5. Values(x) \subseteq Values(y)
    BY <2>2, <2>4, PlainValues
  <2> QED
    BY <2>3, <2>5 DEF AllValues
<1> QED
  BY <1>4, <1>5 DEF AllValues

\* The message of a row.
LEMMA RowMessages ==
  ASSUME NEW b, Fit(b), NEW r, IsRow(r)
  PROVE  LET s == RowMessage(b, r)
         IN  /\ Continues(b, s)
             /\ ~Refused("dimagent", r) => (~b.failed => ~s.failed)
             /\ ~s.failed => Tells(s, RecordValues(r))
<1> DEFINE content == DimPartsToCanonical(r.parts)
           message == [role |-> CanonicalRole(r.role), content |-> content]
           part == ToolPart(r)
           own == MessageCorr(b, <<"message">> \o r.mid)
           link == [toolCallId |-> part[1].call, toolResultId |-> ResultOf(part[1].call)]
           corr == IF part = <<>> THEN own ELSE With(own, link)
           shown == [nativeType |-> "attachment", value |-> r.att]
           b1 == IF r.att = <<>> THEN b ELSE EmitUnknown(b, "attachment", r.att, r.mid, r.ts, own)
           s1 == [messageIndex |-> b.messageIndex, state |-> "running"]
           s2 == [state |-> "completed"]
           b2 == Emit(b1, <<"message", "started">>, With(message, s1), r.mid, r.ts, corr, 1)
           b3 == Emit(b2, <<"message", "completed">>, With(message, s2), r.mid, r.upd, corr, 2)
           s == RowMessage(b, r)
<1>1. s = [b3 EXCEPT !.messageIndex = @ + 1]
  BY DEF RowMessage
<1>2. /\ DOMAIN own = {"runId", "turnId", "messageId"}
      /\ part # <<>> => /\ DOMAIN corr = DOMAIN own \cup {"toolCallId", "toolResultId"}
                        /\ corr.toolCallId = part[1].call
                        /\ corr.toolResultId = ResultOf(part[1].call)
      /\ part = <<>> => corr = own
  <2>1. DOMAIN own = {"runId", "turnId", "messageId"}
    BY DEF MessageCorr, With, RunCorr
  <2> HIDE DEF own
  <2>2. /\ DOMAIN link = {"toolCallId", "toolResultId"}
        /\ link.toolCallId = part[1].call /\ link.toolResultId = ResultOf(part[1].call)
    OBVIOUS
  <2> HIDE DEF link, part
  <2> QED
    BY <2>1, <2>2 DEF With
<1>3. "state" \notin DOMAIN message /\ Get(message, "content", <<>>) = content
  BY DEF Get
<1>4. ~Refused("dimagent", r) => \E c, q : AboutOne(message, corr, c, q)
  <2> HIDE DEF corr, own, part
  <2>1. /\ part = <<>> => DOMAIN corr \cap {"toolCallId", "toolResultId"} = {}
        /\ part # <<>> => /\ {"toolCallId", "toolResultId"} \subseteq DOMAIN corr
                          /\ corr.toolCallId = part[1].call
                          /\ corr.toolResultId = ResultOf(part[1].call)
    BY <1>2
  <2> QED
    BY <2>1, RowAbout DEF part
<1>5. {"runId", "messageId"} \subseteq DOMAIN corr
  <2> HIDE DEF corr, own, part
  <2> QED
    BY <1>2
<1>6. /\ DOMAIN s1 \subseteq {"messageIndex", "state"} /\ "state" \in DOMAIN s1 /\ s1.state = "running"
      /\ DOMAIN s2 \subseteq {"messageIndex", "state"} /\ "state" \in DOMAIN s2 /\ s2.state = "completed"
  OBVIOUS
<1>7. Get(shown, "value", <<>>) = r.att
  BY DEF Get
<1> HIDE DEF content, message, part, own, link, corr, s1, s2, s
<1>8. /\ Continues(b, b1) /\ (~b.failed => ~b1.failed)
      /\ ~b.failed => Tells(b1, ToSet(r.att))
  <2>1. CASE r.att = <<>>
    <3>1. b1 = b
      BY <2>1
    <3> QED
      BY <2>1, <3>1, NothingTold DEF Continues, Tells
  <2>2. CASE r.att # <<>>
    <3>1. b1 = EmitUnknown(b, "attachment", r.att, r.mid, r.ts, own)
      BY <2>2
    <3> HIDE DEF b1
    <3>2. Continues(b, b1) /\ (~b.failed => ~b1.failed /\ Has(b1, <<"unknown", "observed">>, shown, r.ts))
      BY <3>1, Unknowns
    <3> HIDE DEF shown
    <3> QED
      BY <1>7, <3>2, HasTells
  <2> QED
    BY <2>1, <2>2
<1> HIDE DEF b1
<1>9. /\ Continues(b1, b2)
      /\ ~Refused("dimagent", r) => (~b1.failed => ~b2.failed)
  <2>1. Fit(b1)
    BY <1>8 DEF Continues
  <2> QED
    BY <1>3, <1>4, <1>5, <1>6, <2>1, MessageEvent
<1> HIDE DEF b2
<1>10. /\ Continues(b2, b3)
       /\ ~Refused("dimagent", r) => (~b2.failed => ~b3.failed)
       /\ ~b3.failed => Tells(b3, AllValues(content))
  <2>1. Fit(b2)
    BY <1>9 DEF Continues
  <2>2. LET z == Emit(b2, <<"message", "completed">>, With(message, s2), r.mid, r.upd, corr, 2)
        IN  /\ Continues(b2, z)
            /\ (\E c, q : AboutOne(message, corr, c, q)) => (~b2.failed => ~z.failed)
            /\ ~z.failed => Tells(z, AllValues(Get(message, "content", <<>>)))
    BY <1>3, <1>5, <1>6, <2>1, MessageEvent
  <2> QED
    BY <1>3, <1>4, <2>2
<1> HIDE DEF b3
<1>11. Continues(b3, s) /\ (~b3.failed => ~s.failed) /\ (b3.failed => s.failed)
  <2>1. Fit(b3)
    BY <1>10 DEF Continues
  <2>2. Same(b3, s)
    BY <1>1, <2>1 DEF Fit, Same
  <2>3. b3.failed => s.failed
    BY <2>2 DEF Same
  <2> QED
    BY <2>1, <2>2, <2>3, SameEvents
<1>12. Continues(b2, s) /\ Continues(b1, s) /\ Continues(b, s)
  BY <1>8, <1>9, <1>10, <1>11, ContinuesOn
<1>13. ASSUME ~s.failed
       PROVE  Tells(s, RecordValues(r))
  <2>1. ~b.failed /\ ~b3.failed
    BY <1>11, <1>12, <1>13 DEF Continues
  <2>2. Tells(s, ToSet(r.att))
    BY <1>8, <1>12, <2>1, TellsStill
  <2>3. Tells(s, AllValues(content))
    BY <1>10, <1>11, <2>1, TellsStill
  <2>4. /\ RecordValues(r) = ToSet(r.att) \cup AllValues(r.parts)
        /\ AllValues(r.parts) \subseteq AllValues(content)
    BY DimagentValues DEF content
  <2> QED
    BY <2>2, <2>3, <2>4 DEF Tells
<1>14. ~Refused("dimagent", r) => (~b.failed => ~s.failed)
  BY <1>8, <1>9, <1>10, <1>11
<1> QED
  BY <1>12, <1>13, <1>14 DEF s

\* A call that a row declares.
LEMMA StartsTool ==
  ASSUME NEW b, Fit(b), NEW r, NEW x
  PROVE  LET s == StartTool(b, r, x) IN Continues(b, s) /\ (~b.failed => ~s.failed)
<1> DEFINE s == StartTool(b, r, x)
           d == Declare(b, x.call, x.v)
           body == [toolName |-> "tool", args |-> x.v, toolIndex |-> b.toolIndex, state |-> "running"]
           corr == With(MessageCorr(b, <<"message">> \o r.mid), [toolCallId |-> x.call])
           m == Emit(d, <<"tool", "started">>, body, r.mid, r.ts, corr, 1)
<1>1. s = IF x.type # "tool_use" \/ x.call = None THEN b
          ELSE [m EXCEPT !.toolIndex = @ + 1]
  BY DEF StartTool
<1>2. {"runId", "toolCallId"} \subseteq DOMAIN corr
  BY DEF With, MessageCorr, RunCorr
<1>3. DOMAIN body = {"toolName", "args", "toolIndex", "state"} /\ body.state = "running"
  OBVIOUS
<1> HIDE DEF body, corr, s
<1>4. ASSUME NEW e, e.type = <<"tool", "started">>, e.body = body, e.corr = corr
      PROVE  ValidEnvelope(e)
  <2>1. e.type[1] = "tool" /\ "content" \notin DOMAIN e.body
    BY <1>3, <1>4
  <2>2. RequiredCorrelation(e.type[1]) \subseteq DOMAIN e.corr
    BY <1>2, <1>4, <2>1 DEF RequiredCorrelation
  <2>3. "state" \in DOMAIN e.body /\ e.body.state \in LegalStates(e.type)
    BY <1>3, <1>4 DEF LegalStates, Ends
  <2>4. ToolBody(e.type, e.body)
    BY <1>3, <1>4 DEF ToolBody
  <2> QED
    BY <2>1, <2>2, <2>3, <2>4, ValidByKind
<1>5. Continues(b, d) /\ (~b.failed => ~d.failed)
  BY Declares
<1> HIDE DEF d
<1>6. Continues(d, m) /\ (~d.failed => ~m.failed)
  BY <1>4, <1>5, Emits DEF Continues
<1> HIDE DEF m
<1>7. CASE s = b
  BY <1>7 DEF Continues, s
<1>8. CASE s = [m EXCEPT !.toolIndex = @ + 1]
  <2>1. Fit(m)
    BY <1>6 DEF Continues
  <2>2. Same(m, s)
    BY <1>8, <2>1 DEF Fit, Same
  <2>3. Continues(m, s) /\ (~m.failed => ~s.failed)
    BY <2>1, <2>2, SameEvents
  <2>4. Continues(b, s)
    BY <1>5, <1>6, <2>3, ContinuesOn
  <2> QED
    BY <1>5, <1>6, <2>3, <2>4 DEF s
<1> QED
  BY <1>1, <1>7, <1>8

\* The calls that a row declares, one after the other.
LEMMA StartsTools ==
  ASSUME NEW b, Fit(b), NEW r, Row(r.parts)
  PROVE  LET s == CallsOf(b, r, r.parts) IN Continues(b, s) /\ (~b.failed => ~s.failed)
<1> DEFINE s == CallsOf(b, r, r.parts)
           how == "dimagent calls"
<1>1. \A x, y : Taken(how, r, x, y) = StartTool(x, r, y)
  BY DEF Taken
<1>2. \E g : Iterates(g, how, r, b, r.parts, DOMAIN r.parts) /\ s = g[DOMAIN r.parts]
  BY CallFold
<1>3. \A x : \A k \in DOMAIN r.parts : Fit(x) => Continues(x, Taken(how, r, x, r.parts[k]))
  BY <1>1, StartsTool
<1>4. \A x : \A k \in DOMAIN r.parts : Fit(x) /\ ~x.failed => ~Taken(how, r, x, r.parts[k]).failed
  BY <1>1, StartsTool
<1> HIDE DEF s, how
<1>5. Fold(s, how, r, b, r.parts) /\ Continues(b, s)
  BY <1>2, <1>3, Folding
<1>6. ~b.failed => ~s.failed
  BY <1>4, <1>5, Succeeding
<1> QED
  BY <1>5, <1>6 DEF s

\* The tools of a row.
LEMMA RowToolsGoOn ==
  ASSUME NEW b, Fit(b), NEW r, IsRow(r)
  PROVE  LET s == RowTools(b, r) IN Continues(b, s) /\ (~b.failed => ~s.failed)
<1> DEFINE s == RowTools(b, r)
           part == ToolPart(r)
           x == part[1]
           tool == Declared(b, x.call)
           link == [toolCallId |-> x.call, toolResultId |-> ResultOf(x.call)]
           own == IF x.call \in DOMAIN b.declared THEN RunCorr(b.run)
                  ELSE MessageCorr(b, <<"message">> \o r.mid)
           corr == With(own, link)
           failed == FailedPart(x)
           m == EmitTool(b, tool.name, tool.args, x.content, failed, r.mid, r.upd, corr)
           calls == CallsOf(b, r, r.parts)
<1>1. s = IF r.role = "assistant" THEN calls ELSE IF part = <<>> THEN b ELSE m
  BY DEF RowTools, CallsOf
<1>2. {"runId", "toolCallId"} \subseteq DOMAIN corr
  <2>1. "runId" \in DOMAIN own
    BY DEF With, MessageCorr, RunCorr
  <2>2. "toolCallId" \in DOMAIN link
    OBVIOUS
  <2> HIDE DEF own, link
  <2> QED
    BY <2>1, <2>2 DEF With
<1>3. part # <<>> => failed \in BOOLEAN
  <2>1. part = <<>> \/ x.isError \in BOOLEAN
    BY AnsweringPart
  <2> QED
    BY <2>1 DEF FailedPart
<1> HIDE DEF part, tool, link, own, corr, failed, s
<1>4. part # <<>> => Continues(b, m) /\ (~b.failed => ~m.failed)
  BY <1>2, <1>3, Tools
<1>5. Continues(b, calls) /\ (~b.failed => ~calls.failed)
  <2>1. Row(r.parts)
    BY DEF IsRow, Row, ToSet
  <2> QED
    BY <2>1, StartsTools
<1>6. Continues(b, b)
  BY DEF Continues
<1> HIDE DEF m, calls
<1> QED
  BY <1>1, <1>4, <1>5, <1>6 DEF s

\* The run of a row.
LEMMA EntersRun ==
  ASSUME NEW b, Fit(b), NEW r
  PROVE  LET s == EnterRun(b, r) IN Continues(b, s) /\ (~b.failed => ~s.failed)
<1> DEFINE s == EnterRun(b, r)
           c == EmitClose(b, "completed", r.ts)
           d == EmitOpen(c, <<"run">> \o r.run, r.run, r.ts)
           seed == <<"nolabel">> \o r.mid
           n == EmitOpen(b, <<"run">> \o seed, seed, r.ts)
<1>1. s \in {b, d, n}
  BY DEF EnterRun, OpenDimagentRun, CloseDimagentRun
<1> HIDE DEF s
<1>2. Continues(b, b)
  BY DEF Continues
<1>3. Continues(b, n) /\ (~b.failed => ~n.failed)
  BY Opens
<1>4. Continues(b, c) /\ (~b.failed => ~c.failed)
  BY Closes
<1> HIDE DEF c, n
<1>5. Continues(c, d) /\ (~c.failed => ~d.failed)
  BY <1>4, Opens DEF Continues
<1> HIDE DEF d
<1>6. Continues(b, d)
  BY <1>4, <1>5, ContinuesOn
<1> QED
  BY <1>1, <1>2, <1>3, <1>4, <1>5, <1>6 DEF s

\* A step of the import goes on; it fails only at a row that is not taken, and
\* tells the row otherwise.
LEMMA DimagentSteps ==
  ASSUME NEW b, Fit(b), NEW r, IsRow(r)
  PROVE  LET s == DimagentStep(b, r)
         IN  /\ Continues(b, s)
             /\ ~Refused("dimagent", r) => (~b.failed => ~s.failed)
             /\ ~s.failed => Tells(s, RecordValues(r))
<1> DEFINE c == EnterRun(b, r)
           m == RowMessage(c, r)
           s == DimagentStep(b, r)
<1>1. s = RowTools(m, r)
  BY DEF DimagentStep
<1> HIDE DEF s
<1>2. Continues(b, c) /\ (~b.failed => ~c.failed)
  BY EntersRun
<1>3. Fit(c)
  BY <1>2 DEF Continues
<1> HIDE DEF c
<1>4. /\ Continues(c, m)
      /\ ~Refused("dimagent", r) => (~c.failed => ~m.failed)
      /\ ~m.failed => Tells(m, RecordValues(r))
  BY <1>3, RowMessages
<1>5. Fit(m)
  BY <1>4 DEF Continues
<1> HIDE DEF m
<1>6. Continues(m, s) /\ (~m.failed => ~s.failed)
  BY <1>1, <1>5, RowToolsGoOn
<1>7. Continues(b, s)
  BY <1>2, <1>4, <1>6, ContinuesOn
<1>8. ASSUME ~s.failed
      PROVE  Tells(s, RecordValues(r))
  <2>1. ~m.failed
    BY <1>6, <1>8 DEF Continues
  <2> QED
    BY <1>4, <1>6, <2>1, TellsStill
<1> QED
  BY <1>2, <1>4, <1>6, <1>7, <1>8 DEF s

\* What is appended to a sequence.
LEMMA Appended ==
  ASSUME NEW S, NEW p \in Seq(S), NEW e \in S
  PROVE  /\ Append(p, e) \in Seq(S) /\ Len(Append(p, e)) = Len(p) + 1
         /\ Append(p, e)[Len(p) + 1] = e
OBVIOUS

\* The rank of a key, of rows with one key that of their place.
LEMMA KeyRanks ==
  ASSUME NEW key \in Int \X Int, NEW i \in Int
  PROVE  Append(key, i) \in Ranks(3) /\ Append(key, i)[3] = i
<1> DEFINE q == Append(key, i)
<1>1. PICK a \in Int, c \in Int : key = <<a, c>>
  OBVIOUS
<1>2. key \in Seq(Int) /\ Len(key) = 2
  BY <1>1
<1>3. q \in Seq(Int) /\ Len(q) = Len(key) + 1 /\ q[Len(key) + 1] = i
  BY <1>2, Appended
<1> HIDE DEF q
<1>4. Len(q) = 3 /\ q[3] = i
  BY <1>2, <1>3
<1> DEFINE n == Len(q)
<1>5. q \in [1..n -> Int]
  BY <1>3
<1> HIDE DEF n
<1>6. n = 3
  BY <1>4 DEF n
<1> QED
  BY <1>4, <1>5, <1>6 DEF Ranks, q

\* The rows are read in the order of their keys, each of them once.
LEMMA ParsedRows ==
  ASSUME NEW rows, IsDimagentLog(rows)
  PROVE  LET parsed == ParseRows(rows)
         IN  Row(parsed) /\ DOMAIN parsed = DOMAIN rows /\ ToSet(parsed) = ToSet(rows)
<1> DEFINE D == DOMAIN rows
           Key(i) == Append(rows[i].key, i)
           B(i) == {j \in D : RowBefore(rows, j, i)}
           f == [i \in D |-> RowPlace(rows, i)]
           parsed == ParseRows(rows)
<1>1. PICK n \in Nat : D = 1..n
  BY DEF IsDimagentLog, Row
<1>2. ASSUME NEW i \in D
      PROVE  Key(i) \in Ranks(3) /\ Key(i)[3] = i
  <2>1. IsRow(rows[i])
    BY DEF IsDimagentLog, ToSet
  <2>2. rows[i].key \in Int \X Int /\ i \in Int
    BY <1>1, <2>1 DEF IsRow
  <2> QED
    BY <2>2, KeyRanks
<1>3. ASSUME NEW i \in D, NEW j \in D
      PROVE  RowBefore(rows, i, j) <=> Below(Key(i), Key(j))
  BY DEF RowBefore, Below
<1>4. ASSUME NEW i \in D, NEW j \in D, Key(i) = Key(j)
      PROVE  i = j
  BY <1>2, <1>4
<1> HIDE DEF Key
<1>5. IsFiniteSet(D) /\ Cardinality(D) = n
  BY <1>1, FS_Interval
<1>6. ASSUME NEW i \in D
      PROVE  /\ i \notin B(i) /\ B(i) \subseteq D
             /\ IsFiniteSet(B(i)) /\ Cardinality(B(i)) \in 0..(n - 1)
             /\ f[i] = Cardinality(B(i)) + 1
  <2>1. i \notin B(i) /\ B(i) \in SUBSET (D \ {i})
    BY <1>2, <1>3, BelowOrder
  <2>2. IsFiniteSet(D \ {i}) /\ Cardinality(D \ {i}) = n - 1
    BY <1>5, FS_RemoveElement
  <2>3. f[i] = Cardinality(B(i)) + 1
    BY DEF RowPlace
  <2>4. \A S : Cardinality(S) = Cardinality(S)
    BY DEF Cardinality
  <2> HIDE DEF B, f
  <2>5. IsFiniteSet(B(i)) /\ Cardinality(B(i)) <= n - 1
    BY <2>1, <2>2, FS_Subset
  <2>6. Cardinality(B(i)) \in Nat
    BY <2>5, FS_CardinalityType
  <2> QED
    BY <2>1, <2>3, <2>4, <2>5, <2>6
<1>7. ASSUME NEW i \in D, NEW j \in D, RowBefore(rows, i, j)
      PROVE  f[i] # f[j]
  <2>1. i \in B(j) /\ i \notin B(i) /\ B(i) \subseteq B(j)
    <3>1. i \in B(j) /\ i \notin B(i)
      BY <1>6, <1>7
    <3>2. ASSUME NEW k \in B(i)
          PROVE  k \in B(j)
      BY <1>2, <1>3, <1>7, BelowOrder
    <3> QED
      BY <3>1, <3>2
  <2> HIDE DEF B, f
  <2>2. Cardinality(B(i)) # Cardinality(B(j))
    BY <1>6, <2>1, FS_Subset
  <2> QED
    BY <1>6, <2>2
<1>8. ASSUME NEW i \in D, NEW j \in D, f[i] = f[j]
      PROVE  i = j
  <2>1. ~Below(Key(i), Key(j)) /\ ~Below(Key(j), Key(i))
    BY <1>3, <1>7, <1>8
  <2>2. Key(i) = Key(j)
    BY <1>2, <2>1, BelowOrder
  <2> QED
    BY <1>4, <2>2
<1>9. /\ DOMAIN parsed = D
      /\ \A k \in D : parsed[k] = rows[CHOOSE i \in D : RowPlace(rows, i) = k]
  BY DEF ParseRows
<1>10. \A i \in D : RowPlace(rows, i) = f[i]
  OBVIOUS
<1>11. f \in [D -> D] /\ DOMAIN f = D
  <2>1. \A i \in D : f[i] \in 1..n
    <3> HIDE DEF f, B
    <3> QED
      BY <1>6
  <2> QED
    BY <1>1, <2>1
<1> HIDE DEF f, B, parsed
<1>12. \A k \in D : \E i \in D : f[i] = k
  <2>1. f \in Injection(D, D)
    BY <1>8, <1>11 DEF Injection, IsInjective
  <2>2. f \in Surjection(D, D)
    BY <1>5, <2>1, FS_Injection
  <2> QED
    BY <2>2 DEF Surjection
<1>13. ASSUME NEW k \in D
       PROVE  \E i \in D : f[i] = k /\ parsed[k] = rows[i]
  <2> DEFINE i == CHOOSE i \in D : RowPlace(rows, i) = k
  <2>1. \E x \in D : RowPlace(rows, x) = k
    BY <1>10, <1>12
  <2>2. i \in D /\ RowPlace(rows, i) = k
    BY <2>1
  <2>3. parsed[k] = rows[i]
    BY <1>9
  <2> HIDE DEF i
  <2> QED
    BY <1>10, <2>2, <2>3
<1>14. ASSUME NEW i \in D
       PROVE  f[i] \in D /\ parsed[f[i]] = rows[i]
  <2>1. f[i] \in D
    BY <1>11
  <2> QED
    BY <1>8, <1>13, <2>1
<1>15. ToSet(parsed) = ToSet(rows)
  BY <1>9, <1>13, <1>14 DEF ToSet
<1>16. Row(parsed)
  <2>1. parsed = [k \in D |-> rows[CHOOSE i \in D : RowPlace(rows, i) = k]]
    BY DEF parsed, ParseRows
  <2>2. \A k \in D : parsed[k] \in ToSet(parsed)
    BY <1>9 DEF ToSet
  <2>3. parsed \in [1..n -> ToSet(parsed)]
    BY <1>1, <2>1, <2>2
  <2> QED
    BY <2>3 DEF Row
<1> QED
  BY <1>9, <1>15, <1>16 DEF parsed

\* The import of rows of dimagent tells each of them, or throws at one.
LEMMA DimagentImports ==
  ASSUME NEW native, IsDimagentLog(native), NEW h
  PROVE  LET made == ImportDimagentSession(native, h)
         IN  \/ made.failed = TRUE /\ \E r \in ToSet(native) : Refused("dimagent", r)
             \/ /\ made.failed = FALSE /\ made.source = native /\ ValidBundle(made)
                /\ \A r \in ToSet(native) :
                     RecordValues(r) \subseteq EvidenceValues(made.events)
<1> DEFINE made == ImportDimagentSession(native, h)
           rows == ParseRows(native)
           b0 == Emit(Started(h), <<"session", "started">>, [reason |-> "import"],
                      <<"session", 0>>, rows[1].ts, <<>>, 0)
           f == FoldLeft(DimagentStep, b0, rows)
           b == EmitEnd(EmitClose(f, "completed", Last(rows).upd))
           Good == \A r \in ToSet(native) : ~Refused("dimagent", r)
<1>1. made = MakeBundle("dimagent", native, b)
  BY DEF ImportDimagentSession, CloseDimagentRun
<1>2. Row(rows) /\ ToSet(rows) = ToSet(native)
  BY ParsedRows
<1>3. Fit(b0) /\ ~b0.failed
  BY Beginning
<1> HIDE DEF b0, rows
<1>4. \A k \in DOMAIN rows : IsRow(rows[k]) /\ (Good => ~Refused("dimagent", rows[k]))
  <2>1. \A r \in ToSet(native) : IsRow(r)
    BY DEF IsDimagentLog, ToSet
  <2>2. \A k \in DOMAIN rows : rows[k] \in ToSet(rows)
    BY DEF ToSet
  <2> QED
    BY <1>2, <2>1, <2>2
<1> HIDE DEF Good
<1>5. \A x, y : Taken("dimagent", <<>>, x, y) = DimagentStep(x, y)
  BY DEF Taken
<1>6. Fold(f, "dimagent", <<>>, b0, rows) /\ Continues(b0, f)
  <2>1. \E g : Iterates(g, "dimagent", <<>>, b0, rows, DOMAIN rows) /\ f = g[DOMAIN rows]
    BY <1>2, DimagentFold
  <2>2. \A x : \A k \in DOMAIN rows : Fit(x) => Continues(x, Taken("dimagent", <<>>, x, rows[k]))
    BY <1>4, <1>5, DimagentSteps
  <2> HIDE DEF f
  <2> QED
    BY <1>2, <1>3, <2>1, <2>2, Folding
<1> HIDE DEF f
<1>7. Good => ~f.failed
  <2> SUFFICES ASSUME Good
               PROVE  ~f.failed
    OBVIOUS
  <2>1. \A x : \A k \in DOMAIN rows :
          Fit(x) /\ ~x.failed => ~Taken("dimagent", <<>>, x, rows[k]).failed
    BY <1>4, <1>5, DimagentSteps
  <2> QED
    BY <1>2, <1>3, <1>6, <2>1, Succeeding
<1>8. Continues(f, b) /\ (~f.failed => ~b.failed)
  BY <1>6, Finishing DEF Continues
<1> HIDE DEF b
<1>9. CASE b.failed
  <2>1. made = [harness |-> "dimagent", failed |-> TRUE]
    BY <1>1, <1>9, Makes
  <2>2. made.failed = TRUE
    BY <2>1
  <2>3. ~Good
    BY <1>7, <1>8, <1>9
  <2> QED
    BY <2>2, <2>3 DEF Good
<1>10. CASE ~b.failed
  <2>1. PICK pivot : Bundles(made, "dimagent", native, b, pivot)
    BY <1>1, <1>10, Makes
  <2> HIDE DEF made
  <2>2. made.failed = FALSE /\ made.source = native /\ made.events = b.events /\ ValidBundle(made)
    BY <1>8, <2>1, Sealing DEF Continues
  <2>3. ~f.failed
    BY <1>8, <1>10 DEF Continues
  <2>4. ASSUME NEW r \in ToSet(native)
        PROVE  Tells(b, RecordValues(r))
    <3>1. PICK k \in DOMAIN rows : r = rows[k]
      BY <1>2 DEF ToSet
    <3>2. PICK x : /\ Fit(x) /\ ~x.failed
                   /\ ~Taken("dimagent", <<>>, x, rows[k]).failed
                   /\ Continues(Taken("dimagent", <<>>, x, rows[k]), f)
      BY <1>2, <1>6, <2>3, StageOf
    <3>3. Tells(Taken("dimagent", <<>>, x, rows[k]), RecordValues(r))
      BY <1>4, <1>5, <3>1, <3>2, DimagentSteps
    <3>4. Tells(f, RecordValues(r))
      BY <3>2, <3>3, TellsStill
    <3> QED
      BY <1>8, <3>4, TellsStill
  <2> QED
    BY <2>2, <2>4 DEF Tells, made
<1> QED
  BY <1>9, <1>10

-----------------------------------------------------------------------------
(* The session that is imported.                                           *)

Names4 == {"claude", "codex", "pi", "dimagent"}
ImportOf(name, native, h) ==
  CASE name = "claude" -> ImportClaudeSession(native, h)
    [] name = "codex" -> ImportCodexSession(native, h)
    [] name = "pi" -> ImportPiSession(native, h)
    [] name = "dimagent" -> ImportDimagentSession(native, h)

\* Whatever is imported, the bundle names it as its source.
LEMMA ImportNamesSource ==
  ASSUME NEW name \in Names4, NEW native, NEW h
  PROVE  LET made == ImportOf(name, native, h)
         IN  made.failed = TRUE \/ (made.failed = FALSE /\ made.source = native)
<1> DEFINE made == ImportOf(name, native, h)
<1>1. ASSUME NEW x, x = [harness |-> name, failed |-> TRUE]
      PROVE  x.failed = TRUE
  BY <1>1
<1>2. CASE name = "claude"
  <2>1. made = ImportClaudeSession(native, h)
    BY <1>2 DEF ImportOf
  <2>2. \E b : made = MakeBundle("claude", native, b)
    BY <2>1 DEF ImportClaudeSession
  <2> HIDE DEF made
  <2>3. made = [harness |-> name, failed |-> TRUE] \/ \E b, pivot : Bundles(made, "claude", native, b, pivot)
    BY <1>2, <2>2, Makes
  <2> QED
    BY <1>1, <2>3, Sealing DEF made
<1>3. CASE name = "codex"
  <2>1. made = ImportCodexSession(native, h)
    BY <1>3 DEF ImportOf
  <2>2. \E b : made = MakeBundle("codex", native, b)
    BY <2>1 DEF ImportCodexSession
  <2> HIDE DEF made
  <2>3. made = [harness |-> name, failed |-> TRUE] \/ \E b, pivot : Bundles(made, "codex", native, b, pivot)
    BY <1>3, <2>2, Makes
  <2> QED
    BY <1>1, <2>3, Sealing DEF made
<1>4. CASE name = "pi"
  <2>1. made = ImportPiSession(native, h)
    BY <1>4 DEF ImportOf
  <2>2. \E b : made = MakeBundle("pi", native, b)
    BY <2>1 DEF ImportPiSession
  <2> HIDE DEF made
  <2>3. made = [harness |-> name, failed |-> TRUE] \/ \E b, pivot : Bundles(made, "pi", native, b, pivot)
    BY <1>4, <2>2, Makes
  <2> QED
    BY <1>1, <2>3, Sealing DEF made
<1>5. CASE name = "dimagent"
  <2>1. made = ImportDimagentSession(native, h)
    BY <1>5 DEF ImportOf
  <2>2. \E b : made = MakeBundle("dimagent", native, b)
    BY <2>1 DEF ImportDimagentSession
  <2> HIDE DEF made
  <2>3. made = [harness |-> name, failed |-> TRUE] \/ \E b, pivot : Bundles(made, "dimagent", native, b, pivot)
    BY <1>5, <2>2, Makes
  <2> QED
    BY <1>1, <2>3, Sealing DEF made
<1> QED
  BY <1>2, <1>3, <1>4, <1>5 DEF Names4

\* The import of a log: a valid bundle of it that accounts for each record, or
\* none, for a record that no importer takes.
Told(name, native, made) ==
  \/ made.failed = TRUE /\ \E r \in ToSet(native) : Refused(name, r)
  \/ /\ made.failed = FALSE /\ made.source = native /\ ValidBundle(made)
     /\ \A r \in ToSet(native) :
          /\ Accounted(name, r, made.events)
          /\ LeftOut(name, r, made.loss)
             \/ RecordValues(r) \subseteq EvidenceValues(made.events)

\* That is so for each of the importers.
LEMMA ImportsTold ==
  ASSUME NEW name \in Names4, NEW native, IsLog(name, native), NEW h
  PROVE  Told(name, native, ImportOf(name, native, h))
<1> DEFINE made == ImportOf(name, native, h)
<1>1. CASE name = "claude"
  <2>1. made = ImportClaudeSession(native, h) /\ IsClaudeLog(native)
    BY <1>1 DEF ImportOf, IsLog
  <2> HIDE DEF made
  <2>2. /\ made.failed = FALSE /\ made.source = native /\ ValidBundle(made)
        /\ \A e \in ToSet(native) : RecordValues(e) \subseteq EvidenceValues(made.events)
    BY <2>1, ClaudeImports
  <2>3. \A e : Accounted(name, e, made.events)
    BY <1>1 DEF Accounted
  <2> QED
    BY <2>2, <2>3 DEF Told, made
<1>2. CASE name = "codex"
  <2> DEFINE x == ImportCodexSession(native, h)
  <2>1. made = x /\ IsCodexLog(native)
    BY <1>2 DEF ImportOf, IsLog
  <2>2. /\ x.failed = FALSE /\ x.source = native /\ ValidBundle(x)
        /\ \A r \in ToSet(native) :
             \/ LeftOut("codex", r, x.loss)
             \/ RecordValues(r) \subseteq EvidenceValues(x.events) /\ Timed(x, r.ts)
    BY <2>1, CodexImports
  <2> HIDE DEF x, made
  <2>3. \A r \in ToSet(native) : Accounted(name, r, made.events)
    <3>1. ASSUME NEW r, LeftOut("codex", r, x.loss)
          PROVE  Accounted(name, r, made.events)
      BY <1>2, <3>1 DEF Accounted, LeftOut
    <3>2. ASSUME NEW r, Timed(x, r.ts)
          PROVE  Accounted(name, r, made.events)
      BY <2>1, <3>2 DEF Accounted, Timed
    <3> QED
      BY <2>2, <3>1, <3>2
  <2> QED
    BY <1>2, <2>1, <2>2, <2>3 DEF Told, made
<1>3. CASE name = "pi"
  <2> DEFINE x == ImportPiSession(native, h)
  <2>1. made = x /\ IsPiLog(native)
    BY <1>3 DEF ImportOf, IsLog
  <2>2. \/ x.failed = TRUE /\ \E r \in ToSet(native) : Refused("pi", r)
        \/ /\ x.failed = FALSE /\ x.source = native /\ ValidBundle(x)
           /\ \A r \in ToSet(native) :
                /\ RecordValues(r) \subseteq EvidenceValues(x.events)
                /\ Timed(x, r.ts)
    BY <2>1, PiImports
  <2> HIDE DEF x, made
  <2>3. \A r : Timed(x, r.ts) => Accounted(name, r, made.events)
    BY <2>1 DEF Accounted, Timed
  <2> QED
    BY <1>3, <2>1, <2>2, <2>3 DEF Told, made
<1>4. CASE name = "dimagent"
  <2>1. made = ImportDimagentSession(native, h) /\ IsDimagentLog(native)
    BY <1>4 DEF ImportOf, IsLog
  <2> HIDE DEF made
  <2>2. \/ made.failed = TRUE /\ \E r \in ToSet(native) : Refused("dimagent", r)
        \/ /\ made.failed = FALSE /\ made.source = native /\ ValidBundle(made)
           /\ \A r \in ToSet(native) : RecordValues(r) \subseteq EvidenceValues(made.events)
    BY <2>1, DimagentImports
  <2>3. \A r : Accounted(name, r, made.events)
    BY <1>4 DEF Accounted
  <2> QED
    BY <1>4, <2>2, <2>3 DEF Told, made
<1> QED
  BY <1>1, <1>2, <1>3, <1>4 DEF Names4

\* What a harness writes when a session begins is a log of it.
LEMMA HarnessesWriteLogs ==
  Harnesses \subseteq Names4 /\ \A name \in Harnesses : IsLog(name, Header(name))
  BY ConvertAssumption DEF Names4

\* The log is one of its harness, and the bundle was made of a part of it.
SessionInv ==
  /\ harness \in Harnesses /\ IsLog(harness, log)
  /\ phase # "writing" => \E native : /\ IsLog(harness, native)
                                      /\ ToSet(native) \subseteq ToSet(log)
                                      /\ bundle = ImportOf(harness, native, hash)

\* A log is a sequence, and growing keeps its records.
LEMMA LogsAreRows ==
  ASSUME NEW name \in Names4, NEW native, IsLog(name, native)
  PROVE  /\ Row(native)
         /\ \A r : ToSet(native) \subseteq ToSet(Append(native, r))
<1>1. Row(native)
  <2>1. CASE name = "claude"
    BY <2>1 DEF IsLog, IsClaudeLog, Row, ToSet
  <2>2. CASE name = "codex"
    BY <2>2 DEF IsLog, IsCodexLog, Row, ToSet
  <2>3. CASE name = "pi"
    BY <2>3 DEF IsLog, IsPiLog, Row, ToSet
  <2>4. CASE name = "dimagent"
    BY <2>4 DEF IsLog, IsDimagentLog, Row, ToSet
  <2> QED
    BY <2>1, <2>2, <2>3, <2>4 DEF Names4
<1>2. \A r : ToSet(native) \subseteq ToSet(Append(native, r))
  BY <1>1, AppendRow
<1> QED
  BY <1>1, <1>2

\* The import of a log, whichever importer it is.
LEMMA ImportsFile ==
  ASSUME NEW name, NEW native
  PROVE  ImportFile(name, native) = ImportOf(name, native, hash)
BY DEF ImportFile, ImportOf

\* It is an invariant: a log only grows, by records that leave it a log.
LEMMA SessionInvHolds == Spec => []SessionInv
<1>1. Init => SessionInv
  BY HarnessesWriteLogs DEF Init, SessionInv
<1>2. ASSUME SessionInv, [Next]_vars
      PROVE  SessionInv'
  <2>1. harness \in Names4
    BY <1>2, HarnessesWriteLogs DEF SessionInv
  <2>2. ASSUME harness' = harness, hash' = hash, log' = log, phase # "writing", bundle' = bundle
        PROVE  SessionInv'
    BY <1>2, <2>2 DEF SessionInv
  <2>3. ASSUME harness' = harness, hash' = hash, phase' = phase, bundle' = bundle,
               IsLog(harness, log'), ToSet(log) \subseteq ToSet(log')
        PROVE  SessionInv'
    BY <1>2, <2>3 DEF SessionInv
  <2>4. \A r : ToSet(log) \subseteq ToSet(Append(log, r))
    BY <1>2, <2>1, LogsAreRows DEF SessionInv
  <2>5. CASE Write
    <3>1. \E r : log' = Append(log, r)
      BY <2>5 DEF Write
    <3>2. /\ harness' = harness /\ hash' = hash /\ phase' = phase /\ bundle' = bundle
          /\ IsLog(harness, log')
      BY <2>5 DEF Write
    <3> QED
      BY <2>3, <2>4, <3>1, <3>2
  <2>6. CASE Grow
    <3>1. \E r : log' = Append(log, r)
      BY <2>6 DEF Grow
    <3>2. /\ harness' = harness /\ hash' = hash /\ phase' = phase /\ bundle' = bundle
          /\ IsLog(harness, log')
      BY <2>6 DEF Grow
    <3> QED
      BY <2>3, <2>4, <3>1, <3>2
  <2>7. CASE Import
    <3>1. /\ harness' = harness /\ hash' = hash /\ log' = log
          /\ bundle' = ImportFile(harness, log)
      BY <2>7 DEF Import
    <3>2. bundle' = ImportOf(harness, log, hash)
      BY <3>1, ImportsFile
    <3> QED
      BY <1>2, <3>1, <3>2 DEF SessionInv
  <2>8. CASE Verify
    BY <2>2, <2>8 DEF Verify
  <2>9. CASE \E name \in Targets : Export(name)
    BY <2>2, <2>9 DEF Export
  <2>10. CASE Resume
    BY <2>2, <2>10 DEF Resume
  <2>11. CASE UNCHANGED vars
    BY <1>2, <2>11 DEF SessionInv, vars
  <2> QED
    BY <1>2, <2>5, <2>6, <2>7, <2>8, <2>9, <2>10, <2>11 DEF Next
<1> QED
  BY <1>1, <1>2, PTL DEF Spec

\* No record of a log disappears, whatever the log: its values are in the
\* evidence of the bundle and conformance accounts for it, except for Codex'
\* render stream (codex.ts:128-137) and an output without a call, whose loss the
\* bundle declares; and an import throws only at a record that leaves something
\* unnamed or is about two calls (evidence.ts, conformance.ts).
THEOREM Accounting == Spec => []EveryRecordAccounted
<1>1. SessionInv => EveryRecordAccounted
  <2> SUFFICES ASSUME SessionInv, phase # "writing"
               PROVE  EveryRecordAccounted
    BY DEF EveryRecordAccounted
  <2>1. harness \in Names4
    BY HarnessesWriteLogs DEF SessionInv
  <2>2. PICK native : /\ IsLog(harness, native) /\ ToSet(native) \subseteq ToSet(log)
                      /\ bundle = ImportOf(harness, native, hash)
    BY DEF SessionInv
  <2>3. Told(harness, native, bundle)
    BY <2>1, <2>2, ImportsTold
  <2> QED
    BY <2>2, <2>3 DEF Told, EveryRecordAccounted
<1> QED
  BY <1>1, SessionInvHolds, PTL

\* A bundle verifies exactly against a source that still gives this bundle, how
\* ever the source grew after the import (verifyBundleSources, bundle.ts).
THEOREM Verification == Spec => VerifiedIffUnchanged
<1>1. ASSUME SessionInv, Next, verified' # verified
      PROVE  verified' = <<TRUE>> <=> ImportFile(harness, source) = bundle
  <2>1. Verify
    BY <1>1 DEF Next, Write, Import, Grow, Export, Resume
  <2>2. verified' = <<VerifySources(bundle, source)>> /\ ~bundle.failed /\ phase # "writing"
    BY <2>1 DEF Verify
  <2>3. harness \in Names4
    BY <1>1, HarnessesWriteLogs DEF SessionInv
  <2>4. PICK native : /\ IsLog(harness, native)
                      /\ bundle = ImportOf(harness, native, hash)
    BY <1>1, <2>2 DEF SessionInv
  <2>5. bundle.source = native /\ ValidBundle(bundle)
    <3>1. Told(harness, native, bundle)
      BY <2>3, <2>4, ImportsTold
    <3> QED
      BY <2>2, <3>1 DEF Told
  <2>6. VerifySources(bundle, source) <=> native = source
    BY <2>5 DEF VerifySources
  <2>7. ImportFile(harness, source) = ImportOf(harness, source, hash)
    BY ImportsFile
  <2>8. ASSUME ImportOf(harness, source, hash) = bundle
        PROVE  native = source
    BY <2>2, <2>3, <2>5, <2>8, ImportNamesSource
  <2>9. native = source <=> ImportOf(harness, source, hash) = bundle
    BY <2>4, <2>8
  <2>10. VerifySources(bundle, source) \in BOOLEAN
    BY DEF VerifySources
  <2>11. verified' = <<TRUE>> <=> VerifySources(bundle, source)
    BY <2>2, <2>10
  <2> QED
    BY <2>6, <2>7, <2>9, <2>11
<1>2. ASSUME SessionInv, [Next]_vars
      PROVE  [verified' # verified =>
                (verified' = <<TRUE>> <=> ImportFile(harness, source) = bundle)]_vars
  BY <1>1, <1>2
<1> QED
  BY <1>2, SessionInvHolds, PTL DEF Spec, VerifiedIffUnchanged
=============================================================================
