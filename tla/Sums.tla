-------------------------------- MODULE Sums --------------------------------
(***************************************************************************)
(* Facts about what the store computes from a set of events: the sum of    *)
(* their deltas, MapThenSumSet(delta, S), which gather_prior_actuals and   *)
(* the projection properties use, is well defined on every finite set and  *)
(* does not depend on the order in which the set is walked; and a nonempty *)
(* one has a last event in the order of rebuild_projection. Induction over *)
(* finite sets is done by a smallest counterexample, which needs no        *)
(* operator parameter.                                                     *)
(***************************************************************************)
EXTENDS Store, FiniteSetTheorems, WellFoundedInduction, TLAPS

-----------------------------------------------------------------------------
(***************************************************************************)
(* Induction over the subsets of a finite set.                             *)
(***************************************************************************)

\* A set of counterexamples among the subsets of S has a smallest member.
LEMMA SmallestSubset ==
  ASSUME NEW S, IsFiniteSet(S), NEW B, B \subseteq SUBSET S, B # {}
  PROVE  \E T \in B : \A U \in B : U \subseteq T => U = T
<1>1. SUBSET S = FiniteSubsetsOf(S)
  BY FS_Subset DEF FiniteSubsetsOf
<1>2. PICK T \in B : \A U \in B : <<U, T>> \notin StrictSubsetOrdering(S)
  BY <1>1, WFMin, FS_StrictSubsetOrderingWellFounded
<1>3. ASSUME NEW U \in B, U \subseteq T  PROVE U = T
  BY <1>2, <1>3 DEF StrictSubsetOrdering
<1> QED  BY <1>3

-----------------------------------------------------------------------------
(***************************************************************************)
(* The sum as a recursive function on the subsets of a set.                *)
(***************************************************************************)

\* The element that the sum takes next.
pick(s) == CHOOSE x \in s : TRUE

\* it is the function by which MapThenFoldSet adds up the subsets of S.
SumsSubsets(it, S) ==
  it = [s \in SUBSET S |-> IF s = {} THEN 0 ELSE delta(pick(s)) + it[s \ {pick(s)}]]

sum_of(S) == (CHOOSE f : SumsSubsets(f, S))[S]

LEMMA SumDefinition ==
  ASSUME NEW S
  PROVE  MapThenSumSet(delta, S) = sum_of(S)
BY DEF MapThenSumSet, MapThenFoldSet, sum_of, SumsSubsets, pick

LEMMA PickIn ==
  ASSUME NEW s, s # {}
  PROVE  pick(s) \in s
BY DEF pick

\* Unfolding the function at one subset.
LEMMA SumsAt ==
  ASSUME NEW S, NEW it, SumsSubsets(it, S), NEW s \in SUBSET S
  PROVE  it[s] = IF s = {} THEN 0 ELSE delta(pick(s)) + it[s \ {pick(s)}]
BY DEF SumsSubsets

\* Two such functions agree wherever both are defined.
LEMMA SumsAgree ==
  ASSUME NEW A, NEW B, NEW f, NEW g, SumsSubsets(f, A), SumsSubsets(g, B),
         NEW S, IsFiniteSet(S), S \subseteq A, S \subseteq B
  PROVE  f[S] = g[S]
<1> DEFINE Bad == {s \in SUBSET S : f[s] # g[s]}
<1>1. SUFFICES ASSUME Bad # {}  PROVE FALSE
  OBVIOUS
<1>2. PICK T \in Bad : \A U \in Bad : U \subseteq T => U = T
  <2>1. Bad \subseteq SUBSET S
    OBVIOUS
  <2> HIDE DEF Bad
  <2> QED  BY <1>1, <2>1, SmallestSubset
<1>3. /\ f[T] = IF T = {} THEN 0 ELSE delta(pick(T)) + f[T \ {pick(T)}]
      /\ g[T] = IF T = {} THEN 0 ELSE delta(pick(T)) + g[T \ {pick(T)}]
  BY SumsAt
<1>4. CASE T = {}
  BY <1>3, <1>4
<1>5. CASE T # {}
  <2>1. pick(T) \in T
    BY <1>5, PickIn
  <2>2. T \ {pick(T)} \in SUBSET S /\ T \ {pick(T)} \notin Bad
    BY <1>2, <2>1
  <2>3. f[T \ {pick(T)}] = g[T \ {pick(T)}]
    BY <2>2
  <2> QED  BY <1>3, <1>5, <2>3
<1> QED  BY <1>4, <1>5

\* Such a function exists for every finite set.
LEMMA SumsExist ==
  ASSUME NEW S, IsFiniteSet(S)
  PROVE  \E it : SumsSubsets(it, S)
<1> DEFINE Bad == {s \in SUBSET S : ~ \E it : SumsSubsets(it, s)}
<1>1. SUFFICES ASSUME Bad # {}  PROVE FALSE
  OBVIOUS
<1>2. PICK T \in Bad : \A U \in Bad : U \subseteq T => U = T
  <2>1. Bad \subseteq SUBSET S
    OBVIOUS
  <2> HIDE DEF Bad
  <2> QED  BY <1>1, <2>1, SmallestSubset
<1> DEFINE value(s) == IF s = {} THEN 0 ELSE delta(pick(s)) + sum_of(s \ {pick(s)})
           it == [s \in SUBSET T |-> value(s)]
<1>3. \A U : U \subseteq T /\ U # T => SumsSubsets(CHOOSE f : SumsSubsets(f, U), U)
  BY <1>2
<1>4. ASSUME NEW U, U \subseteq T, U # T
      PROVE  sum_of(U) = value(U)
  <2> DEFINE i == CHOOSE f : SumsSubsets(f, U)
             R == U \ {pick(U)}
             j == CHOOSE f : SumsSubsets(f, R)
  <2>1. SumsSubsets(i, U)
    BY <1>3, <1>4
  <2>2. i[U] = IF U = {} THEN 0 ELSE delta(pick(U)) + i[R]
    <3> HIDE DEF i
    <3> QED  BY <2>1, SumsAt
  <2>3. CASE U = {}
    BY <2>2, <2>3 DEF sum_of
  <2>4. CASE U # {}
    <3>1. pick(U) \in U
      BY <2>4, PickIn
    <3>2. R \subseteq T /\ R # T /\ R \subseteq U
      BY <1>4, <3>1
    <3>3. SumsSubsets(j, R)
      BY <1>3, <3>2
    <3>4. IsFiniteSet(R)
      <4> HIDE DEF R
      <4> QED  BY <3>2, FS_Subset
    <3>5. i[R] = j[R]
      <4> HIDE DEF i, j, R
      <4> QED  BY <2>1, <3>2, <3>3, <3>4, SumsAgree
    <3> QED  BY <2>2, <2>4, <3>5 DEF sum_of
  <2> QED  BY <2>3, <2>4
<1>5. ASSUME NEW s \in SUBSET T
      PROVE  value(s) = IF s = {} THEN 0 ELSE delta(pick(s)) + it[s \ {pick(s)}]
  <2>1. CASE s = {}
    BY <2>1
  <2>2. CASE s # {}
    <3> DEFINE R == s \ {pick(s)}
    <3>1. pick(s) \in s
      BY <2>2, PickIn
    <3>2. R \subseteq T /\ R # T
      BY <3>1
    <3>3. it[R] = value(R)
      BY <3>2
    <3>4. sum_of(R) = value(R)
      <4> HIDE DEF R, value
      <4> QED  BY <1>4, <3>2
    <3> QED  BY <2>2, <3>3, <3>4
  <2> QED  BY <2>1, <2>2
<1>6. SumsSubsets(it, T)
  <2> HIDE DEF value
  <2> QED  BY <1>5, Zenon DEF SumsSubsets
<1> QED  BY <1>2, <1>6

-----------------------------------------------------------------------------
(***************************************************************************)
(* The sum of the deltas of a finite set of events.                        *)
(***************************************************************************)

\* Nothing was moved by no event.
LEMMA SumEmpty == sum_of({}) = 0
<1>1. PICK it : SumsSubsets(it, {})
  BY SumsExist, FS_EmptySet
<1>2. SumsSubsets(CHOOSE f : SumsSubsets(f, {}), {})
  BY <1>1
<1> QED  BY <1>2, SumsAt DEF sum_of

\* The sum takes one event and goes on with the others.
LEMMA SumStep ==
  ASSUME NEW S, IsFiniteSet(S), S # {}
  PROVE  /\ pick(S) \in S
         /\ sum_of(S)
              = delta(pick(S)) + sum_of(S \ {pick(S)})
<1> DEFINE R == S \ {pick(S)}
           i == CHOOSE f : SumsSubsets(f, S)
           j == CHOOSE f : SumsSubsets(f, R)
<1>1. pick(S) \in S /\ IsFiniteSet(R)
  BY PickIn, FS_RemoveElement
<1>2. SumsSubsets(i, S)
  BY SumsExist
<1>3. SumsSubsets(j, R)
  <2> HIDE DEF R
  <2> QED  BY <1>1, SumsExist
<1>4. i[S] = delta(pick(S)) + i[R]
  <2> HIDE DEF i
  <2> QED  BY <1>2, SumsAt
<1>5. i[R] = j[R]
  <2>1. R \subseteq S
    OBVIOUS
  <2> HIDE DEF i, j, R
  <2> QED  BY <1>1, <1>2, <1>3, <2>1, SumsAgree
<1>6. sum_of(S) = i[S] /\ sum_of(R) = j[R]
  BY DEF sum_of
<1> QED  BY <1>1, <1>4, <1>5, <1>6

\* Integer deltas have an integer sum.
LEMMA SumType ==
  ASSUME NEW S, IsFiniteSet(S), \A e \in S : delta(e) \in Int
  PROVE  sum_of(S) \in Int
<1> DEFINE Bad == {s \in SUBSET S : sum_of(s) \notin Int}
<1>1. SUFFICES ASSUME Bad # {}  PROVE FALSE
  OBVIOUS
<1>2. PICK T \in Bad : \A U \in Bad : U \subseteq T => U = T
  <2>1. Bad \subseteq SUBSET S
    OBVIOUS
  <2> HIDE DEF Bad
  <2> QED  BY <1>1, <2>1, SmallestSubset
<1>3. CASE T = {}
  BY <1>2, <1>3, SumEmpty
<1>4. CASE T # {}
  <2>1. IsFiniteSet(T)
    BY FS_Subset
  <2>2. /\ pick(T) \in T
        /\ sum_of(T) = delta(pick(T)) + sum_of(T \ {pick(T)})
    BY <1>4, <2>1, SumStep
  <2>3. sum_of(T \ {pick(T)}) \in Int
    BY <1>2, <2>2
  <2>4. delta(pick(T)) \in Int
    BY <1>2, <2>2
  <2>5. sum_of(T) \in Int
    BY <2>2, <2>3, <2>4
  <2> QED  BY <1>2, <2>5
<1> QED  BY <1>3, <1>4

\* Any event of the set may be taken first.
LEMMA SumRemove ==
  ASSUME NEW S, IsFiniteSet(S), \A e \in S : delta(e) \in Int, NEW x \in S
  PROVE  sum_of(S) = delta(x) + sum_of(S \ {x})
<1> DEFINE Bad == {s \in SUBSET S : \E y \in s : sum_of(s) # delta(y) + sum_of(s \ {y})}
<1>1. SUFFICES ASSUME Bad # {}  PROVE FALSE
  OBVIOUS
<1>2. PICK T \in Bad : \A U \in Bad : U \subseteq T => U = T
  <2>1. Bad \subseteq SUBSET S
    OBVIOUS
  <2> HIDE DEF Bad
  <2> QED  BY <1>1, <2>1, SmallestSubset
<1>3. PICK y \in T : sum_of(T) # delta(y) + sum_of(T \ {y})
  BY <1>2
<1>4. T \subseteq S /\ IsFiniteSet(T)
  BY FS_Subset
<1> DEFINE p == pick(T)
<1>5. p \in T /\ sum_of(T) = delta(p) + sum_of(T \ {p})
  BY <1>3, <1>4, SumStep
<1>6. p # y
  BY <1>3, <1>5
<1> HIDE DEF p
<1>7. sum_of(T \ {p}) = delta(y) + sum_of((T \ {p}) \ {y})
  <2>1. T \ {p} \in SUBSET S /\ T \ {p} \notin Bad /\ y \in T \ {p}
    BY <1>2, <1>3, <1>4, <1>5, <1>6
  <2> QED  BY <2>1
<1>8. sum_of(T \ {y}) = delta(p) + sum_of((T \ {y}) \ {p})
  <2>1. T \ {y} \in SUBSET S /\ T \ {y} \notin Bad /\ p \in T \ {y}
    BY <1>2, <1>3, <1>4, <1>5, <1>6
  <2> QED  BY <2>1
<1>9. (T \ {p}) \ {y} = (T \ {y}) \ {p} /\ delta(p) \in Int /\ delta(y) \in Int
  BY <1>4, <1>5
<1>10. sum_of((T \ {p}) \ {y}) \in Int
  <2>1. (T \ {p}) \ {y} \subseteq S /\ IsFiniteSet((T \ {p}) \ {y})
    BY <1>4, FS_Subset
  <2> QED  BY <2>1, SumType
<1>11. sum_of((T \ {y}) \ {p}) = sum_of((T \ {p}) \ {y})
  BY <1>9
<1>12. ASSUME NEW a \in Int, NEW b \in Int, NEW c \in Int
       PROVE  a + (b + c) = b + (a + c)
  OBVIOUS
<1>13. sum_of(T) = delta(y) + sum_of(T \ {y})
  <2> DEFINE rest == sum_of((T \ {p}) \ {y})
  <2>1. delta(p) + (delta(y) + rest) = delta(y) + (delta(p) + rest)
    BY <1>9, <1>10, <1>12, Zenon
  <2>2. sum_of(T) = delta(p) + (delta(y) + rest)
    BY <1>5, <1>7, Zenon
  <2>3. sum_of(T \ {y}) = delta(p) + rest
    BY <1>8, <1>11, Zenon
  <2> QED  BY <2>1, <2>2, <2>3, Zenon
<1> QED  BY <1>3, <1>13

\* One more event adds its delta.
LEMMA SumAdd ==
  ASSUME NEW S, IsFiniteSet(S), \A e \in S : delta(e) \in Int,
         NEW x, x \notin S, delta(x) \in Int
  PROVE  sum_of(S \cup {x}) = delta(x) + sum_of(S)
<1>1. IsFiniteSet(S \cup {x}) /\ (S \cup {x}) \ {x} = S
  BY FS_AddElement
<1> QED  BY <1>1, SumRemove

\* Events that moved nothing add up to nothing.
LEMMA SumZero ==
  ASSUME NEW S, IsFiniteSet(S), \A e \in S : delta(e) = 0
  PROVE  sum_of(S) = 0
<1> DEFINE Bad == {s \in SUBSET S : sum_of(s) # 0}
<1>1. SUFFICES ASSUME Bad # {}  PROVE FALSE
  OBVIOUS
<1>2. PICK T \in Bad : \A U \in Bad : U \subseteq T => U = T
  <2>1. Bad \subseteq SUBSET S
    OBVIOUS
  <2> HIDE DEF Bad
  <2> QED  BY <1>1, <2>1, SmallestSubset
<1>3. T # {} /\ IsFiniteSet(T)
  BY <1>2, SumEmpty, FS_Subset
<1>4. pick(T) \in T /\ sum_of(T) = delta(pick(T)) + sum_of(T \ {pick(T)})
  BY <1>3, SumStep
<1>5. delta(pick(T)) = 0 /\ sum_of(T \ {pick(T)}) = 0
  BY <1>2, <1>4
<1> QED  BY <1>2, <1>4, <1>5

-----------------------------------------------------------------------------
(***************************************************************************)
(* The last event in replay order.                                         *)
(***************************************************************************)

\* The primary key: no two events of S have the same id.
Keyed(S) == \A e, f \in S : event_id(e) = event_id(f) => e = f

\* The log is finite and its ids are unique.
LogOK == IsFiniteSet(events) /\ Keyed(events)

\* ORDER BY ts, run_id, seq is a strict order, and total on rows that differ
\* in their key.
LEMMA ReplayOrder ==
  ASSUME NEW e \in Event, NEW f \in Event
  PROVE  /\ ~(replays_before(e, f) /\ replays_before(f, e))
         /\ event_id(e) # event_id(f) => replays_before(e, f) \/ replays_before(f, e)
         /\ \A g \in Event : replays_before(e, f) /\ replays_before(f, g) => replays_before(e, g)
<1>1. \A g \in Event : g.ts \in Nat /\ g.run_id \in Nat /\ g.seq \in Nat
  BY DEF Event
<1> QED  BY <1>1 DEF replays_before, event_id

\* latest is well defined: rebuild_projection writes the value of a row.
LEMMA LatestIsLast ==
  ASSUME NEW S, IsFiniteSet(S), S # {}, S \subseteq Event, Keyed(S)
  PROVE  /\ latest(S) \in S
         /\ \A f \in S \ {latest(S)} : replays_before(f, latest(S))
<1> DEFINE Last(T, m) == \A f \in T \ {m} : replays_before(f, m)
           Bad == {T \in SUBSET S : T # {} /\ ~ \E m \in T : Last(T, m)}
<1>1. Bad = {}
  <2>1. SUFFICES ASSUME Bad # {}  PROVE FALSE
    OBVIOUS
  <2>2. PICK T \in Bad : \A U \in Bad : U \subseteq T => U = T
    <3>1. Bad \subseteq SUBSET S
      OBVIOUS
    <3> HIDE DEF Bad
    <3> QED  BY <2>1, <3>1, SmallestSubset
  <2>3. PICK x \in T : TRUE
    BY <2>2
  <2>4. T \ {x} # {}
    BY <2>2
  <2>5. PICK m \in T \ {x} : Last(T \ {x}, m)
    <3>1. T \ {x} \in SUBSET S /\ T \ {x} \notin Bad
      BY <2>2
    <3> QED  BY <2>4, <3>1
  <2>6. x \in Event /\ m \in Event /\ event_id(x) # event_id(m) /\ T \subseteq Event
    BY <2>2 DEF Keyed
  <2>7. CASE replays_before(x, m)
    <3>1. Last(T, m)
      BY <2>5, <2>7
    <3> QED  BY <2>2, <3>1
  <2>8. CASE replays_before(m, x)
    <3>1. ASSUME NEW f \in T \ {x}  PROVE replays_before(f, x)
      <4>1. CASE f = m
        BY <2>8, <4>1
      <4>2. CASE f # m
        <5>1. replays_before(f, m)
          BY <2>5, <4>2
        <5> QED  BY <2>6, <2>8, <5>1, ReplayOrder
      <4> QED  BY <4>1, <4>2
    <3>2. Last(T, x)
      BY <3>1
    <3> QED  BY <2>2, <3>2
  <2> QED  BY <2>6, <2>7, <2>8, ReplayOrder
<1>2. \E m \in S : Last(S, m)
  BY <1>1
<1> QED  BY <1>2 DEF latest
=============================================================================
