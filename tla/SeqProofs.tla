------------------------------ MODULE SeqProofs ------------------------------
(***************************************************************************)
(* Theorems about the seqs of a run and what rests on them, for a process  *)
(* that has not crashed and has no more runs than its map of counters      *)
(* holds: no INSERT is refused, a run's seqs only grow, a row is left      *)
(* behind only where a statement fails, and, undisturbed by a stray        *)
(* notification, the replay of the log is the projection and a revision    *)
(* supersedes what its intervention logged before. All of it fails after a *)
(* restart, which loses the counters (the run loop_restart).               *)
(***************************************************************************)
EXTENDS LedgerProofs

-----------------------------------------------------------------------------
(***************************************************************************)
(* The LRU map below its capacity.                                         *)
(***************************************************************************)

\* RemoveAt takes out the element at i and keeps the others once each.
LEMMA RemoveAtRange ==
  ASSUME NEW S, NEW s \in Seq(S), IsInjective(s), NEW i \in 1..Len(s)
  PROVE  /\ IsInjective(RemoveAt(s, i))
         /\ Range(RemoveAt(s, i)) = Range(s) \ {s[i]}
<1> DEFINE r == RemoveAt(s, i)
           at(k) == IF k < i THEN k ELSE k + 1
<1>0. Len(s) \in Nat /\ i \in Int /\ DOMAIN s = 1..Len(s) /\ \A k \in 1..Len(s) : s[k] \in S
  BY ElementOfSeq
<1>1. r \in Seq(S) /\ Len(r) = Len(s) - 1 /\ DOMAIN r = 1..(Len(s) - 1)
  <2>1. r \in Seq(S) /\ Len(r) = Len(s) - 1
    BY RemoveAtType
  <2> QED  BY <2>1
<1>2. \A k \in 1..(Len(s) - 1) : r[k] = s[at(k)] /\ at(k) \in 1..Len(s) /\ at(k) # i
  <2> DEFINE front == SubSeq(s, 1, i - 1)
             back  == SubSeq(s, i + 1, Len(s))
  <2>1. front \in Seq(S) /\ Len(front) = i - 1 /\ \A k \in 1..(i - 1) : front[k] = s[k]
    BY <1>0
  <2>2. back \in Seq(S) /\ Len(back) = Len(s) - i /\ \A k \in 1..(Len(s) - i) : back[k] = s[k + i]
    <3>1. i + 1 \in Int /\ Len(s) \in Int /\ \A k \in (i + 1)..Len(s) : s[k] \in S
      BY <1>0
    <3>2. ASSUME NEW m \in Int, NEW n \in Int, \A k \in m..n : s[k] \in S
          PROVE  /\ SubSeq(s, m, n) \in Seq(S)
                 /\ Len(SubSeq(s, m, n)) = IF m <= n THEN n - m + 1 ELSE 0
                 /\ \A k \in 1..(n - m + 1) : SubSeq(s, m, n)[k] = s[m + k - 1]
      BY <3>2, SubSeqProperties
    <3>3. /\ back \in Seq(S)
          /\ Len(back) = IF i + 1 <= Len(s) THEN Len(s) - (i + 1) + 1 ELSE 0
          /\ \A k \in 1..(Len(s) - (i + 1) + 1) : back[k] = s[(i + 1) + k - 1]
      BY <3>1, <3>2
    <3>4. Len(back) = Len(s) - i
      <4>1. i + 1 <= Len(s) \/ i = Len(s)
        <5>1. Len(s) \in Nat /\ i \in Int /\ i <= Len(s)
          BY LenProperties
        <5> HIDE DEF r, at, front, back
        <5> QED  BY <5>1
      <4>2. CASE i + 1 <= Len(s)
        <5>1. Len(s) - (i + 1) + 1 = Len(s) - i
          BY <1>0
        <5> QED  BY <3>3, <4>2, <5>1, Zenon
      <4>3. CASE i = Len(s)
        <5>1. ~(i + 1 <= Len(s)) /\ Len(s) - i = 0
          BY <1>0, <4>3
        <5> QED  BY <3>3, <5>1, Zenon
      <4> QED  BY <4>1, <4>2, <4>3
    <3>5. \A k \in 1..(Len(s) - i) : k \in 1..(Len(s) - (i + 1) + 1) /\ (i + 1) + k - 1 = k + i
      BY <1>0
    <3> HIDE DEF back
    <3> QED  BY <3>3, <3>4, <3>5
  <2>3. r = front \o back
    BY DEF RemoveAt
  <2> HIDE DEF front, back, r
  <2>4. \A k \in 1..(Len(s) - 1) : r[k] = IF k <= i - 1 THEN front[k] ELSE back[k - (i - 1)]
    BY <1>0, <2>1, <2>2, <2>3
  <2>5. ASSUME NEW k \in 1..(Len(s) - 1), k < i
        PROVE  r[k] = s[k]
    BY <1>0, <2>1, <2>4, <2>5
  <2>6. ASSUME NEW k \in 1..(Len(s) - 1), ~(k < i)
        PROVE  r[k] = s[k + 1]
    <3>1. k - (i - 1) \in 1..(Len(s) - i) /\ (k - (i - 1)) + i = k + 1
      BY <1>0, <2>6
    <3>2. r[k] = back[k - (i - 1)]
      BY <1>0, <2>4, <2>6
    <3> QED  BY <2>2, <3>1, <3>2
  <2> QED  BY <1>0, <2>5, <2>6
<1>3. \A k \in 1..Len(s) : k # i => \E j \in 1..(Len(s) - 1) : at(j) = k
  <2> SUFFICES ASSUME NEW k \in 1..Len(s), k # i
               PROVE  \E j \in 1..(Len(s) - 1) : at(j) = k
    OBVIOUS
  <2>1. CASE k < i
    <3>1. k \in 1..(Len(s) - 1) /\ at(k) = k
      BY <1>0, <2>1
    <3> QED  BY <3>1
  <2>2. CASE k > i
    <3>1. k - 1 \in 1..(Len(s) - 1) /\ at(k - 1) = k
      BY <1>0, <2>2
    <3> QED  BY <3>1
  <2> QED  BY <1>0, <2>1, <2>2
<1>4. \A j, k \in 1..(Len(s) - 1) : at(j) = at(k) => j = k
  BY <1>0
<1> HIDE DEF r, at
<1>5. IsInjective(r)
  BY <1>0, <1>1, <1>2, <1>4 DEF IsInjective
<1>6. Range(r) = Range(s) \ {s[i]}
  <2>1. ASSUME NEW x \in Range(r)  PROVE x \in Range(s) \ {s[i]}
    BY <1>0, <1>1, <1>2, <2>1 DEF Range, IsInjective
  <2>2. ASSUME NEW x \in Range(s) \ {s[i]}  PROVE x \in Range(r)
    <3>1. PICK k \in 1..Len(s) : s[k] = x /\ k # i
      BY <1>0, <2>2 DEF Range
    <3>2. PICK j \in 1..(Len(s) - 1) : at(j) = k
      BY <1>3, <3>1
    <3>3. r[j] = x
      BY <1>2, <3>1, <3>2
    <3> QED  BY <1>1, <3>3 DEF Range
  <2> QED  BY <2>1, <2>2
<1> QED  BY <1>5, <1>6 DEF r

\* The map has room for every run of R.
AllFit(R) == R \subseteq Nat /\ IsFiniteSet(R) /\ Cardinality(R) <= COUNTER_LRU_CAP

\* The map tracks only runs of R, each of them once.
TracksOnly(c, R) ==
  /\ CountersTypeOK(c)
  /\ IsInjective(c.order)
  /\ Range(c.order) \subseteq R

\* With no more runs than the map holds, touching one evicts no other.
LEMMA TouchKeeps ==
  ASSUME NEW R, AllFit(R),
         NEW c, TracksOnly(c, R), NEW run \in R
  PROVE  /\ Range(touch(c, run)) = Range(c.order) \cup {run}
         /\ IsInjective(touch(c, run))
<1> DEFINE s == c.order
<1>0. /\ s \in Seq(Nat) /\ Len(s) \in Nat /\ DOMAIN s = 1..Len(s)
      /\ IsInjective(s) /\ Range(s) \subseteq R /\ run \in Nat
      /\ IsFiniteSet(R) /\ Cardinality(R) <= COUNTER_LRU_CAP
  BY DEF TracksOnly, CountersTypeOK, AllFit
<1>1. ASSUME NEW t \in Seq(Nat), IsInjective(t), run \notin Range(t)
      PROVE  Range(Append(t, run)) = Range(t) \cup {run} /\ IsInjective(Append(t, run))
  <2>1. /\ Len(t) \in Nat /\ DOMAIN t = 1..Len(t)
        /\ DOMAIN Append(t, run) = 1..(Len(t) + 1)
        /\ \A k \in 1..Len(t) : Append(t, run)[k] = t[k]
        /\ Append(t, run)[Len(t) + 1] = run
    BY <1>0
  <2>2. \A k \in 1..Len(t) : t[k] # run
    BY <1>1, <2>1 DEF Range
  <2>3. run \in Nat
    BY <1>0
  <2> QED  BY <1>1, <2>1, <2>2, <2>3, RangeAppend DEF IsInjective
<1>2. CASE run \in Range(s)
  <2> DEFINE pos == CHOOSE i \in DOMAIN s : s[i] = run
  <2>1. pos \in 1..Len(s) /\ s[pos] = run
    BY <1>0, <1>2 DEF Range
  <2>2. touch(c, run) = Append(RemoveAt(s, pos), run)
    BY <1>2 DEF touch
  <2> HIDE DEF pos, s
  <2>3. /\ RemoveAt(s, pos) \in Seq(Nat) /\ IsInjective(RemoveAt(s, pos))
        /\ Range(RemoveAt(s, pos)) = Range(s) \ {run}
    BY <1>0, <2>1, RemoveAtRange, RemoveAtType
  <2>4. Range(touch(c, run)) = (Range(s) \ {run}) \cup {run} /\ IsInjective(touch(c, run))
    BY <1>1, <2>2, <2>3
  <2> QED  BY <1>2, <2>4 DEF s
<1>3. CASE run \notin Range(s)
  <2>1. s \in Injection(1..Len(s), R)
    <3>1. \A k \in 1..Len(s) : s[k] \in R
      BY <1>0 DEF Range
    <3>2. s \in [1..Len(s) -> R]
      BY <1>0, <3>1
    <3> QED  BY <1>0, <3>2 DEF Injection
  <2>2. s \notin Surjection(1..Len(s), R)
    BY <1>0, <1>3 DEF Surjection, Range
  <2>3. Cardinality(1..Len(s)) = Len(s)
    BY <1>0, FS_Interval
  <2>4. Len(s) <= Cardinality(R) /\ Len(s) # Cardinality(R) /\ Cardinality(R) \in Nat
    <3> HIDE DEF s
    <3> QED  BY <1>0, <2>1, <2>2, <2>3, FS_Injection, FS_CardinalityType
  <2>5. touch(c, run) = Append(s, run)
    BY <1>0, <1>3, <2>4, LruCapAssumption DEF touch
  <2> QED  BY <1>0, <1>1, <1>3, <2>5
<1> QED  BY <1>2, <1>3

\* d is c after n seqs of run, with every other counter as it was.
Advanced(c, d, run, n) ==
  /\ Range(d.order) = Range(c.order) \cup {run}
  /\ peek(c, run) \in Nat
  /\ d.map[run] = peek(c, run) + n
  /\ \A r \in Range(c.order) : r # run => d.map[r] = c.map[r]
  /\ run \in Range(c.order) => peek(c, run) = c.map[run]

\* Taking n seqs of a run moves that run's counter by n and no other.
LEMMA CountersAfter ==
  ASSUME NEW R, AllFit(R),
         NEW c, TracksOnly(c, R), NEW run \in R, NEW n \in Nat,
         NEW d, d = get_or_create(c, run, n)
  PROVE  TracksOnly(d, R) /\ Advanced(c, d, run, n)
<1>0. CountersTypeOK(c) /\ run \in Nat
  BY DEF TracksOnly, AllFit
<1>1. CountersTypeOK(d) /\ peek(c, run) \in Nat
  BY <1>0, GetOrCreateType
<1>2. /\ d.order = touch(c, run)
      /\ d.map = [r \in Range(touch(c, run)) |-> peek(c, r) + (IF r = run THEN n ELSE 0)]
  BY DEF get_or_create
<1>3. Range(d.order) = Range(c.order) \cup {run} /\ IsInjective(d.order)
  <2>1. Range(touch(c, run)) = Range(c.order) \cup {run} /\ IsInjective(touch(c, run))
    BY TouchKeeps
  <2> QED  BY <1>2, <2>1
<1>4. \A r \in Range(c.order) : peek(c, r) = c.map[r] /\ c.map[r] \in Nat
  BY <1>0 DEF CountersTypeOK, peek
<1>5. d.map[run] = peek(c, run) + n
  BY <1>1, <1>2, <1>3
<1>6. \A r \in Range(c.order) : r # run => d.map[r] = c.map[r]
  BY <1>2, <1>3, <1>4
<1>7. TracksOnly(d, R)
  BY <1>1, <1>3 DEF TracksOnly
<1> QED  BY <1>1, <1>3, <1>4, <1>5, <1>6, <1>7 DEF Advanced

-----------------------------------------------------------------------------
(***************************************************************************)
(* What a dispatch takes from the counter.                                 *)
(***************************************************************************)

\* Events of one run, in range, with ascending seqs above counter, as many as
\* get_or_create is told to advance the counter by.
Numbered(evs, run, counter) ==
  /\ \A n \in DOMAIN evs :
       /\ validate(evs[n]) /\ evs[n].run_id = run
       /\ evs[n].seq \in Nat /\ evs[n].seq > counter
       /\ evs[n].seq <= counter + Cardinality(DOMAIN evs)
  /\ \A m, n \in DOMAIN evs : m < n => evs[m].seq < evs[n].seq

\* The range clamp leaves a value in range.
LEMMA PlanInRange ==
  ASSUME NEW n, NEW d \in Int, NEW old \in Value, NEW snap,
         snap.doubt \in Value, snap.shame \in Value
  PROVE  /\ plan_for(n, d, old, snap).old_value \in Value
         /\ plan_for(n, d, old, snap).new_value \in Value
<1> DEFINE raw   == old + d
           room  == ONE - snap.doubt - snap.shame
           bound == IF room > 0 THEN room ELSE 0
           held  == IF n = friction /\ d > 0 /\ raw > bound THEN bound ELSE raw
<1>1. raw \in Int /\ bound \in Int
  <2>1. old \in Int /\ snap.doubt \in Int /\ snap.shame \in Int
    BY ValueIsInt
  <2> QED  BY <2>1 DEF ONE
<1>2. held \in Int
  BY <1>1
<1>3. plan_for(n, d, old, snap).old_value = old
      /\ plan_for(n, d, old, snap).new_value = clamp(held, 0, ONE)
  BY DEF plan_for
<1>4. clamp(held, 0, ONE) \in Value
  <2> HIDE DEF held
  <2> QED  BY <1>2 DEF clamp, Value, ONE
<1> QED  BY <1>3, <1>4

\* emit numbers its events in ATTR_ORDER.
LEMMA EmitNumbered ==
  ASSUME NEW p, NEW counter \in Nat, NEW proj \in [Attrs -> Value],
         NEW d, DOMAIN d \subseteq Attrs, \A n \in DOMAIN d : d[n] \in Int
  PROVE  Numbered(emit(p, counter, proj, d), p.run_id, counter)
<1> DEFINE evs  == emit(p, counter, proj, d)
           snap == [doubt |-> proj[doubt], shame |-> proj[shame]]
           upto(n) == {m \in DOMAIN d : m <= n}
<1>1. DOMAIN evs = DOMAIN d
  BY DEF emit
<1>2. IsFiniteSet(DOMAIN d) /\ Cardinality(DOMAIN d) \in Nat
  <2>1. 1 \in Int /\ 8 \in Int
    OBVIOUS
  <2>2. IsFiniteSet(Attrs)
    BY <2>1, FS_Interval, Zenon DEF Attrs
  <2> QED  BY <2>2, FS_Subset, FS_CardinalityType
<1>3. \A n \in DOMAIN d : /\ evs[n].seq = counter + Cardinality(upto(n))
                          /\ evs[n].run_id = p.run_id
                          /\ evs[n].old_value = plan_for(n, d[n], proj[n], snap).old_value
                          /\ evs[n].new_value = plan_for(n, d[n], proj[n], snap).new_value
  BY DEF emit, event_insert_from_plan
<1>4. \A n \in DOMAIN d : validate(evs[n])
  <2> SUFFICES ASSUME NEW n \in DOMAIN d  PROVE validate(evs[n])
    OBVIOUS
  <2>1. proj[n] \in Value /\ snap.doubt \in Value /\ snap.shame \in Value
    BY DEF Attrs, doubt, shame
  <2>2. /\ plan_for(n, d[n], proj[n], snap).old_value \in Value
        /\ plan_for(n, d[n], proj[n], snap).new_value \in Value
    <3> HIDE DEF snap
    <3> QED  BY <2>1, PlanInRange
  <2> HIDE DEF snap, evs
  <2> QED  BY <1>3, <2>2 DEF validate
<1>5. \A n \in DOMAIN d : /\ IsFiniteSet(upto(n)) /\ Cardinality(upto(n)) \in Nat
                          /\ Cardinality(upto(n)) > 0
                          /\ Cardinality(upto(n)) <= Cardinality(DOMAIN d)
  <2> SUFFICES ASSUME NEW n \in DOMAIN d
               PROVE  /\ IsFiniteSet(upto(n)) /\ Cardinality(upto(n)) \in Nat
                      /\ Cardinality(upto(n)) > 0
                      /\ Cardinality(upto(n)) <= Cardinality(DOMAIN d)
    OBVIOUS
  <2>1. upto(n) \subseteq DOMAIN d /\ n \in upto(n)
    BY DEF Attrs
  <2> HIDE DEF upto
  <2>2. IsFiniteSet(upto(n)) /\ Cardinality(upto(n)) <= Cardinality(DOMAIN d)
    BY <1>2, <2>1, FS_Subset
  <2>3. Cardinality(upto(n)) \in Nat /\ Cardinality(upto(n)) # 0
    BY <2>1, <2>2, FS_CardinalityType, FS_EmptySet
  <2> QED  BY <2>2, <2>3
<1>6. ASSUME NEW m \in DOMAIN d, NEW n \in DOMAIN d, m < n
      PROVE  Cardinality(upto(m)) < Cardinality(upto(n))
  <2>1. upto(m) \subseteq upto(n) /\ n \in upto(n) /\ n \notin upto(m)
    BY <1>6 DEF Attrs
  <2> HIDE DEF upto
  <2>2. Cardinality(upto(m)) <= Cardinality(upto(n)) /\ Cardinality(upto(m)) # Cardinality(upto(n))
    BY <1>5, <2>1, FS_Subset
  <2> QED  BY <1>5, <2>2
<1> HIDE DEF evs, upto
<1>7. Numbered(evs, p.run_id, counter)
  BY <1>1, <1>2, <1>3, <1>4, <1>5, <1>6 DEF Numbered
<1> QED  BY <1>7 DEF evs

\* The tables and the weighted deltas are integers.
LEMMA TableTypes ==
  ASSUME NEW reason, NEW n \in Attrs, NEW conf
  PROVE  /\ outcome_base_deltas(reason)[n] \in Int
         /\ hippocampus_base_deltas(reason)[n] \in Int
         /\ sensor_base_deltas(reason)[n] \in Int
         /\ weight_delta(outcome_base_deltas(reason)[n], conf) \in Int
<1>1. outcome_base_deltas(reason) \in [Attrs -> Int]
  BY DEF outcome_base_deltas, NoDeltas, TINY, SMALL, MEDIUM, HIGH, Attrs
<1>2. hippocampus_base_deltas(reason) \in [Attrs -> Int]
  BY DEF hippocampus_base_deltas, TINY, Attrs
<1>3. sensor_base_deltas(reason) \in [Attrs -> Int]
  BY DEF sensor_base_deltas, TINY, SMALL, Attrs
<1>4. ASSUME NEW b \in Int  PROVE weight_delta(b, conf) \in Int
  <2>1. twice_weight(conf) \in {1, 2, 3}
    BY DEF twice_weight
  <2>2. (b * twice_weight(conf)) \div 2 \in Int
    BY <2>1
  <2> QED  BY <2>2 DEF weight_delta, clamp, CONFIDENCE_MAGNITUDE_CAP, HIGH
<1> QED  BY <1>1, <1>2, <1>3, <1>4

\* A first emission of any of the three sources.
LEMMA DispatchNumbered ==
  ASSUME NEW p, NEW counter \in Nat, NEW proj \in [Attrs -> Value]
  PROVE  Numbered(dispatch(p, counter, proj), p.run_id, counter)
<1>1. Numbered(dispatch_outcome(p, counter, proj), p.run_id, counter)
  <2> DEFINE row == outcome_base_deltas(p.reason)
             d   == [n \in affected(row) |-> weight_delta(row[n], p.confidence)]
  <2>1. DOMAIN d \subseteq Attrs /\ \A n \in DOMAIN d : d[n] \in Int
    BY TableTypes DEF affected
  <2>2. dispatch_outcome(p, counter, proj) = emit(p, counter, proj, d)
    BY DEF dispatch_outcome
  <2> HIDE DEF d
  <2> QED  BY <2>1, <2>2, EmitNumbered
<1>2. Numbered(dispatch_hippocampus(p, counter, proj), p.run_id, counter)
  <2> DEFINE row == hippocampus_base_deltas(p.reason)
             d   == [n \in affected(row) |-> row[n]]
  <2>1. DOMAIN d \subseteq Attrs /\ \A n \in DOMAIN d : d[n] \in Int
    BY TableTypes DEF affected
  <2>2. dispatch_hippocampus(p, counter, proj) = emit(p, counter, proj, d)
    BY DEF dispatch_hippocampus
  <2> HIDE DEF d
  <2> QED  BY <2>1, <2>2, EmitNumbered
<1>3. Numbered(dispatch_sensor(p, counter, proj), p.run_id, counter)
  <2> DEFINE row == sensor_base_deltas(p.reason)
             d   == [n \in affected(row) |-> row[n]]
  <2>1. DOMAIN d \subseteq Attrs /\ \A n \in DOMAIN d : d[n] \in Int
    BY TableTypes DEF affected
  <2>2. dispatch_sensor(p, counter, proj) = emit(p, counter, proj, d)
    BY DEF dispatch_sensor
  <2> HIDE DEF d
  <2> QED  BY <2>1, <2>2, EmitNumbered
<1> QED  BY <1>1, <1>2, <1>3 DEF dispatch

\* A revision, whose prior deltas are sums over the log.
LEMMA RevisionNumbered ==
  ASSUME LoopTypeOK, LogOK, NEW p, NEW counter \in Nat, NEW proj \in [Attrs -> Value], NEW prior
  PROVE  Numbered(dispatch_revision(p, counter, proj, prior, gather_prior_actuals(p.intervention_id)),
                  p.run_id, counter)
<1> DEFINE row    == outcome_base_deltas(p.reason)
           actual == gather_prior_actuals(p.intervention_id)
           d == [n \in affected(row) \cup affected(outcome_base_deltas(prior)) |->
                   weight_delta(row[n], p.confidence) - actual[n]]
<1>1. \A n \in Attrs : actual[n] \in Int
  <2> SUFFICES ASSUME NEW n \in Attrs  PROVE actual[n] \in Int
    OBVIOUS
  <2> DEFINE S == {e \in lookup_prior_events_by_intervention(p.intervention_id, n) : ~e.disabled}
  <2>1. actual[n] = sum_of(S)
    BY PriorActual
  <2>2. S \subseteq events
    BY DEF lookup_prior_events_by_intervention
  <2>3. IsFiniteSet(S) /\ \A e \in S : delta(e) \in Int
    <3> HIDE DEF S
    <3> QED  BY <2>2, FS_Subset, EventDelta DEF LogOK, LoopTypeOK, StoreTypeOK
  <2> HIDE DEF S, actual
  <2> QED  BY <2>1, <2>3, SumType
<1>2. DOMAIN d \subseteq Attrs /\ \A n \in DOMAIN d : d[n] \in Int
  <2>1. DOMAIN d \subseteq Attrs
    BY DEF affected
  <2>2. ASSUME NEW n \in DOMAIN d  PROVE d[n] \in Int
    <3>1. weight_delta(row[n], p.confidence) \in Int /\ actual[n] \in Int
      BY <1>1, <2>1, TableTypes
    <3>2. d[n] = weight_delta(row[n], p.confidence) - actual[n]
      OBVIOUS
    <3> HIDE DEF d, actual
    <3> QED  BY <3>1, <3>2
  <2> QED  BY <2>1, <2>2
<1>3. dispatch_revision(p, counter, proj, prior, actual) = emit(p, counter, proj, d)
  BY DEF dispatch_revision
<1> HIDE DEF d, actual
<1>4. Numbered(dispatch_revision(p, counter, proj, prior, actual), p.run_id, counter)
  BY <1>2, <1>3, EmitNumbered
<1> QED  BY <1>4 DEF actual

-----------------------------------------------------------------------------
(***************************************************************************)
(* Seqs of a process that has not crashed.                                 *)
(***************************************************************************)

\* Events the write loop has yet to insert.
unwritten(n) == n \in DOMAIN pending /\ (pc = "insert" \/ ~first(n))

\* The counter of the event's run is there and past the event.
covered(e) == e.run_id \in Range(counters.order) /\ e.seq <= counters.map[e.run_id]

\* Every run of the broker with an event is tracked, and its counter is past
\* the event. The maintenance runs have counters of their own (decay.rs).
CountersCover ==
  /\ TracksOnly(counters, RunIds)
  /\ \A e \in events : e.run_id \in RunIds => covered(e)
  /\ \A n \in DOMAIN pending : covered(pending[n])

\* The pending events are of one run, in range and numbered upwards, above
\* everything of that run in the log.
PendingAhead ==
  /\ \A n \in DOMAIN pending : validate(pending[n]) /\ pending[n].seq \in Nat
  /\ \A m, n \in DOMAIN pending :
       /\ pending[m].run_id = pending[n].run_id
       /\ m < n => pending[m].seq < pending[n].seq
  /\ \A n \in DOMAIN pending : \A e \in events :
       unwritten(n) /\ e.run_id = pending[n].run_id => e.seq < pending[n].seq

\* The first process keeps both; a restarted one has lost its counters.
SeqInv == crashes = 0 => CountersCover /\ PendingAhead

\* No more runs than the map has counters (COUNTER_LRU_CAP).
EveryRunIsTracked == AllFit(RunIds)

\* A dispatch numbers its events above everything its run has in the log.
LEMMA DispatchAhead ==
  ASSUME EveryRunIsTracked, LoopTypeOK, CountersCover, UNCHANGED events,
         NEW evs, NEW run \in RunIds, Numbered(evs, run, peek(counters, run)),
         DOMAIN evs \subseteq Attrs, pending' = evs,
         counters' = get_or_create(counters, run, Cardinality(DOMAIN evs))
  PROVE  CountersCover' /\ PendingAhead'
<1> DEFINE k == Cardinality(DOMAIN evs)
<1>0. RunIds \subseteq Nat /\ \A e \in events : e.seq \in Nat
  BY StoreAssumption DEF LoopTypeOK, StoreTypeOK, Event
<1>1. k \in Nat
  <2>1. 1 \in Int /\ 8 \in Int
    OBVIOUS
  <2>2. IsFiniteSet(Attrs)
    BY <2>1, FS_Interval, Zenon DEF Attrs
  <2> QED  BY <2>2, FS_Subset, FS_CardinalityType
<1> HIDE DEF k
<1>2. /\ TracksOnly(counters', RunIds)
      /\ Range(counters'.order) = Range(counters.order) \cup {run}
      /\ peek(counters, run) \in Nat
      /\ counters'.map[run] = peek(counters, run) + k
      /\ \A r \in Range(counters.order) : r # run => counters'.map[r] = counters.map[r]
      /\ run \in Range(counters.order) => peek(counters, run) = counters.map[run]
  <2>1. counters' = get_or_create(counters, run, k)
    BY DEF k
  <2>2. RunIds \subseteq Nat /\ TracksOnly(counters, RunIds)
    BY <1>0 DEF CountersCover
  <2>3. AllFit(RunIds)
    BY DEF EveryRunIsTracked
  <2>4. ASSUME NEW d, d = get_or_create(counters, run, k)
        PROVE  TracksOnly(d, RunIds) /\ Advanced(counters, d, run, k)
    BY <1>1, <2>2, <2>3, <2>4, CountersAfter
  <2>5. TracksOnly(counters', RunIds) /\ Advanced(counters, counters', run, k)
    BY <2>1, <2>4
  <2> QED  BY <2>5 DEF Advanced
<1>3. \A e \in events : e.run_id \in RunIds =>
        /\ e.run_id \in Range(counters.order) /\ e.seq \in Nat
        /\ e.seq <= counters.map[e.run_id]
  BY <1>0 DEF CountersCover, covered
<1>4. \A n \in DOMAIN evs : /\ evs[n].run_id = run /\ evs[n].seq \in Nat
                            /\ evs[n].seq > peek(counters, run)
                            /\ evs[n].seq <= peek(counters, run) + k
  BY DEF Numbered, k
<1>5. ASSUME NEW e \in events, e.run_id \in RunIds
      PROVE  e.run_id \in Range(counters'.order) /\ e.seq <= counters'.map[e.run_id]
  <2>1. CASE e.run_id = run
    BY <1>1, <1>2, <1>3, <1>5, <2>1
  <2>2. CASE e.run_id # run
    BY <1>2, <1>3, <1>5, <2>2
  <2> QED  BY <2>1, <2>2
<1>6. ASSUME NEW n \in DOMAIN evs
      PROVE  evs[n].run_id \in Range(counters'.order) /\ evs[n].seq <= counters'.map[evs[n].run_id]
  BY <1>2, <1>4
<1>7. CountersCover'
  <2>1. \A n \in DOMAIN pending' : covered(pending[n])'
    BY <1>6 DEF covered
  <2>2. \A e \in events' : e.run_id \in RunIds => covered(e)'
    BY <1>5 DEF covered
  <2> QED  BY <1>2, <2>1, <2>2 DEF CountersCover
<1>8. ASSUME NEW n \in DOMAIN evs, NEW e \in events, e.run_id = run
      PROVE  e.seq < evs[n].seq
  BY <1>2, <1>3, <1>4, <1>8
<1>9. PendingAhead'
  <2>1. \A n \in DOMAIN evs : validate(evs[n]) /\ evs[n].run_id = run /\ evs[n].seq \in Nat
    BY <1>4 DEF Numbered
  <2>2. \A m, n \in DOMAIN evs : m < n => evs[m].seq < evs[n].seq
    BY DEF Numbered
  <2>3. \A n \in DOMAIN pending' : validate(pending'[n]) /\ pending'[n].seq \in Nat
    BY <2>1
  <2>4. \A m, n \in DOMAIN pending' :
          /\ pending'[m].run_id = pending'[n].run_id
          /\ m < n => pending'[m].seq < pending'[n].seq
    BY <2>1, <2>2
  <2>5. \A n \in DOMAIN pending' : \A e \in events' :
          e.run_id = pending'[n].run_id => e.seq < pending'[n].seq
    BY <1>8, <2>1
  <2> QED  BY <2>3, <2>4, <2>5 DEF PendingAhead, validate
<1> QED  BY <1>7, <1>9

LEMMA SeqStep ==
  ASSUME EveryRunIsTracked, LoopTypeOK, LogOK, SeqInv, [LoopNext]_vars
  PROVE  SeqInv'
<1> USE DEF storeVars, brokerVars, queueVars, localVars, procVars, boundVars, histVars
<1>0. crashes \in Nat /\ (crashes = 0 => CountersCover /\ PendingAhead)
  BY DEF SeqInv, LoopTypeOK, StoreTypeOK
<1>1. CASE Quiet
  BY <1>1 DEF Quiet, SeqInv, CountersCover, covered, PendingAhead, unwritten, first, validate
<1>2. CASE Outside \/ GivesUp
  <2>1. SUFFICES ASSUME crashes' = 0  PROVE CountersCover' /\ PendingAhead'
    BY DEF SeqInv
  <2>2. UNCHANGED <<events, counters, crashes>> /\ DOMAIN pending' = {}
    BY <1>0, <1>2, <2>1 DEF Outside, GivesUp
  <2>3. CountersCover
    BY <1>0, <2>1, <2>2
  <2> QED  BY <2>2, <2>3 DEF CountersCover, covered, PendingAhead
<1> DEFINE p == payload[cur]
<1>3. CASE ReadAndDispatch
  <2>1. SUFFICES ASSUME crashes' = 0  PROVE CountersCover' /\ PendingAhead'
    BY DEF SeqInv
  <2> DEFINE evs == dispatch(p, peek(counters, p.run_id), attributes)
  <2>2. /\ Dispatch(evs) /\ UNCHANGED <<events, crashes>> /\ pc = "read"
    BY <1>3 DEF ReadAndDispatch
  <2>3. p \in Payload /\ p.source # "unknown" /\ p.run_id \in RunIds
    BY <2>2 DEF LoopTypeOK, ProcessTypeOK, BrokerTypeOK, Claimed, RowSteps, Statements, Payload
  <2>4. peek(counters, p.run_id) \in Nat
    BY <2>3, GetOrCreateType, StoreAssumption DEF LoopTypeOK, ProcessTypeOK
  <2>5. Numbered(evs, p.run_id, peek(counters, p.run_id))
    BY <2>4, DispatchNumbered DEF LoopTypeOK, StoreTypeOK
  <2>6. DOMAIN evs \subseteq Attrs
    BY <2>3, <2>4, DispatchFaithful DEF FaithfulTo
  <2> HIDE DEF evs
  <2> QED  BY <1>0, <2>1, <2>2, <2>3, <2>5, <2>6, DispatchAhead DEF Dispatch
<1>4. CASE build_revision_events
  <2>1. SUFFICES ASSUME crashes' = 0  PROVE CountersCover' /\ PendingAhead'
    BY DEF SeqInv
  <2> DEFINE evs == dispatch_revision(p, peek(counters, p.run_id), projection,
                                      derive_prior_classification(p.intervention_id),
                                      gather_prior_actuals(p.intervention_id))
  <2>2. /\ Dispatch(evs) /\ UNCHANGED <<events, crashes>> /\ pc = "prior"
    BY <1>4 DEF build_revision_events
  <2>3. p \in Payload /\ p.source # "unknown" /\ p.run_id \in RunIds
    BY <2>2 DEF LoopTypeOK, ProcessTypeOK, BrokerTypeOK, Claimed, RowSteps, Statements, Payload
  <2>4. peek(counters, p.run_id) \in Nat
    BY <2>3, GetOrCreateType, StoreAssumption DEF LoopTypeOK, ProcessTypeOK
  <2>5. Numbered(evs, p.run_id, peek(counters, p.run_id))
    BY <2>4, RevisionNumbered DEF LoopTypeOK, ProcessTypeOK
  <2>6. DOMAIN evs \subseteq Attrs
    BY <2>3, <2>4, RevisionFaithful DEF FaithfulTo
  <2> HIDE DEF evs
  <2> QED  BY <1>0, <2>1, <2>2, <2>3, <2>5, <2>6, DispatchAhead DEF Dispatch
<1>5. CASE InsertEvent
  <2>1. SUFFICES ASSUME crashes' = 0  PROVE CountersCover' /\ PendingAhead'
    BY DEF SeqInv
  <2>2. PICK n \in DOMAIN pending :
               /\ first(n) /\ n \in Attrs
               /\ events' = events \cup {pending[n]} /\ pc = "insert" /\ pc' # "insert"
               /\ UNCHANGED <<pending, counters, crashes>>
    BY <1>5, InsertFacts
  <2>3. CountersCover /\ PendingAhead
    BY <1>0, <2>1, <2>2
  <2>4. CountersCover'
    BY <2>2, <2>3 DEF CountersCover, covered
  <2>5. ASSUME NEW m \in DOMAIN pending, unwritten(m)', NEW e \in events', e.run_id = pending[m].run_id
        PROVE  e.seq < pending[m].seq
    <3>1. m # n
      BY <2>2, <2>5 DEF unwritten, first
    <3>2. n < m
      BY <2>2, <3>1 DEF first, LoopTypeOK, PendingTypeOK, Attrs
    <3>3. CASE e = pending[n]
      BY <2>3, <3>2, <3>3 DEF PendingAhead
    <3>4. CASE e \in events
      BY <2>2, <2>3, <2>5, <3>4 DEF PendingAhead, unwritten
    <3> QED  BY <2>2, <3>3, <3>4
  <2>6. PendingAhead'
    BY <2>2, <2>3, <2>5 DEF PendingAhead, validate
  <2> QED  BY <2>4, <2>6
<1>6. CASE UpsertAttribute \/ EnqueueAudit
  <2>1. /\ UNCHANGED <<events, pending, counters, crashes>> /\ pc # "insert" /\ pc' # "insert"
    BY <1>6 DEF UpsertAttribute, EnqueueAudit
  <2>2. \A n : unwritten(n)' = unwritten(n)
    BY <2>1 DEF unwritten, first
  <2> QED  BY <2>1, <2>2 DEF SeqInv, CountersCover, covered, PendingAhead, validate
<1>7. CASE NotifyAudit
  <2>1. SUFFICES ASSUME crashes' = 0  PROVE CountersCover' /\ PendingAhead'
    BY DEF SeqInv
  <2>2. PICK n \in DOMAIN pending : first(n) /\ pending' = Restrict(pending, DOMAIN pending \ {n})
    BY <1>7 DEF NotifyAudit
  <2>3. /\ DOMAIN pending' = DOMAIN pending \ {n}
        /\ \A m \in DOMAIN pending' : pending'[m] = pending[m]
    BY <2>2 DEF Restrict
  <2>4. UNCHANGED <<events, counters, crashes>>
    BY <1>7 DEF NotifyAudit
  <2>5. CountersCover /\ PendingAhead
    BY <1>0, <2>1, <2>4
  <2>6. CountersCover'
    BY <2>3, <2>4, <2>5 DEF CountersCover, covered
  <2>7. \A m \in DOMAIN pending' : unwritten(m)
    BY <2>2, <2>3, FirstIsUnique DEF unwritten
  <2>8. PendingAhead'
    BY <2>3, <2>4, <2>5, <2>7 DEF PendingAhead, validate
  <2> QED  BY <2>6, <2>8
<1> QED  BY <1>1, <1>2, <1>3, <1>4, <1>5, <1>6, <1>7, LedgerSteps

\* A process begins with no counters.
LEMMA SeqInit ==
  ASSUME LoopInit
  PROVE  SeqInv
<1>1. events = {} /\ DOMAIN pending = {} /\ counters = EmptyCounters
  BY DEF LoopInit, StoreInit, NoEvents
<1>2. TracksOnly(counters, RunIds)
  <2>1. CountersTypeOK(EmptyCounters)
    BY EmptyCountersType
  <2>2. Range(EmptyCounters.order) = {} /\ IsInjective(EmptyCounters.order)
    BY DEF EmptyCounters, Range, IsInjective
  <2> QED  BY <1>1, <2>1, <2>2 DEF TracksOnly
<1> QED  BY <1>1, <1>2 DEF SeqInv, CountersCover, covered, PendingAhead

LEMMA SeqInvariant ==
  ASSUME EveryRunIsTracked
  PROVE  LoopSpec => []SeqInv
<1>1. LoopInit => SeqInv
  BY SeqInit
<1>2. LoopTypeOK /\ LogOK /\ SeqInv /\ [LoopNext]_vars => SeqInv'
  BY SeqStep
<1> QED  BY <1>1, <1>2, LoopTypeCorrect, LogInvariant, PTL DEF LoopSpec

\* The pending event is in range, and its seq is above those of its run.
LEMMA PendingIsAccepted ==
  ASSUME LoopTypeOK, SeqInv
  PROVE  crashes = 0 => InsertIsAccepted
<1> SUFFICES ASSUME crashes = 0, pc = "insert", NEW n \in DOMAIN pending
             PROVE  insert_accepts(pending[n])
  BY DEF InsertIsAccepted
<1>1. PendingAhead
  BY DEF SeqInv
<1>2. \A e \in events : e.run_id = pending[n].run_id => e.seq < pending[n].seq
  BY <1>1 DEF PendingAhead, unwritten
<1>3. \A e \in events : e.seq \in Nat
  BY DEF LoopTypeOK, StoreTypeOK, Event
<1>4. \A e \in events : event_id(e) # event_id(pending[n])
  BY <1>2, <1>3 DEF event_id
<1> QED  BY <1>1, <1>4 DEF PendingAhead, insert_accepts

(***************************************************************************)
(* InsertIsAccepted: while the daemon has not crashed, and with no more    *)
(* runs than COUNTER_LRU_CAP, insert_event refuses nothing: every value is *)
(* in range, and the seq that get_or_create gave is above every seq its    *)
(* run has in the log, whichever rows were abandoned half written.         *)
(***************************************************************************)
THEOREM NoInsertIsRefused ==
  ASSUME EveryRunIsTracked
  PROVE  LoopSpec => [](crashes = 0 => InsertIsAccepted)
<1>1. LoopTypeOK /\ SeqInv => (crashes = 0 => InsertIsAccepted)
  BY PendingIsAccepted
<1> QED  BY <1>1, LoopTypeCorrect, SeqInvariant, PTL

(***************************************************************************)
(* SeqMonotone: in one process, with no more runs than COUNTER_LRU_CAP, an *)
(* event's seq is above every seq its run already has in the log.          *)
(***************************************************************************)
THEOREM SeqsOnlyGrow ==
  ASSUME EveryRunIsTracked, MaxCrashes = 0
  PROVE  LoopSpec => SeqMonotone
<1>1. LoopInit => crashes = 0
  BY DEF LoopInit, StoreInit
<1>2. crashes = 0 /\ LoopTypeOK /\ [LoopNext]_vars => (crashes = 0)'
  <2> SUFFICES ASSUME crashes = 0, LoopTypeOK, [LoopNext]_vars  PROVE crashes' = 0
    OBVIOUS
  <2>1. ~Crash
    BY DEF Crash
  <2> QED
    BY <2>1 DEF LoopNext, Broker, Unreliable, Loop, storeVars, boundVars, vars,
       BrokerInsert, BrokerNotify, BrokerReject, NotifyLost, StrayNotify, TimePasses,
       StatementFails, Start, drain_outcome_inbox, drain_audit_replies, EnterServe, DrainNext,
       handle_outcome_notify, handle_reply_notify, Claim, ClaimMisses, ReadAndDispatch,
       ReadForRevision, build_revision_events, RevisionWithoutPrior, InsertEvent,
       InsertRefused, UpsertAttribute, EnqueueAudit, NotifyAudit, delete_outcome_row,
       SelectReply, DeleteReply
<1>3. LoopTypeOK /\ SeqInv /\ crashes = 0 /\ [LoopNext]_vars =>
        [\A e \in events' \ events : \A f \in events : f.run_id = e.run_id => f.seq < e.seq]_vars
  <2> SUFFICES ASSUME LoopTypeOK, SeqInv, crashes = 0, [LoopNext]_vars,
                      NEW e \in events' \ events, NEW f \in events, f.run_id = e.run_id
               PROVE  f.seq < e.seq
    OBVIOUS
  <2>1. InsertEvent
    <3>1. CASE Quiet \/ Outside \/ GivesUp
      BY <3>1 DEF Quiet, Outside, GivesUp
    <3>2. CASE \/ ReadAndDispatch \/ build_revision_events \/ UpsertAttribute
               \/ EnqueueAudit \/ NotifyAudit
      BY <3>2 DEF ReadAndDispatch, build_revision_events, UpsertAttribute, EnqueueAudit,
                  NotifyAudit, storeVars
    <3> QED  BY <3>1, <3>2, LedgerSteps
  <2>2. PICK n \in DOMAIN pending : events' = events \cup {pending[n]} /\ pc = "insert"
    BY <2>1, InsertFacts
  <2>3. e = pending[n]
    BY <2>2
  <2> QED  BY <2>2, <2>3 DEF SeqInv, PendingAhead, unwritten
<1> QED  BY <1>1, <1>2, <1>3, LoopTypeCorrect, SeqInvariant, PTL DEF LoopSpec, SeqMonotone

-----------------------------------------------------------------------------
(***************************************************************************)
(* Rows left behind while the process lives.                               *)
(***************************************************************************)

\* A claimed row nobody works on, other than a revision that found no prior
\* event. A row whose second claim is about to miss is left behind already.
Left(id) ==
  /\ inbox[id] = "claimed"
  /\ ~(cur = id /\ pc \in Claimed)
  /\ ~Unfounded(id)

left == {id \in Ids : Left(id)}

\* A revision looks for its prior events before it has written any.
PriorIsRevision == pc = "prior" => is_revision(payload[cur])

LeftInv == PriorIsRevision /\ (crashes = 0 => Cardinality(left) <= faults)

\* The first process leaves a row behind only where a statement fails: no
\* INSERT is refused, and a revision without prior events is unfounded.
LEMMA LeftStep ==
  ASSUME LoopTypeOK, OnceInv, SeqInv, PriorIsRevision, [LoopNext]_vars
  PROVE  /\ PriorIsRevision'
         /\ crashes' = 0 =>
              /\ crashes = 0
              /\ \/ left' \subseteq left /\ faults' = faults
                 \/ left' \subseteq left \cup {cur} /\ cur \in Ids /\ faults' = faults + 1
                 \/ left' \subseteq left /\ faults' = faults + 1
<1> USE DEF storeVars, brokerVars, queueVars, localVars, procVars, boundVars, histVars
<1>0. /\ inbox \in [Ids -> {"none", "queued", "claimed", "deleted"}]
      /\ payload \in [Ids -> Payload \cup {<<>>}]
      /\ written \in [Ids -> SUBSET (Attrs \X Nat)]
      /\ \A id \in Ids : id >= next_id => inbox[id] = "none"
      /\ faults \in Nat /\ crashes \in Nat
  BY DEF LoopTypeOK, BrokerTypeOK, StoreTypeOK, Ids
<1>1. CASE \/ (\E id \in Ids : BrokerNotify(id))
            \/ (\E a \in DOMAIN audit_inbox : BrokerReject(a))
            \/ (\E id \in Ids : NotifyLost(id))
            \/ (\E x \in Ids \cup {NoId} : StrayNotify(x)) \/ TimePasses
            \/ drain_audit_replies \/ EnterServe \/ UNCHANGED vars
  <2>1. UNCHANGED <<inbox, payload, written, pc, cur, faults, crashes>>
    BY <1>1 DEF BrokerNotify, BrokerReject, NotifyLost, StrayNotify, TimePasses,
             drain_audit_replies, EnterServe, vars
  <2> QED  BY <2>1 DEF PriorIsRevision, left, Left, Unfounded
<1>2. ASSUME NEW p \in Payloads, BrokerInsert(p)
      PROVE  /\ PriorIsRevision' /\ UNCHANGED <<faults, crashes>>
             /\ left' \subseteq left
  <2>1. /\ next_id \in Ids /\ inbox[next_id] = "none"
        /\ inbox' = [inbox EXCEPT ![next_id] = "queued"]
        /\ \A id \in Ids \ {next_id} : payload'[id] = payload[id]
        /\ UNCHANGED <<written, pc, cur, faults, crashes>>
    BY <1>0, <1>2 DEF BrokerInsert, Ids
  <2>2. pc = "prior" => cur \in Ids \ {next_id}
    BY <2>1 DEF LoopTypeOK, ProcessTypeOK, Claimed, RowSteps, Statements
  <2>3. \A id \in Ids : Left(id)' => Left(id)
    BY <1>0, <2>1 DEF Left, Unfounded
  <2> QED  BY <2>1, <2>2, <2>3 DEF PriorIsRevision, left
<1>3. CASE Start \/ drain_outcome_inbox \/ DrainNext \/ handle_outcome_notify
           \/ handle_reply_notify \/ ClaimMisses \/ SelectReply \/ DeleteReply
  <2>1. /\ UNCHANGED <<inbox, payload, written, faults, crashes>>
        /\ pc \notin Claimed /\ pc' \notin Claimed
    BY <1>3 DEF Start, drain_outcome_inbox, DrainNext, handle_outcome_notify,
             handle_reply_notify, ClaimMisses, SelectReply, DeleteReply, Return,
             Claimed, RowSteps, Statements
  <2>2. pc' # "prior"
    BY <2>1 DEF Claimed, RowSteps, Statements
  <2> QED  BY <2>1, <2>2 DEF PriorIsRevision, left, Left, Unfounded
<1>4. CASE Claim
  <2>1. /\ pc \notin Claimed /\ pc' \in Claimed /\ pc' # "prior"
        /\ inbox' = [inbox EXCEPT ![cur] = "claimed"]
        /\ UNCHANGED <<payload, written, cur, faults, crashes>>
    BY <1>4 DEF Claim, Claimed, RowSteps, Statements
  <2>2. \A id \in Ids : Left(id)' => Left(id)
    BY <1>0, <2>1 DEF Left, Unfounded
  <2> QED  BY <2>1, <2>2 DEF PriorIsRevision, left
<1>5. CASE ReadAndDispatch \/ ReadForRevision \/ build_revision_events \/ UpsertAttribute
           \/ EnqueueAudit \/ NotifyAudit
  <2>1. /\ pc \in Claimed /\ pc' \in Claimed
        /\ UNCHANGED <<inbox, payload, written, cur, faults, crashes>>
        /\ pc' = "prior" => is_revision(payload[cur])
    BY <1>5 DEF ReadAndDispatch, ReadForRevision, build_revision_events, Dispatch,
             UpsertAttribute, EnqueueAudit, NotifyAudit, Claimed, RowSteps, Statements
  <2>2. \A id \in Ids : Left(id)' => Left(id)
    BY <2>1 DEF Left, Unfounded
  <2> QED  BY <2>1, <2>2 DEF PriorIsRevision, left
<1>6. CASE InsertEvent
  <2>1. /\ pc \in Claimed /\ pc' \in Claimed /\ pc' # "prior"
        /\ UNCHANGED <<inbox, payload, cur, faults, crashes>>
        /\ \A id \in Ids \ {cur} : written'[id] = written[id]
    BY <1>0, <1>6 DEF InsertEvent, Claimed, RowSteps, Statements
  <2>2. \A id \in Ids : Left(id)' => Left(id)
    BY <2>1 DEF Left, Unfounded
  <2> QED  BY <2>1, <2>2 DEF PriorIsRevision, left
<1>7. CASE delete_outcome_row
  <2>1. /\ inbox' = [inbox EXCEPT ![cur] = "deleted"]
        /\ UNCHANGED <<payload, written, faults, crashes>>
        /\ pc' = "next" /\ pc' \notin Claimed
    BY <1>7 DEF delete_outcome_row, Return, Claimed, RowSteps, Statements
  <2>2. \A id \in Ids : Left(id)' => Left(id)
    BY <1>0, <2>1 DEF Left, Unfounded
  <2> QED  BY <2>1, <2>2 DEF PriorIsRevision, left
<1>8. CASE RevisionWithoutPrior
  <2>1. /\ UNCHANGED <<inbox, payload, written, faults, crashes>>
        /\ pc = "prior" /\ pc' = "next"
    BY <1>8 DEF RevisionWithoutPrior, Return
  <2>2. is_revision(payload[cur]) /\ written[cur] = {}
    BY <2>1 DEF PriorIsRevision, OnceInv, OwnerWrites
  <2>3. Unfounded(cur)
    BY <2>2, Zenon DEF Unfounded
  <2>4. \A id \in Ids : Left(id)' => Left(id)
    BY <2>1, <2>3 DEF Left, Unfounded
  <2> QED  BY <2>1, <2>4 DEF PriorIsRevision, left
<1>9. CASE InsertRefused
  <2>1. UNCHANGED <<faults, crashes>> /\ pc' = "next"
    BY <1>9 DEF InsertRefused, Return
  <2>2. ~InsertIsAccepted
    BY <1>9 DEF InsertRefused, InsertIsAccepted
  <2>3. crashes # 0
    BY <2>2, PendingIsAccepted
  <2> QED  BY <2>1, <2>3 DEF PriorIsRevision
<1>10. CASE StatementFails
  <2>1. /\ UNCHANGED <<inbox, payload, written, crashes>> /\ faults' = faults + 1
        /\ pc' = "next" /\ pc' \notin Claimed
    BY <1>10 DEF StatementFails, Return, Claimed, RowSteps, Statements
  <2>2. \A id \in Ids : Left(id)' => Left(id) \/ (id = cur /\ pc \in Claimed)
    BY <2>1 DEF Left, Unfounded
  <2>3. left' \subseteq left \cup {cur}
    BY <2>2 DEF left
  <2>4. CASE cur \in Ids
    BY <2>1, <2>3, <2>4 DEF PriorIsRevision
  <2>5. CASE cur \notin Ids
    <3>1. left' \subseteq left
      BY <2>2, <2>5 DEF left
    <3> QED  BY <2>1, <3>1 DEF PriorIsRevision
  <2> QED  BY <2>4, <2>5
<1>11. CASE Crash
  <2>1. crashes' = crashes + 1 /\ pc' = "down"
    BY <1>11 DEF Crash, LoopDies
  <2> QED  BY <1>0, <2>1 DEF PriorIsRevision
<1>12. LoopNext \/ UNCHANGED vars
  OBVIOUS
<1> QED
  BY <1>1, <1>2, <1>3, <1>4, <1>5, <1>6, <1>7, <1>8, <1>9, <1>10, <1>11, <1>12, Zenon
     DEF LoopNext, Broker, Unreliable, Loop

LEMMA LeftInvStep ==
  ASSUME LoopTypeOK, OnceInv, SeqInv, LeftInv, [LoopNext]_vars
  PROVE  LeftInv'
<1>1. PriorIsRevision
  BY DEF LeftInv
<1>2. /\ PriorIsRevision'
      /\ crashes' = 0 =>
           /\ crashes = 0
           /\ \/ left' \subseteq left /\ faults' = faults
              \/ left' \subseteq left \cup {cur} /\ cur \in Ids /\ faults' = faults + 1
              \/ left' \subseteq left /\ faults' = faults + 1
  BY <1>1, LeftStep
<1>3. SUFFICES ASSUME crashes' = 0  PROVE Cardinality(left') <= faults'
  BY <1>2 DEF LeftInv
<1>4. IsFiniteSet(Ids) /\ left \subseteq Ids /\ faults \in Nat
  <2>1. 1 \in Int /\ MaxRows \in Int
    BY RunLoopAssumption
  <2>2. IsFiniteSet(Ids)
    BY <2>1, FS_Interval DEF Ids
  <2> QED  BY <2>2 DEF left, LoopTypeOK, StoreTypeOK
<1>5. IsFiniteSet(left) /\ Cardinality(left) \in Nat /\ Cardinality(left) <= faults
  BY <1>2, <1>3, <1>4, FS_Subset, FS_CardinalityType DEF LeftInv
<1>6. ASSUME NEW S, IsFiniteSet(S), left' \subseteq S
      PROVE  Cardinality(left') <= Cardinality(S) /\ Cardinality(left') \in Nat
  BY <1>6, FS_Subset, FS_CardinalityType
<1>7. CASE left' \subseteq left
  BY <1>2, <1>3, <1>4, <1>5, <1>6, <1>7
<1>8. CASE left' \subseteq left \cup {cur} /\ faults' = faults + 1
  <2>1. IsFiniteSet(left \cup {cur}) /\ Cardinality(left \cup {cur}) \in Nat
        /\ Cardinality(left \cup {cur}) <= Cardinality(left) + 1
    BY <1>5, FS_AddElement, FS_CardinalityType
  <2> QED  BY <1>4, <1>5, <1>6, <1>8, <2>1
<1> QED  BY <1>2, <1>3, <1>7, <1>8

LEMMA LeftInvariant ==
  ASSUME EveryRunIsTracked
  PROVE  LoopSpec => []LeftInv
<1>1. LoopInit => LeftInv
  <2> SUFFICES ASSUME LoopInit  PROVE LeftInv
    OBVIOUS
  <2>1. left = {} /\ faults = 0 /\ pc # "prior"
    BY DEF LoopInit, StoreInit, left, Left
  <2> QED  BY <2>1, FS_EmptySet DEF LeftInv, PriorIsRevision
<1>2. LoopTypeOK /\ OnceInv /\ SeqInv /\ LeftInv /\ [LoopNext]_vars => LeftInv'
  BY LeftInvStep
<1> QED  BY <1>1, <1>2, LoopTypeCorrect, OnceInvariant, SeqInvariant, PTL DEF LoopSpec

(***************************************************************************)
(* FailureStrandsOneRow: while the process lives, with no more runs than   *)
(* COUNTER_LRU_CAP, process_outcome_row leaves a row it claimed behind     *)
(* only where a statement fails, one row each time, or where a revision    *)
(* finds no prior event.                                                   *)
(***************************************************************************)
THEOREM RowsAreStrandedByFailure ==
  ASSUME EveryRunIsTracked
  PROVE  LoopSpec => []FailureStrandsOneRow
<1>1. LoopTypeOK /\ LeftInv => FailureStrandsOneRow
  <2> SUFFICES ASSUME LoopTypeOK, LeftInv, crashes = 0
               PROVE  Cardinality({id \in Ids : Stranded(id) /\ ~Unfounded(id)}) <= faults
    BY DEF FailureStrandsOneRow
  <2> DEFINE S == {id \in Ids : Stranded(id) /\ ~Unfounded(id)}
  <2>1. S \subseteq left
    BY DEF Stranded, left, Left, Claimed
  <2>2. IsFiniteSet(Ids)
    <3>1. 1 \in Int /\ MaxRows \in Int
      BY RunLoopAssumption
    <3> QED  BY <3>1, FS_Interval DEF Ids
  <2>3. IsFiniteSet(left)
    BY <2>2, FS_Subset DEF left
  <2> HIDE DEF S
  <2>4. Cardinality(S) <= Cardinality(left) /\ Cardinality(S) \in Nat /\ Cardinality(left) \in Nat
    BY <2>1, <2>3, FS_Subset, FS_CardinalityType
  <2>5. Cardinality(left) <= faults /\ faults \in Nat
    BY DEF LeftInv, LoopTypeOK, StoreTypeOK
  <2>6. Cardinality(S) <= faults
    BY <2>4, <2>5
  <2> QED  BY <2>6 DEF S
<1> QED  BY <1>1, LoopTypeCorrect, LeftInvariant, PTL

-----------------------------------------------------------------------------
(***************************************************************************)
(* The order of the rows. Undisturbed by a restart or a stray              *)
(* notification, rows are claimed in the order of their ids, which is the  *)
(* order of their timestamps, except for those whose wake-up was wasted.   *)
(***************************************************************************)

Ascending(s) == \A i, j \in DOMAIN s : i < j => s[i] < s[j]

taken(id) == inbox[id] \in {"claimed", "deleted"}

\* Notifications arrive and are served in the order of the INSERTs.
QueueOrder ==
  /\ \A u \in unnotified \cup missed : u < next_id
  /\ \A x \in Range(outcome_queue) : x < next_id /\ \A u \in unnotified : x < u
  /\ Ascending(outcome_queue)
  /\ pc = "claim" => cur < next_id /\ phase # "drain_replies"
  /\ pc = "claim" /\ phase = "serve" =>
       \A x \in Range(outcome_queue) \cup unnotified : cur < x

\* The backlog lies above what is taken, and no unclaimed row below one of
\* its rows is missing from it unless its claim has failed.
drained == todo \cup (IF pc = "claim" THEN {cur} ELSE {})

DrainOrder ==
  pc \notin {"down", "listening"} /\ phase = "drain_outcomes" =>
    /\ \A id \in todo : id < next_id /\ (pc = "claim" => cur < id)
    /\ \A id \in drained, other \in Ids :
         /\ other < id /\ inbox[other] = "queued" => other \in drained \cup missed
         /\ taken(other) => other < id

\* Where nothing has failed, no notification of a missed row is to come.
LostForGood ==
  faults = 0 => \A id \in missed : /\ id \notin unnotified \cup Range(outcome_queue)
                                   /\ ~(pc = "claim" /\ phase = "serve" /\ id = cur)

ClaimedInOrder ==
  /\ pc \in {"down", "listening"} => \A id \in Ids : ~taken(id)
  /\ \A id, other \in Ids : other < id /\ taken(id) => taken(other) \/ other \in missed

\* The row in hand is the last one taken, unless its own claim failed before.
LastInHand ==
  pc \in Claimed => \A id \in Ids : taken(id) => id <= cur \/ (faults > 0 /\ cur \in missed)

Stamped ==
  \A id \in Ids : id < next_id =>
    /\ payload[id].ts <= clock
    /\ \A other \in Ids : other < id => payload[other].ts <= payload[id].ts

InOrder ==
  QueueOrder /\ DrainOrder /\ LostForGood /\ ClaimedInOrder /\ LastInHand /\ Stamped

OrderInv == Undisturbed => InOrder

\* Appending what is above everything keeps a sequence ascending.
LEMMA AscendingAppend ==
  ASSUME NEW S, S \subseteq Int, NEW s \in Seq(S), NEW x \in Int, Ascending(s), \A y \in Range(s) : y < x
  PROVE  Ascending(Append(s, x))
<1>1. /\ Len(s) \in Nat /\ DOMAIN s = 1..Len(s)
      /\ DOMAIN Append(s, x) = 1..(Len(s) + 1)
      /\ \A k \in 1..Len(s) : Append(s, x)[k] = s[k]
      /\ Append(s, x)[Len(s) + 1] = x
  OBVIOUS
<1>2. \A k \in 1..Len(s) : s[k] < x
  BY <1>1 DEF Range
<1> QED  BY <1>1, <1>2 DEF Ascending

\* What is left of an ascending sequence ascends, above its head.
LEMMA AscendingTail ==
  ASSUME NEW S, S \subseteq Int, NEW s \in Seq(S), s # <<>>, Ascending(s)
  PROVE  /\ Ascending(Tail(s))
         /\ Head(s) \in Range(s) /\ Range(Tail(s)) \subseteq Range(s)
         /\ \A y \in Range(Tail(s)) : Head(s) < y
<1>1. /\ Tail(s) \in Seq(S) /\ Len(s) \in Nat \ {0}
      /\ Len(Tail(s)) = Len(s) - 1 /\ Head(s) = s[1]
      /\ DOMAIN s = 1..Len(s) /\ DOMAIN Tail(s) = 1..(Len(s) - 1)
      /\ \A i \in 1..Len(Tail(s)) : Tail(s)[i] = s[i + 1]
  BY HeadTailProperties, EmptySeq, LenProperties
<1>0. \A i \in DOMAIN s : s[i] \in Int
  BY ElementOfSeq, LenProperties
<1>2. \A i \in DOMAIN Tail(s) : i + 1 \in DOMAIN s /\ 1 \in DOMAIN s /\ 1 < i + 1
  BY <1>1
<1>3. Ascending(Tail(s))
  BY <1>1, <1>2 DEF Ascending
<1>4. \A i \in DOMAIN Tail(s) : Head(s) < Tail(s)[i] /\ Tail(s)[i] \in Range(s)
  BY <1>1, <1>2 DEF Ascending, Range
<1>5. Head(s) \in Range(s)
  BY <1>1 DEF Range
<1> QED  BY <1>3, <1>4, <1>5 DEF Range

\* Rest does not come back, nor does a failure go away.
LEMMA UndisturbedBefore ==
  ASSUME LoopTypeOK, [LoopNext]_vars
  PROVE  /\ Undisturbed' => Undisturbed
         /\ faults' = 0 => faults = 0
<1> USE DEF storeVars, brokerVars, queueVars, localVars, procVars, boundVars, histVars
<1>0. faults \in Nat /\ crashes \in Nat /\ strays \in Nat
  BY DEF LoopTypeOK, StoreTypeOK, BrokerTypeOK
<1>1. CASE StatementFails \/ Crash \/ (\E x \in Ids \cup {NoId} : StrayNotify(x))
  BY <1>0, <1>1 DEF StatementFails, Crash, StrayNotify, Undisturbed
<1>2. CASE \/ Broker \/ TimePasses \/ Start \/ Loop \/ (\E id \in Ids : NotifyLost(id))
           \/ UNCHANGED vars
  <2>1. UNCHANGED <<faults, crashes, strays>>
    BY <1>2 DEF Broker, Loop, vars, BrokerInsert, BrokerNotify, BrokerReject, NotifyLost,
       TimePasses, Start, drain_outcome_inbox, drain_audit_replies, EnterServe, DrainNext,
       handle_outcome_notify, handle_reply_notify, Claim, ClaimMisses, ReadAndDispatch,
       ReadForRevision, build_revision_events, RevisionWithoutPrior, InsertEvent,
       InsertRefused, UpsertAttribute, EnqueueAudit, NotifyAudit, delete_outcome_row,
       SelectReply, DeleteReply
  <2> QED  BY <2>1 DEF Undisturbed
<1> QED  BY <1>1, <1>2 DEF LoopNext, Unreliable

\* A step that takes no row and adds none to those to come.
Aside ==
  /\ UNCHANGED <<payload, next_id, unnotified, outcome_queue, missed, faults>>
  /\ clock' \in Nat /\ clock <= clock'
  /\ \A id \in Ids : /\ inbox'[id] = "queued" <=> inbox[id] = "queued"
                     /\ taken(id)' <=> taken(id)
  /\ \/ UNCHANGED <<phase, todo>>
     \/ phase' # "drain_outcomes" /\ pc' # "claim"
  /\ \/ UNCHANGED <<pc, cur>>
     \/ /\ pc' # "claim" /\ (pc = "claim" => inbox[cur] # "queued")
        /\ pc' \in Claimed => pc \in Claimed /\ cur' = cur
  /\ pc' \in {"down", "listening"} <=> pc \in {"down", "listening"}

\* Undisturbed, these eight are the only steps that do.
LEMMA AsideSteps ==
  ASSUME LoopTypeOK, Undisturbed, Undisturbed', [LoopNext]_vars
  PROVE  \/ Aside
         \/ \E p \in Payloads : BrokerInsert(p)
         \/ \E id \in Ids : BrokerNotify(id) \/ NotifyLost(id)
         \/ drain_outcome_inbox \/ DrainNext \/ handle_outcome_notify \/ Claim
         \/ StatementFails
<1> USE DEF storeVars, brokerVars, queueVars, localVars, procVars, boundVars, histVars
<1>0. clock \in Nat /\ crashes = 0 /\ strays = 0
      /\ (pc \in Claimed => inbox[cur] = "claimed" /\ cur \in Ids)
      /\ inbox \in [Ids -> {"none", "queued", "claimed", "deleted"}]
      /\ (phase = "drain_replies" \/ phase = "serve") = (phase # "drain_outcomes")
  BY DEF LoopTypeOK, StoreTypeOK, Undisturbed, ProcessTypeOK, BrokerTypeOK
<1>1. CASE Crash \/ (\E x \in Ids \cup {NoId} : StrayNotify(x))
  BY <1>0, <1>1 DEF Crash, StrayNotify, Undisturbed
<1>2. CASE (\E a \in DOMAIN audit_inbox : BrokerReject(a)) \/ TimePasses \/ UNCHANGED vars
  <2>1. /\ UNCHANGED <<inbox, payload, next_id, unnotified, outcome_queue, missed>>
        /\ UNCHANGED <<pc, cur, phase, todo, faults>>
        /\ clock' = clock \/ clock' = clock + 1
    BY <1>2 DEF BrokerReject, TimePasses, vars
  <2>2. Aside
    BY <1>0, <2>1 DEF Aside, taken
  <2> QED  BY <2>2
<1>3. CASE Start
  <2>1. Aside
    BY <1>0, <1>3 DEF Start, Aside, taken, Claimed, RowSteps, Statements
  <2> QED  BY <2>1
<1>4. CASE drain_audit_replies \/ EnterServe \/ handle_reply_notify \/ SelectReply \/ DeleteReply
  <2>1. Aside
    BY <1>0, <1>4 DEF drain_audit_replies, EnterServe, handle_reply_notify, SelectReply,
             DeleteReply, Return, Aside, taken, Claimed, RowSteps, Statements
  <2> QED  BY <2>1
<1>5. CASE ClaimMisses
  <2>1. Aside
    BY <1>0, <1>5 DEF ClaimMisses, Return, Aside, taken, Claimed, RowSteps, Statements
  <2> QED  BY <2>1
<1>6. CASE ReadAndDispatch \/ ReadForRevision \/ build_revision_events
  <2>1. Aside
    BY <1>0, <1>6 DEF ReadAndDispatch, ReadForRevision, build_revision_events, Dispatch,
             Aside, taken, Claimed, RowSteps, Statements
  <2> QED  BY <2>1
<1>7. CASE RevisionWithoutPrior \/ InsertEvent \/ InsertRefused
  <2>1. Aside
    BY <1>0, <1>7 DEF RevisionWithoutPrior, InsertEvent, InsertRefused, Return, Aside, taken,
             Claimed, RowSteps, Statements
  <2> QED  BY <2>1
<1>8. CASE UpsertAttribute \/ EnqueueAudit \/ NotifyAudit
  <2>1. Aside
    BY <1>0, <1>8 DEF UpsertAttribute, EnqueueAudit, NotifyAudit, Aside, taken,
             Claimed, RowSteps, Statements
  <2> QED  BY <2>1
<1>9. CASE delete_outcome_row
  <2>1. pc \in Claimed
    BY <1>9 DEF delete_outcome_row, Claimed, RowSteps, Statements
  <2>2. Aside
    BY <1>0, <1>9, <2>1 DEF delete_outcome_row, Return, Aside, taken, Claimed, RowSteps, Statements
  <2> QED  BY <2>2
<1>10. LoopNext \/ UNCHANGED vars
  OBVIOUS
<1> QED
  BY <1>1, <1>2, <1>3, <1>4, <1>5, <1>6, <1>7, <1>8, <1>9, <1>10, Zenon
     DEF LoopNext, Broker, Unreliable, Loop

\* What the steps below need of the types.
RowTypes ==
  /\ inbox \in [Ids -> {"none", "queued", "claimed", "deleted"}]
  /\ payload \in [Ids -> Payload \cup {<<>>}]
  /\ next_id \in Nat /\ clock \in Nat /\ faults \in Nat /\ unnotified \subseteq Ids
  /\ missed \subseteq Ids
  /\ \A id \in Ids : /\ id \in Nat
                     /\ id < next_id => inbox[id] # "none" /\ payload[id] \in Payload
                     /\ ~(id < next_id) => inbox[id] = "none"
  /\ outcome_queue \in Seq(Ids \cup {NoId}) /\ Ids \cup {NoId} \subseteq Int
  /\ \A x \in Range(outcome_queue) : x \in Nat
  /\ phase = "drain_outcomes" => todo \subseteq Ids
  /\ pc = "claim" => cur \in Ids
  /\ pc \in Claimed => inbox[cur] = "claimed" /\ cur \in Ids
  /\ phase \in {"drain_outcomes", "drain_replies", "serve"}

LEMMA RowTypesHold ==
  ASSUME LoopTypeOK
  PROVE  RowTypes
<1>1. RunLoopAssumption
  BY RunLoopAssumption
<1>2. Ids \subseteq Nat /\ NoId \in Nat
  BY DEF Ids, NoId
<1>3. outcome_queue \in Seq(Ids \cup {NoId})
  BY DEF LoopTypeOK, BrokerTypeOK
<1>4. \A x \in Range(outcome_queue) : x \in Nat
  <2>1. \A i \in DOMAIN outcome_queue : outcome_queue[i] \in Ids \cup {NoId}
    BY <1>3, ElementOfSeq, LenProperties
  <2> QED  BY <1>2, <2>1 DEF Range
<1>5. next_id \in Nat
  BY RunLoopAssumption DEF LoopTypeOK, BrokerTypeOK
<1> QED
  BY <1>2, <1>3, <1>4, <1>5
     DEF RowTypes, LoopTypeOK, StoreTypeOK, BrokerTypeOK, ProcessTypeOK

\* What the broker inserts bears the time of the INSERT.
LEMMA InsertedRow ==
  ASSUME RowTypes, NEW p \in Payloads, BrokerInsert(p)
  PROVE  /\ next_id \in Ids /\ next_id' = next_id + 1
         /\ inbox[next_id] = "none" /\ inbox' = [inbox EXCEPT ![next_id] = "queued"]
         /\ payload'[next_id] = [p EXCEPT !.ts = clock] /\ payload'[next_id].ts = clock
         /\ \A id \in Ids : id # next_id => payload'[id] = payload[id]
         /\ unnotified' = unnotified \cup {next_id}
         /\ UNCHANGED <<storeVars, replies, queueVars, procVars, boundVars, histVars>>
<1>1. /\ next_id \in Ids /\ next_id' = next_id + 1
      /\ inbox' = [inbox EXCEPT ![next_id] = "queued"]
      /\ payload' = [payload EXCEPT ![next_id] = [p EXCEPT !.ts = clock]]
      /\ unnotified' = unnotified \cup {next_id}
      /\ UNCHANGED <<storeVars, replies, queueVars, procVars, boundVars, histVars>>
  BY DEF BrokerInsert
<1>2. inbox[next_id] = "none" /\ payload \in [Ids -> Payload \cup {<<>>}]
  BY <1>1 DEF RowTypes
<1>3. [p EXCEPT !.ts = clock].ts = clock
  <2>1. p \in Payload
    BY RunLoopAssumption
  <2> QED  BY <2>1 DEF Payload
<1>4. payload'[next_id] = [p EXCEPT !.ts = clock]
  BY <1>1, <1>2
<1>5. \A id \in Ids : id # next_id => payload'[id] = payload[id]
  BY <1>1, <1>2
<1> QED  BY <1>1, <1>2, <1>3, <1>4, <1>5

LEMMA OrderStep ==
  ASSUME LoopTypeOK, UnclaimedRowIsCovered, InOrder, Undisturbed, Undisturbed', [LoopNext]_vars
  PROVE  InOrder'
<1> USE DEF storeVars, brokerVars, queueVars, localVars, procVars, boundVars, histVars
<1>0. RowTypes
  BY RowTypesHold
<1>01. QueueOrder /\ DrainOrder /\ LostForGood /\ ClaimedInOrder /\ LastInHand /\ Stamped
  BY DEF InOrder
<1>02. ~("claim" \in Claimed) /\ ~("next" \in Claimed) /\ ~("reply_select" \in Claimed)
  BY DEF Claimed, RowSteps, Statements
<1>1. CASE Aside
  <2>1. QueueOrder'
    BY <1>01, <1>1 DEF Aside, QueueOrder, Ascending
  <2>2. DrainOrder'
    BY <1>0, <1>01, <1>1 DEF RowTypes, Aside, DrainOrder, drained
  <2>3. ClaimedInOrder' /\ LastInHand'
    BY <1>01, <1>1 DEF Aside, ClaimedInOrder, LastInHand
  <2>4. LostForGood'
    BY <1>01, <1>1 DEF Aside, LostForGood
  <2>5. Stamped'
    <3>1. \A id \in Ids : id < next_id => payload[id].ts \in Nat
      BY <1>0 DEF RowTypes, Payload
    <3> QED  BY <1>0, <1>01, <1>1, <3>1 DEF RowTypes, Aside, Stamped
  <2> QED  BY <2>1, <2>2, <2>3, <2>4, <2>5 DEF InOrder
<1>2. ASSUME NEW p \in Payloads, BrokerInsert(p)  PROVE InOrder'
  <2>1. /\ next_id \in Ids /\ next_id' = next_id + 1
        /\ inbox[next_id] = "none" /\ inbox' = [inbox EXCEPT ![next_id] = "queued"]
        /\ payload'[next_id].ts = clock
        /\ \A id \in Ids : id # next_id => payload'[id] = payload[id]
        /\ unnotified' = unnotified \cup {next_id}
        /\ UNCHANGED <<outcome_queue, pc, cur, phase, todo, clock, missed, faults>>
    BY <1>0, <1>2, InsertedRow
  <2> HIDE <1>2
  <2>2. QueueOrder'
    BY <1>0, <1>01, <2>1 DEF RowTypes, QueueOrder, Ascending
  <2>3. DrainOrder'
    BY <1>0, <1>01, <2>1 DEF RowTypes, DrainOrder, QueueOrder, drained, taken
  <2>4. ClaimedInOrder' /\ LastInHand'
    BY <1>0, <1>01, <2>1 DEF RowTypes, ClaimedInOrder, LastInHand, taken
  <2>5. LostForGood'
    BY <1>0, <1>01, <2>1 DEF RowTypes, LostForGood, QueueOrder
  <2>6. Stamped'
    <3>1. \A id \in Ids : id < next_id' => id = next_id \/ id < next_id
      BY <1>0, <2>1 DEF RowTypes
    <3> QED  BY <1>0, <1>01, <2>1, <3>1 DEF RowTypes, Stamped
  <2> QED  BY <2>2, <2>3, <2>4, <2>5, <2>6 DEF InOrder
<1>3. ASSUME NEW x \in Ids, BrokerNotify(x)  PROVE InOrder'
  <2>1. /\ x \in unnotified /\ unnotified' = unnotified \ {x}
        /\ \A u \in unnotified' : x < u
        /\ outcome_queue' = outcome_queue \/ outcome_queue' = Append(outcome_queue, x)
        /\ UNCHANGED <<inbox, payload, next_id, pc, cur, phase, todo, clock, missed, faults>>
    BY <1>0, <1>3 DEF RowTypes, BrokerNotify, next_notify
  <2>2. Range(outcome_queue') \subseteq Range(outcome_queue) \cup {x}
    <3>1. x \in Ids \cup {NoId} /\ outcome_queue \in Seq(Ids \cup {NoId})
      BY <1>0 DEF RowTypes
    <3>2. Range(Append(outcome_queue, x)) = Range(outcome_queue) \cup {x}
      BY <3>1, RangeAppend
    <3> QED  BY <2>1, <3>2
  <2>3. Ascending(outcome_queue')
    <3>1. x \in Int /\ \A y \in Range(outcome_queue) : y < x
      BY <1>0, <1>01, <2>1 DEF RowTypes, QueueOrder
    <3>2. Ascending(outcome_queue)
      BY <1>01 DEF QueueOrder
    <3>3. Ascending(Append(outcome_queue, x))
      BY <1>0, <3>1, <3>2, AscendingAppend DEF RowTypes
    <3> QED  BY <2>1, <3>2, <3>3
  <2>4. QueueOrder'
    <3>1. Ascending(outcome_queue)'
      BY <2>3 DEF Ascending
    <3> QED  BY <1>01, <2>1, <2>2, <3>1 DEF QueueOrder
  <2>5. DrainOrder' /\ ClaimedInOrder' /\ LastInHand' /\ Stamped'
    BY <1>01, <2>1 DEF DrainOrder, drained, ClaimedInOrder, LastInHand, taken, Stamped
  <2>6. LostForGood'
    BY <1>01, <2>1, <2>2 DEF LostForGood
  <2> QED  BY <2>4, <2>5, <2>6 DEF InOrder
<1>4. ASSUME NEW x \in Ids, NotifyLost(x)  PROVE InOrder'
  <2>1. /\ x \in unnotified /\ unnotified' = unnotified \ {x} /\ missed' = missed \cup {x}
        /\ UNCHANGED <<inbox, payload, next_id, outcome_queue, pc, cur, phase, todo, clock, faults>>
    BY <1>4 DEF NotifyLost, next_notify
  <2>2. QueueOrder'
    BY <1>01, <2>1 DEF QueueOrder, Ascending
  <2>3. DrainOrder' /\ ClaimedInOrder' /\ LastInHand' /\ Stamped'
    BY <1>01, <2>1 DEF DrainOrder, drained, ClaimedInOrder, LastInHand, taken, Stamped
  <2>4. LostForGood'
    <3>1. x \notin Range(outcome_queue) /\ ~(pc = "claim" /\ phase = "serve" /\ x = cur)
      BY <1>0, <1>01, <2>1 DEF RowTypes, QueueOrder
    <3> QED  BY <1>01, <2>1, <3>1 DEF LostForGood
  <2> QED  BY <2>2, <2>3, <2>4 DEF InOrder
<1>5. CASE drain_outcome_inbox
  <2>1. /\ todo' = {id \in Ids : inbox[id] = "queued"} /\ pc = "listening" /\ pc' = "next"
        /\ missed' = {}
        /\ UNCHANGED <<inbox, payload, next_id, unnotified, outcome_queue, clock, faults>>
    BY <1>5 DEF drain_outcome_inbox
  <2>2. QueueOrder'
    BY <1>01, <2>1 DEF QueueOrder, Ascending
  <2>3. \A id \in Ids : ~taken(id)
    BY <1>01, <2>1 DEF ClaimedInOrder
  <2>4. DrainOrder'
    BY <1>0, <2>1, <2>3 DEF RowTypes, DrainOrder, drained, taken
  <2>5. ClaimedInOrder' /\ LastInHand' /\ LostForGood' /\ Stamped'
    BY <1>01, <1>02, <2>1, <2>3 DEF ClaimedInOrder, LastInHand, LostForGood, taken, Stamped
  <2> QED  BY <2>2, <2>4, <2>5 DEF InOrder
<1>6. CASE DrainNext
  <2>1. PICK id \in todo : /\ \A other \in todo : id <= other
                           /\ todo' = todo \ {id} /\ cur' = id
    BY <1>6 DEF DrainNext
  <2>2. /\ pc = "next" /\ phase # "serve" /\ pc' = IF phase = "drain_outcomes" THEN "claim" ELSE "reply_select"
        /\ UNCHANGED <<inbox, payload, next_id, unnotified, outcome_queue, phase, clock, missed, faults>>
    BY <1>6 DEF DrainNext
  <2>3. QueueOrder'
    BY <1>0, <1>01, <2>1, <2>2 DEF RowTypes, QueueOrder, Ascending, DrainOrder
  <2>4. DrainOrder'
    <3>1. SUFFICES ASSUME phase = "drain_outcomes"  PROVE DrainOrder'
      BY <2>2 DEF DrainOrder
    <3>2. drained' = drained
      BY <2>1, <2>2, <3>1 DEF drained
    <3>3. \A other \in todo' : other < next_id /\ cur' < other
      BY <1>0, <1>01, <2>1, <2>2, <3>1 DEF RowTypes, DrainOrder
    <3> QED  BY <1>01, <2>2, <3>1, <3>2, <3>3 DEF DrainOrder, taken
  <2>5. ClaimedInOrder' /\ LastInHand' /\ Stamped'
    BY <1>01, <1>02, <2>2 DEF ClaimedInOrder, LastInHand, taken, Stamped
  <2>6. LostForGood'
    BY <1>01, <2>2 DEF LostForGood
  <2> QED  BY <2>3, <2>4, <2>5, <2>6 DEF InOrder
<1>7. CASE handle_outcome_notify
  <2>1. /\ outcome_queue # <<>> /\ outcome_queue' = Tail(outcome_queue)
        /\ cur' = Head(outcome_queue) /\ phase = "serve" /\ pc = "next"
        /\ pc' \in {"next", "claim"}
        /\ UNCHANGED <<inbox, payload, next_id, unnotified, phase, clock, missed, faults>>
    BY <1>7 DEF handle_outcome_notify
  <2>2. /\ Ascending(Tail(outcome_queue))
        /\ Head(outcome_queue) \in Range(outcome_queue)
        /\ Range(Tail(outcome_queue)) \subseteq Range(outcome_queue)
        /\ \A y \in Range(Tail(outcome_queue)) : Head(outcome_queue) < y
    BY <1>0, <1>01, <2>1, AscendingTail DEF RowTypes, QueueOrder
  <2>3. QueueOrder'
    <3>1. Ascending(outcome_queue)'
      BY <2>1, <2>2 DEF Ascending
    <3> QED  BY <1>01, <2>1, <2>2, <3>1 DEF QueueOrder
  <2>4. DrainOrder' /\ ClaimedInOrder' /\ LastInHand' /\ Stamped'
    BY <1>01, <1>02, <2>1 DEF DrainOrder, ClaimedInOrder, LastInHand, taken, Stamped
  <2>5. LostForGood'
    BY <1>01, <2>1, <2>2 DEF LostForGood
  <2> QED  BY <2>3, <2>4, <2>5 DEF InOrder
<1>8. CASE Claim
  <2>1. /\ pc = "claim" /\ cur \in Ids /\ inbox[cur] = "queued" /\ pc' \in {"read", "delete"}
        /\ inbox' = [inbox EXCEPT ![cur] = "claimed"]
        /\ UNCHANGED <<payload, next_id, unnotified, outcome_queue, phase, todo, cur, clock,
                       missed, faults>>
    BY <1>0, <1>8 DEF RowTypes, Claim
  <2>2. \A id \in Ids : taken(id)' <=> (taken(id) \/ id = cur)
    BY <1>0, <2>1 DEF RowTypes, taken
  <2>3. QueueOrder' /\ Stamped'
    BY <1>01, <2>1 DEF QueueOrder, Ascending, Stamped
  <2>4. LostForGood'
    BY <1>01, <2>1 DEF LostForGood
  <2>5. DrainOrder'
    <3>1. SUFFICES ASSUME phase = "drain_outcomes"  PROVE DrainOrder'
      BY <2>1 DEF DrainOrder
    <3>2. drained' = todo /\ drained = todo \cup {cur}
      BY <2>1 DEF drained
    <3>3. /\ \A id \in todo : id < next_id /\ cur < id
          /\ \A id \in drained, other \in Ids :
               /\ other < id /\ inbox[other] = "queued" => other \in drained \cup missed
               /\ taken(other) => other < id
      BY <1>01, <2>1, <3>1 DEF DrainOrder
    <3>4. \A id \in todo, other \in Ids :
            other < id /\ inbox'[other] = "queued" => other \in todo \cup missed
      BY <1>0, <2>1, <3>2, <3>3 DEF RowTypes
    <3>5. \A id \in todo, other \in Ids : taken(other)' => other < id
      BY <2>2, <3>2, <3>3
    <3> QED  BY <2>1, <3>2, <3>3, <3>4, <3>5 DEF DrainOrder
  <2>6. ASSUME NEW other \in Ids, other < cur  PROVE inbox[other] = "queued" => other \in missed
    <3>1. SUFFICES ASSUME inbox[other] = "queued", other \notin missed  PROVE FALSE
      OBVIOUS
    <3>2. cur < next_id /\ phase # "drain_replies"
      BY <1>01, <2>1 DEF QueueOrder
    <3>3. CASE phase = "drain_outcomes"
      BY <1>0, <1>01, <2>1, <2>6, <3>1, <3>3 DEF RowTypes, DrainOrder, drained
    <3>4. CASE phase = "serve"
      <4>1. other \in unnotified \/ other \in Range(outcome_queue)
        BY <1>0, <1>01, <2>1, <2>6, <3>1, <3>4 DEF RowTypes, UnclaimedRowIsCovered
      <4> QED  BY <1>0, <1>01, <2>1, <2>6, <3>4, <4>1 DEF RowTypes, QueueOrder
    <3> QED  BY <1>0, <3>2, <3>3, <3>4 DEF RowTypes
  <2>7. ClaimedInOrder'
    <3>1. \A other \in Ids : other < cur => taken(other) \/ other \in missed
      <4>1. cur < next_id
        BY <1>01, <2>1 DEF QueueOrder
      <4> QED  BY <1>0, <2>1, <2>6, <4>1 DEF RowTypes, taken
    <3> QED  BY <1>01, <2>1, <2>2, <3>1 DEF ClaimedInOrder
  <2>8. LastInHand'
    <3>1. SUFFICES ASSUME NEW id \in Ids, taken(id)', ~(id <= cur)
                   PROVE  faults > 0 /\ cur \in missed
      BY <2>1 DEF LastInHand
    <3>2. taken(id) /\ cur < id /\ ~taken(cur)
      BY <1>0, <2>1, <2>2, <3>1 DEF RowTypes, taken
    <3>3. cur \in missed
      BY <1>01, <2>1, <3>2 DEF ClaimedInOrder
    <3>4. phase # "drain_outcomes"
      BY <1>0, <1>01, <2>1, <3>2 DEF RowTypes, DrainOrder, drained
    <3>5. phase = "serve"
      BY <1>0, <1>01, <2>1, <3>4 DEF RowTypes, QueueOrder
    <3>6. faults # 0
      BY <1>01, <2>1, <3>3, <3>5 DEF LostForGood
    <3> QED  BY <1>0, <3>3, <3>6 DEF RowTypes
  <2> QED  BY <2>3, <2>4, <2>5, <2>7, <2>8 DEF InOrder
<1>9. CASE StatementFails
  <2>1. /\ faults' = faults + 1 /\ pc' = "next" /\ pc \notin {"down", "listening"}
        /\ missed' = IF pc = "claim" /\ inbox[cur] = "queued" THEN missed \cup {cur} ELSE missed
        /\ UNCHANGED <<inbox, payload, next_id, unnotified, outcome_queue, phase, todo, clock>>
    BY <1>9 DEF StatementFails, Return, Statements
  <2>2. QueueOrder'
    BY <1>01, <2>1 DEF QueueOrder, Ascending
  <2>3. DrainOrder'
    BY <1>0, <1>01, <2>1 DEF RowTypes, DrainOrder, drained, taken
  <2>4. ClaimedInOrder' /\ LastInHand' /\ Stamped'
    BY <1>01, <1>02, <2>1 DEF ClaimedInOrder, LastInHand, taken, Stamped
  <2>5. LostForGood'
    BY <1>0, <2>1 DEF RowTypes, LostForGood
  <2> QED  BY <2>2, <2>3, <2>4, <2>5 DEF InOrder
<1> QED  BY <1>1, <1>2, <1>3, <1>4, <1>5, <1>6, <1>7, <1>8, <1>9, AsideSteps

LEMMA OrderInvariant == LoopSpec => []OrderInv
<1>1. LoopInit => OrderInv
  <2> SUFFICES ASSUME LoopInit  PROVE InOrder
    BY DEF OrderInv
  <2>1. /\ inbox = [id \in Ids |-> "none"] /\ next_id = 1 /\ unnotified = {}
        /\ outcome_queue = <<>> /\ pc = "down" /\ missed = {}
    BY DEF LoopInit, StoreInit
  <2>2. Range(outcome_queue) = {} /\ DOMAIN outcome_queue = {}
    BY <2>1 DEF Range
  <2>3. \A id \in Ids : ~(id < next_id)
    BY <2>1, RunLoopAssumption DEF Ids
  <2> QED  BY <2>1, <2>2, <2>3 DEF InOrder, QueueOrder, Ascending, DrainOrder, LostForGood,
               ClaimedInOrder, LastInHand, taken, Stamped, Claimed, RowSteps, Statements
<1>2. LoopTypeOK /\ UnclaimedRowIsCovered /\ OrderInv /\ [LoopNext]_vars => OrderInv'
  <2> SUFFICES ASSUME LoopTypeOK, UnclaimedRowIsCovered, OrderInv, [LoopNext]_vars, Undisturbed'
               PROVE  InOrder'
    BY DEF OrderInv
  <2> QED  BY UndisturbedBefore, OrderStep DEF OrderInv
<1> QED  BY <1>1, <1>2, LoopTypeCorrect, RowsAreCovered, PTL DEF LoopSpec

-----------------------------------------------------------------------------
(***************************************************************************)
(* The rows behind the log: every event is of a row that was claimed and   *)
(* accepted, and bears what the broker wrote in that row.                  *)
(***************************************************************************)

accepted(p) == check_schema_major(p) /\ parse_inbox_payload(p)

\* e is an event that payload p caused.
Logs(e, p) ==
  /\ e.run_id = p.run_id /\ e.ts = p.ts /\ e.source = p.source /\ e.reason = p.reason
  /\ e.intervention_id = p.intervention_id /\ e.disabled = ~p.enabled

\* The row whose dispatch wrote e.
Wrote(id, e) ==
  /\ taken(id) /\ accepted(payload[id]) /\ Logs(e, payload[id])
  /\ <<e.name, e.seq>> \in written[id]

EventRows ==
  /\ \A e \in events : \E id \in Ids : Wrote(id, e)
  /\ \A n \in DOMAIN pending : Logs(pending[n], payload[cur])
  /\ pc \in Claimed \ {"delete"} => accepted(payload[cur])

LEMMA EmitLogs ==
  ASSUME NEW p, NEW counter, NEW proj, NEW d
  PROVE  \A n \in DOMAIN emit(p, counter, proj, d) : Logs(emit(p, counter, proj, d)[n], p)
BY DEF emit, event_insert_from_plan, Logs

LEMMA DispatchLogs ==
  ASSUME NEW p, NEW counter, NEW proj
  PROVE  \A n \in DOMAIN dispatch(p, counter, proj) : Logs(dispatch(p, counter, proj)[n], p)
<1>1. \A n \in DOMAIN dispatch_outcome(p, counter, proj) :
        Logs(dispatch_outcome(p, counter, proj)[n], p)
  BY EmitLogs DEF dispatch_outcome
<1>2. \A n \in DOMAIN dispatch_hippocampus(p, counter, proj) :
        Logs(dispatch_hippocampus(p, counter, proj)[n], p)
  BY EmitLogs DEF dispatch_hippocampus
<1>3. \A n \in DOMAIN dispatch_sensor(p, counter, proj) :
        Logs(dispatch_sensor(p, counter, proj)[n], p)
  BY EmitLogs DEF dispatch_sensor
<1> QED  BY <1>1, <1>2, <1>3 DEF dispatch

LEMMA RevisionLogs ==
  ASSUME NEW p, NEW counter, NEW proj, NEW prior, NEW actual
  PROVE  \A n \in DOMAIN dispatch_revision(p, counter, proj, prior, actual) :
           Logs(dispatch_revision(p, counter, proj, prior, actual)[n], p)
BY EmitLogs DEF dispatch_revision

\* Nothing is logged, the row in hand stays or is let go.
RowAside ==
  /\ UNCHANGED <<events, written>>
  /\ \A id \in Ids : taken(id) => taken(id)' /\ payload'[id] = payload[id]
  /\ \A n \in DOMAIN pending' : n \in DOMAIN pending /\ pending'[n] = pending[n] /\ cur' = cur
  /\ pc' \in Claimed \ {"delete"} => pc \in Claimed \ {"delete"} /\ cur' = cur

LEMMA RowAsideSteps ==
  ASSUME LoopTypeOK, [LoopNext]_vars
  PROVE  RowAside \/ Claim \/ ReadAndDispatch \/ build_revision_events \/ InsertEvent
<1> USE DEF storeVars, brokerVars, queueVars, localVars, procVars, boundVars, histVars
<1>0. /\ RowTypes
      /\ (pc \notin Writing => DOMAIN pending = {}) /\ DOMAIN NoEvents = {}
  BY RowTypesHold DEF LoopTypeOK, PendingTypeOK, NoEvents
<1>1. CASE \/ (\E id \in Ids : BrokerNotify(id))
            \/ (\E a \in DOMAIN audit_inbox : BrokerReject(a))
            \/ (\E id \in Ids : NotifyLost(id))
            \/ (\E x \in Ids \cup {NoId} : StrayNotify(x)) \/ TimePasses
            \/ drain_audit_replies \/ EnterServe \/ UNCHANGED vars
  <2>1. UNCHANGED <<events, written, payload, inbox, pc, cur, pending>>
    BY <1>1 DEF BrokerNotify, BrokerReject, NotifyLost, StrayNotify, TimePasses,
             drain_audit_replies, EnterServe, vars
  <2>2. RowAside
    BY <2>1 DEF RowAside, taken
  <2> QED  BY <2>2
<1>2. CASE Start \/ drain_outcome_inbox \/ DrainNext \/ handle_outcome_notify
           \/ handle_reply_notify \/ SelectReply \/ DeleteReply \/ ClaimMisses
  <2>1. RowAside
    BY <1>0, <1>2 DEF Start, drain_outcome_inbox, DrainNext, handle_outcome_notify,
             handle_reply_notify, SelectReply, DeleteReply, ClaimMisses, Return, RowAside,
             taken, Claimed, RowSteps, Statements, Writing
  <2> QED  BY <2>1
<1>3. CASE StatementFails \/ Crash \/ InsertRefused \/ RevisionWithoutPrior
  <2>1. RowAside
    BY <1>0, <1>3 DEF StatementFails, Crash, LoopDies, InsertRefused, RevisionWithoutPrior,
             Return, RowAside, taken, Claimed, RowSteps, Statements
  <2> QED  BY <2>1
<1>4. CASE delete_outcome_row
  <2>1. RowAside
    BY <1>0, <1>4 DEF delete_outcome_row, Return, RowTypes, RowAside, taken, Claimed, RowSteps,
             Statements
  <2> QED  BY <2>1
<1>5. CASE ReadForRevision \/ UpsertAttribute \/ EnqueueAudit
  <2>1. RowAside
    BY <1>0, <1>5 DEF ReadForRevision, UpsertAttribute, EnqueueAudit, RowAside, taken,
             Claimed, RowSteps, Statements
  <2> QED  BY <2>1
<1>6. CASE NotifyAudit
  <2>1. PICK n \in DOMAIN pending : pending' = Restrict(pending, DOMAIN pending \ {n})
    BY <1>6 DEF NotifyAudit
  <2>2. \A m \in DOMAIN pending' : m \in DOMAIN pending /\ pending'[m] = pending[m]
    BY <2>1 DEF Restrict
  <2>3. UNCHANGED <<events, written, payload, inbox, cur>> /\ pc = "audit_notify"
    BY <1>6 DEF NotifyAudit
  <2>4. RowAside
    BY <2>2, <2>3 DEF RowAside, taken, Claimed, RowSteps, Statements
  <2> QED  BY <2>4
<1>7. ASSUME NEW p \in Payloads, BrokerInsert(p)  PROVE RowAside
  <2>1. /\ inbox[next_id] = "none" /\ inbox' = [inbox EXCEPT ![next_id] = "queued"]
        /\ \A id \in Ids : id # next_id => payload'[id] = payload[id]
        /\ UNCHANGED <<events, written, pc, cur, pending>>
    BY <1>0, <1>7, InsertedRow
  <2> QED  BY <1>0, <2>1 DEF RowTypes, RowAside, taken
<1>8. LoopNext \/ UNCHANGED vars
  OBVIOUS
<1> QED
  BY <1>1, <1>2, <1>3, <1>4, <1>5, <1>6, <1>7, <1>8, Zenon DEF LoopNext, Broker, Unreliable, Loop

LEMMA EventRowsStep ==
  ASSUME LoopTypeOK, EventRows, [LoopNext]_vars
  PROVE  EventRows'
<1> USE DEF storeVars, brokerVars, queueVars, localVars, procVars, boundVars, histVars
<1>0. RowTypes /\ (DOMAIN pending # {} => pc \in Claimed)
  BY RowTypesHold DEF LoopTypeOK, PendingTypeOK, Writing, Claimed, RowSteps, Statements
<1>1. CASE RowAside
  <2>1. \A id \in Ids : taken(id) => taken(id)' /\ payload'[id] = payload[id]
    BY <1>1 DEF RowAside
  <2>2. \A e \in events : \A id \in Ids : Wrote(id, e) => Wrote(id, e)'
    BY <1>1, <2>1 DEF RowAside, Wrote, Logs
  <2>3. \A e \in events' : \E id \in Ids : Wrote(id, e)'
    BY <1>1, <2>2 DEF RowAside, EventRows
  <2>4. pc \in Claimed => payload'[cur] = payload[cur]
    BY <1>0, <2>1 DEF RowTypes, taken
  <2>5. ASSUME NEW n \in DOMAIN pending'  PROVE Logs(pending[n], payload[cur])'
    <3>1. n \in DOMAIN pending /\ pending'[n] = pending[n] /\ cur' = cur
      BY <1>1, <2>5 DEF RowAside
    <3>2. Logs(pending[n], payload[cur]) /\ payload'[cur] = payload[cur]
      BY <1>0, <2>4, <3>1 DEF EventRows
    <3> QED  BY <3>1, <3>2 DEF Logs
  <2>6. pc' \in Claimed \ {"delete"} => accepted(payload[cur])'
    BY <1>1, <2>4 DEF RowAside, EventRows, accepted, check_schema_major, parse_inbox_payload
  <2> QED  BY <2>3, <2>5, <2>6 DEF EventRows
<1>2. ASSUME UNCHANGED <<events, written, payload, cur>>,
             \A id \in Ids : taken(id) => taken(id)',
             \A n \in DOMAIN pending' : Logs(pending'[n], payload[cur]),
             pc' \in Claimed \ {"delete"} => accepted(payload[cur])
      PROVE  EventRows'
  <2>1. \A e \in events : \A id \in Ids : Wrote(id, e) => Wrote(id, e)'
    BY <1>2 DEF Wrote, Logs, accepted, check_schema_major, parse_inbox_payload
  <2>2. \A e \in events' : \E id \in Ids : Wrote(id, e)'
    BY <1>2, <2>1 DEF EventRows
  <2>3. \A n \in DOMAIN pending' : Logs(pending[n], payload[cur])'
    BY <1>2 DEF Logs
  <2>4. pc' \in Claimed \ {"delete"} => accepted(payload[cur])'
    BY <1>2 DEF accepted, check_schema_major, parse_inbox_payload
  <2> QED  BY <2>2, <2>3, <2>4 DEF EventRows
<1>3. CASE Claim
  <2>1. /\ UNCHANGED <<events, written, payload, cur, pending>>
        /\ inbox' = [inbox EXCEPT ![cur] = "claimed"]
        /\ DOMAIN pending = {}
        /\ pc' = IF check_schema_major(payload[cur]) /\ parse_inbox_payload(payload[cur])
                 THEN "read" ELSE "delete"
    BY <1>0, <1>3 DEF Claim, Claimed, RowSteps, Statements
  <2>2. \A id \in Ids : taken(id) => taken(id)'
    BY <1>0, <2>1 DEF RowTypes, taken
  <2> QED  BY <1>2, <2>1, <2>2 DEF accepted
<1>4. CASE ReadAndDispatch \/ build_revision_events
  <2>1. /\ UNCHANGED <<events, written, payload, cur, inbox>>
        /\ pc \in Claimed \ {"delete"} /\ accepted(payload[cur])
    BY <1>4 DEF ReadAndDispatch, build_revision_events, Claimed, RowSteps, Statements, EventRows
  <2>2. \A n \in DOMAIN pending' : Logs(pending'[n], payload[cur])
    <3>1. CASE ReadAndDispatch
      <4>1. pending' = dispatch(payload[cur], peek(counters, payload[cur].run_id), attributes)
        BY <3>1 DEF ReadAndDispatch, Dispatch
      <4> QED  BY <4>1, DispatchLogs
    <3>2. CASE build_revision_events
      <4> DEFINE iv == payload[cur].intervention_id
      <4>1. pending' = dispatch_revision(payload[cur], peek(counters, payload[cur].run_id),
                         projection, derive_prior_classification(iv), gather_prior_actuals(iv))
        BY <3>2 DEF build_revision_events, Dispatch
      <4> HIDE DEF iv
      <4> QED  BY <4>1, RevisionLogs
    <3> QED  BY <1>4, <3>1, <3>2
  <2>3. \A id \in Ids : taken(id) => taken(id)'
    BY <2>1 DEF taken
  <2> QED  BY <1>2, <2>1, <2>2, <2>3
<1>5. CASE InsertEvent
  <2>1. PICK n \in DOMAIN pending :
               /\ insert_accepts(pending[n]) /\ events' = events \cup {pending[n]}
               /\ written' = [written EXCEPT ![cur] = @ \cup {<<n, pending[n].seq>>}]
    BY <1>5 DEF InsertEvent, insert_event
  <2>2. pending[n].name = n /\ pc = "insert"
    BY <1>5 DEF InsertEvent, LoopTypeOK, PendingTypeOK
  <2>3. /\ pc \in Claimed \ {"delete"} /\ pc' \in Claimed \ {"delete"}
        /\ UNCHANGED <<payload, cur, inbox, pending>>
    BY <1>5 DEF InsertEvent, Claimed, RowSteps, Statements
  <2>4. /\ written \in [Ids -> SUBSET (Attrs \X Nat)] /\ cur \in Ids /\ taken(cur)
        /\ accepted(payload[cur]) /\ Logs(pending[n], payload[cur])
    BY <1>0, <2>3 DEF LoopTypeOK, BrokerTypeOK, RowTypes, taken, EventRows
  <2>5. \A id \in Ids : written[id] \subseteq written'[id]
    BY <2>1, <2>4
  <2>6. \A e \in events : \A id \in Ids : Wrote(id, e) => Wrote(id, e)'
    BY <2>3, <2>5 DEF Wrote, Logs, taken, accepted, check_schema_major, parse_inbox_payload
  <2>7. Wrote(cur, pending[n])'
    BY <2>1, <2>2, <2>3, <2>4 DEF Wrote, Logs, taken, accepted, check_schema_major, parse_inbox_payload
  <2>8. \A e \in events' : \E id \in Ids : Wrote(id, e)'
    <3>1. \A e \in events : \E id \in Ids : Wrote(id, e)'
      BY <2>6 DEF EventRows
    <3>2. \A e \in events' : e \in events \/ e = pending[n]
      BY <2>1
    <3>3. pending'[n] = pending[n] /\ cur' = cur
      BY <2>3
    <3>4. \E id \in Ids : Wrote(id, pending[n])'
      BY <2>4, <2>7, <3>3
    <3> QED  BY <3>1, <3>2, <3>3, <3>4
  <2> QED  BY <2>3, <2>8 DEF EventRows, Logs, accepted, check_schema_major, parse_inbox_payload
<1> QED  BY <1>1, <1>3, <1>4, <1>5, RowAsideSteps

LEMMA EventRowsInvariant == LoopSpec => []EventRows
<1>1. LoopInit => EventRows
  BY DEF LoopInit, StoreInit, NoEvents, EventRows, Claimed, RowSteps, Statements
<1>2. LoopTypeOK /\ EventRows /\ [LoopNext]_vars => EventRows'
  BY EventRowsStep
<1> QED  BY <1>1, <1>2, LoopTypeCorrect, PTL DEF LoopSpec

\* A later classification of an intervention is a revision, and only an
\* outcome bears an intervention.
BrokerOrder ==
  /\ \A id \in Ids : id < next_id =>
       (payload[id].source = "outcome" <=> payload[id].intervention_id # NoIntervention)
  /\ \A id, other \in Ids :
       /\ other < id /\ id < next_id
       /\ payload[id].source = "outcome" /\ payload[other].source = "outcome"
       /\ payload[other].intervention_id = payload[id].intervention_id
       => payload[id].is_revision

LEMMA BrokerOrderStep ==
  ASSUME LoopTypeOK, BrokerOrder, [LoopNext]_vars
  PROVE  BrokerOrder'
<1> USE DEF storeVars, brokerVars, queueVars, localVars, procVars, boundVars, histVars
<1>0. RowTypes
  BY RowTypesHold
<1>1. UNCHANGED <<payload, next_id>> \/ \E p \in Payloads : BrokerInsert(p)
  BY DEF LoopNext, Broker, Unreliable, Loop, vars, BrokerNotify, BrokerReject, NotifyLost,
         StrayNotify, TimePasses, StatementFails, Crash, Start, drain_outcome_inbox,
         drain_audit_replies, EnterServe, DrainNext, handle_outcome_notify, handle_reply_notify,
         Claim, ClaimMisses, ReadAndDispatch, ReadForRevision, build_revision_events,
         RevisionWithoutPrior, InsertEvent, InsertRefused, UpsertAttribute, EnqueueAudit,
         NotifyAudit, delete_outcome_row, SelectReply, DeleteReply
<1>2. CASE UNCHANGED <<payload, next_id>>
  BY <1>2 DEF BrokerOrder
<1>3. ASSUME NEW p \in Payloads, BrokerInsert(p)  PROVE BrokerOrder'
  <2>1. /\ next_id \in Ids /\ next_id' = next_id + 1
        /\ payload'[next_id] = [p EXCEPT !.ts = clock]
        /\ \A id \in Ids : id # next_id => payload'[id] = payload[id]
    BY <1>0, <1>3, InsertedRow
  <2>2. /\ p.source = "outcome" <=> p.intervention_id # NoIntervention
        /\ p.source = "outcome" => (p.is_revision <=> classified(p.intervention_id))
        /\ p \in Payload
    BY <1>3, RunLoopAssumption DEF BrokerInsert
  <2>3. /\ payload'[next_id].source = p.source /\ payload'[next_id].is_revision = p.is_revision
        /\ payload'[next_id].intervention_id = p.intervention_id
    BY <2>1, <2>2 DEF Payload
  <2>4. \A id \in Ids : id < next_id' => id = next_id \/ id < next_id
    BY <1>0, <2>1 DEF RowTypes
  <2> HIDE <1>3
  <2>5. \A id \in Ids : id < next_id' =>
          (payload'[id].source = "outcome" <=> payload'[id].intervention_id # NoIntervention)
    BY <1>0, <2>1, <2>2, <2>3, <2>4 DEF RowTypes, BrokerOrder
  <2>6. ASSUME NEW id \in Ids, NEW other \in Ids, other < id, id < next_id',
               payload'[id].source = "outcome", payload'[other].source = "outcome",
               payload'[other].intervention_id = payload'[id].intervention_id
        PROVE  payload'[id].is_revision
    <3>1. other < next_id /\ other # next_id /\ payload'[other] = payload[other]
      BY <1>0, <2>1, <2>4, <2>6 DEF RowTypes
    <3>2. CASE id = next_id
      <4>1. p.source = "outcome" /\ classified(p.intervention_id)
        BY <2>3, <2>6, <3>1, <3>2 DEF classified
      <4> QED  BY <2>2, <2>3, <3>2, <4>1
    <3>3. CASE id # next_id
      <4>1. id < next_id /\ payload'[id] = payload[id]
        BY <2>1, <2>4, <2>6, <3>3
      <4> QED  BY <2>6, <3>1, <4>1 DEF BrokerOrder
    <3> QED  BY <3>2, <3>3
  <2> QED  BY <2>5, <2>6 DEF BrokerOrder
<1> QED  BY <1>1, <1>2, <1>3

LEMMA BrokerOrderInvariant == LoopSpec => []BrokerOrder
<1>1. LoopInit => BrokerOrder
  <2> SUFFICES ASSUME LoopInit  PROVE BrokerOrder
    OBVIOUS
  <2>1. \A id \in Ids : ~(id < next_id)
    BY RunLoopAssumption DEF LoopInit, Ids
  <2> QED  BY <2>1 DEF BrokerOrder
<1>2. LoopTypeOK /\ BrokerOrder /\ [LoopNext]_vars => BrokerOrder'
  BY BrokerOrderStep
<1> QED  BY <1>1, <1>2, LoopTypeCorrect, PTL DEF LoopSpec

-----------------------------------------------------------------------------
(***************************************************************************)
(* The order of the log. Each event is of the last row taken, so it is the *)
(* last of its attribute in the order of a rebuild.                        *)
(***************************************************************************)

\* e replays after every other event of S.
IsLast(e, S) == e \in S /\ \A f \in S \ {e} : replays_before(f, e)

\* Each attribute is what the last of its events left, or is about to be.
Replayed(n) ==
  LET S == enabled_of(events, n)
  IN IF pc = "upsert" /\ first(n) THEN IsLast(pending[n], S)
     ELSE \/ S = {} /\ attributes[n] = 0
          \/ \E e \in S : IsLast(e, S) /\ e.new_value = attributes[n]

ReplayInv ==
  Undisturbed /\ faults = 0 /\ ~Tied(events) => \A n \in Attrs : Replayed(n)

\* The event at hand replays after all that is logged, ties apart.
LEMMA InsertIsLast ==
  ASSUME LoopTypeOK, SeqInv, InOrder, EventRows, crashes = 0, InsertEvent,
         faults = 0 \/ cur \notin missed,
         NEW n \in DOMAIN pending, first(n),
         NEW S, pending[n] \in S, S \subseteq events \cup {pending[n]}, ~Tied(S)
  PROVE  IsLast(pending[n], S)
<1> SUFFICES ASSUME NEW f \in S \ {pending[n]}  PROVE replays_before(f, pending[n])
  BY DEF IsLast
<1>1. pc = "insert" /\ pc \in Claimed /\ RowTypes
  BY RowTypesHold DEF InsertEvent, Claimed, RowSteps, Statements
<1>2. Logs(pending[n], payload[cur])
  BY DEF EventRows
<1>3. PICK id \in Ids : Wrote(id, f)
  BY DEF EventRows
<1>4. cur \in Ids /\ cur < next_id /\ taken(id) /\ id < next_id
      /\ payload[id] \in Payload /\ payload[cur] \in Payload
  BY <1>1, <1>3 DEF RowTypes, Wrote, taken
<1>5. id <= cur
  BY <1>1, <1>4 DEF InOrder, LastInHand, RowTypes
<1>6. payload[id].ts <= payload[cur].ts
  <2>1. CASE id = cur
    BY <1>4, <2>1 DEF Payload
  <2>2. CASE id # cur
    <3>1. id < cur
      BY <1>1, <1>4, <1>5, <2>2 DEF RowTypes
    <3> QED  BY <1>4, <3>1 DEF InOrder, Stamped
  <2> QED  BY <2>1, <2>2
<1>7. f.ts <= pending[n].ts /\ f.ts \in Nat /\ pending[n].ts \in Nat
  BY <1>2, <1>3, <1>4, <1>6 DEF Wrote, Logs, Payload
<1>8. f.ts = pending[n].ts => f.run_id = pending[n].run_id
  BY DEF Tied
<1>9. f.run_id = pending[n].run_id => f.seq < pending[n].seq
  BY <1>1 DEF SeqInv, PendingAhead, unwritten
<1> QED  BY <1>7, <1>8, <1>9 DEF replays_before

\* What is last in replay order is the row that rebuild_projection ends with.
LEMMA LastIsLatest ==
  ASSUME NEW S, IsFiniteSet(S), S \subseteq Event, Keyed(S), NEW e, IsLast(e, S)
  PROVE  latest(S) = e
<1>1. e \in S /\ \A f \in S \ {e} : replays_before(f, e)
  BY DEF IsLast
<1>2. latest(S) \in S /\ \A f \in S \ {latest(S)} : replays_before(f, latest(S))
  BY <1>1, LatestIsLast
<1>3. latest(S) \in Event /\ e \in Event
  BY <1>1, <1>2
<1> QED  BY <1>1, <1>2, <1>3, ReplayOrder

LEMMA ReplayedStep ==
  ASSUME LoopTypeOK, SeqInv, InOrder, EventRows, Undisturbed, Undisturbed',
         faults = 0, faults' = 0, [LoopNext]_vars, ~Tied(events'),
         \A n \in Attrs : Replayed(n)
  PROVE  \A n \in Attrs : Replayed(n)'
<1> USE DEF storeVars, brokerVars, queueVars, localVars, procVars, boundVars, histVars
<1>0. faults = 0 /\ crashes = 0 /\ faults' = 0 /\ crashes' = 0
  BY DEF Undisturbed
<1>1. CASE Quiet
  BY <1>1 DEF Quiet, Replayed, enabled_of, first, IsLast, replays_before
<1>2. CASE Outside \/ GivesUp \/ ReadAndDispatch \/ build_revision_events
           \/ EnqueueAudit \/ NotifyAudit
  <2>1. UNCHANGED <<events, attributes>> /\ pc # "upsert" /\ pc' # "upsert"
    BY <1>0, <1>2 DEF Outside, GivesUp, Writing, ReadAndDispatch, build_revision_events,
             Dispatch, EnqueueAudit, NotifyAudit
  <2> QED  BY <2>1 DEF Replayed, enabled_of, IsLast, replays_before
<1>3. CASE InsertEvent
  <2>1. PICK n \in DOMAIN pending :
               /\ first(n) /\ n \in Attrs /\ pending[n] \in Event /\ pending[n].name = n
               /\ events' = events \cup {pending[n]}
               /\ pc = "insert" /\ pc' = IF pending[n].disabled THEN "audit" ELSE "upsert"
               /\ UNCHANGED <<attributes, pending>>
               /\ \A m \in DOMAIN pending' : first(m)' => m = n
    BY <1>3, InsertFacts
  <2> DEFINE ev == pending[n]
  <2>2. ASSUME NEW m \in Attrs, m # n \/ ev.disabled  PROVE Replayed(m)'
    <3>1. enabled_of(events', m) = enabled_of(events, m)
      BY <2>1, <2>2 DEF enabled_of
    <3>2. ~(pc' = "upsert" /\ first(m)')
      BY <2>1, <2>2 DEF first
    <3>3. \/ enabled_of(events, m) = {} /\ attributes[m] = 0
          \/ \E e \in enabled_of(events, m) : IsLast(e, enabled_of(events, m))
                                              /\ e.new_value = attributes[m]
      BY <2>1 DEF Replayed
    <3> QED  BY <2>1, <3>1, <3>2, <3>3 DEF Replayed
  <2>3. ASSUME ~ev.disabled  PROVE Replayed(n)'
    <3> DEFINE S == enabled_of(events', n)
    <3>1. ev \in S /\ S \subseteq events \cup {ev} /\ ~Tied(S)
      BY <2>1, <2>3 DEF enabled_of, Tied
    <3>2. IsLast(ev, S)
      <4> HIDE DEF S
      <4> QED  BY <1>0, <1>3, <2>1, <3>1, InsertIsLast
    <3>3. pc' = "upsert" /\ first(n)'
      BY <2>1, <2>3 DEF first
    <3> QED  BY <2>1, <3>2, <3>3 DEF Replayed
  <2> QED  BY <2>2, <2>3
<1>4. CASE UpsertAttribute
  <2>1. PICK n \in DOMAIN pending : first(n) /\ attributes' = [attributes EXCEPT ![pending[n].name] = pending[n].new_value]
    BY <1>4 DEF UpsertAttribute, upsert_attribute
  <2>2. /\ n \in Attrs /\ pending[n].name = n /\ attributes \in [Attrs -> Value]
        /\ pc = "upsert" /\ pc' = "audit" /\ UNCHANGED events
    BY <1>4, <2>1 DEF UpsertAttribute, LoopTypeOK, StoreTypeOK, PendingTypeOK
  <2>3. Replayed(n)'
    <3>1. IsLast(pending[n], enabled_of(events, n))
      BY <2>1, <2>2 DEF Replayed
    <3>2. attributes'[n] = pending[n].new_value
      BY <2>1, <2>2
    <3>3. pending[n] \in enabled_of(events, n)
      BY <3>1 DEF IsLast
    <3> QED  BY <2>2, <3>1, <3>2, <3>3 DEF Replayed
  <2>4. ASSUME NEW m \in Attrs, m # n  PROVE Replayed(m)'
    <3>1. ~first(m)
      BY <2>1, <2>4, FirstIsUnique
    <3>2. attributes'[m] = attributes[m]
      BY <2>1, <2>2, <2>4
    <3> QED  BY <2>2, <3>1, <3>2 DEF Replayed
  <2> QED  BY <2>3, <2>4
<1> QED  BY <1>1, <1>2, <1>3, <1>4, LedgerSteps

\* The log only grows.
LEMMA LogGrows ==
  ASSUME LoopTypeOK, [LoopNext]_vars
  PROVE  events \subseteq events'
<1>1. CASE InsertEvent
  BY <1>1, InsertFacts
<1>2. CASE Quiet \/ Outside \/ GivesUp \/ ReadAndDispatch \/ build_revision_events
           \/ UpsertAttribute \/ EnqueueAudit \/ NotifyAudit
  BY <1>2 DEF Quiet, Outside, GivesUp, ReadAndDispatch, build_revision_events,
           UpsertAttribute, EnqueueAudit, NotifyAudit, storeVars
<1> QED  BY <1>1, <1>2, LedgerSteps

LEMMA ReplayInvariant ==
  ASSUME EveryRunIsTracked
  PROVE  LoopSpec => []ReplayInv
<1>1. LoopInit => ReplayInv
  BY DEF LoopInit, StoreInit, ReplayInv, Replayed, enabled_of
<1>2. LoopTypeOK /\ SeqInv /\ OrderInv /\ EventRows /\ ReplayInv /\ [LoopNext]_vars => ReplayInv'
  <2> SUFFICES ASSUME LoopTypeOK, SeqInv, OrderInv, EventRows, ReplayInv, [LoopNext]_vars,
                      Undisturbed', faults' = 0, ~Tied(events')
               PROVE  \A n \in Attrs : Replayed(n)'
    BY DEF ReplayInv, Tied
  <2>1. Undisturbed /\ faults = 0
    BY UndisturbedBefore
  <2>2. ~Tied(events)
    BY LogGrows DEF Tied
  <2> QED  BY <2>1, <2>2, ReplayedStep DEF ReplayInv, OrderInv
<1> QED
  BY <1>1, <1>2, LoopTypeCorrect, SeqInvariant, OrderInvariant, EventRowsInvariant, PTL
     DEF LoopSpec

(***************************************************************************)
(* ReplayIsProjection: in a process that has not crashed, with no more     *)
(* runs than COUNTER_LRU_CAP and no stray notification, a rebuild changes  *)
(* nothing: rows are claimed in the order of their timestamps and a run's  *)
(* seqs grow, so each event is the last of its attribute in replay order   *)
(* when it is written. A lost notification delays its row until a restart, *)
(* which ends the first process; it does not change the order.             *)
(***************************************************************************)
THEOREM RebuildChangesNothing ==
  ASSUME EveryRunIsTracked
  PROVE  LoopSpec => []ReplayIsProjection
<1>1. LoopTypeOK /\ LogOK /\ ReplayInv => ReplayIsProjection
  <2> SUFFICES ASSUME LoopTypeOK, LogOK, ReplayInv, pc # "upsert", Undisturbed, faults = 0,
                      ~Tied(events)
               PROVE  rebuild_projection(FALSE) = attributes
    BY DEF ReplayIsProjection
  <2>1. \A n \in Attrs : Replayed(n)
    BY DEF ReplayInv
  <2>2. attributes = [n \in Attrs |-> attributes[n]]
    BY DEF LoopTypeOK, StoreTypeOK
  <2>3. rebuild_projection(FALSE) =
          [n \in Attrs |-> IF enabled_of(events, n) = {} THEN 0
                           ELSE latest(enabled_of(events, n)).new_value]
    BY DEF rebuild_projection, enabled_of
  <2>4. ASSUME NEW n \in Attrs
        PROVE  (IF enabled_of(events, n) = {} THEN 0
                ELSE latest(enabled_of(events, n)).new_value) = attributes[n]
    <3> DEFINE S == enabled_of(events, n)
    <3>1. IsFiniteSet(S) /\ S \subseteq Event /\ Keyed(S)
      <4>1. S \subseteq events
        BY DEF enabled_of
      <4> HIDE DEF S
      <4> QED  BY <4>1, FS_Subset DEF LogOK, Keyed, LoopTypeOK, StoreTypeOK
    <3>2. \/ S = {} /\ attributes[n] = 0
          \/ \E e \in S : IsLast(e, S) /\ e.new_value = attributes[n]
      BY <2>1 DEF Replayed
    <3> HIDE DEF S
    <3>3. ASSUME NEW e \in S, IsLast(e, S), e.new_value = attributes[n]
          PROVE  S # {} /\ latest(S).new_value = attributes[n]
      BY <3>1, <3>3, LastIsLatest
    <3>4. (IF S = {} THEN 0 ELSE latest(S).new_value) = attributes[n]
      BY <3>2, <3>3
    <3> QED  BY <3>4 DEF S
  <2> QED  BY <2>2, <2>3, <2>4
<1> QED  BY <1>1, LoopTypeCorrect, LogInvariant, ReplayInvariant, PTL

-----------------------------------------------------------------------------
(***************************************************************************)
(* The arithmetic of revisions. R is what an intervention has logged.      *)
(***************************************************************************)

\* What the enabled events of R add up to.
net(R, n) == sum_of({e \in R : e.name = n /\ ~e.disabled})

capped(R, n) == \E e \in R : e.name = n /\ e.caps_applied # {}

Reached(R, n, goal) == net(R, n) = goal \/ capped(R, n)

\* What the classification of payload p alone would have caused.
aim(p, n) == weight_delta(outcome_base_deltas(p.reason)[n], p.confidence)

\* Every attribute is where p wants it, unless a cap interfered.
Met(R, p) == \A n \in Attrs : Reached(R, n, aim(p, n))

\* An attribute that the last classification does not concern is back where
\* it was: the union with that row leaves none out (build_revision_events).
Concerned(R) == affected(outcome_base_deltas(latest(R).reason))
NoneLeft(R) == R # {} => \A n \in Attrs \ Concerned(R) : Reached(R, n, 0)

\* Once the events of evs due for the attributes in rest are inserted, p is met.
Settling(R, n, p, rest, evs) ==
  IF n \in rest
  THEN \/ evs[n].caps_applied # {} \/ capped(R, n)
       \/ net(R, n) + delta(evs[n]) = aim(p, n)
  ELSE Reached(R, n, aim(p, n))

LEMMA AimFacts ==
  ASSUME NEW p, NEW n \in Attrs
  PROVE  /\ aim(p, n) \in Int
         /\ n \notin affected(outcome_base_deltas(p.reason)) => aim(p, n) = 0
<1>1. aim(p, n) \in Int
  BY TableTypes DEF aim
<1>2. ASSUME n \notin affected(outcome_base_deltas(p.reason))  PROVE aim(p, n) = 0
  <2>1. outcome_base_deltas(p.reason)[n] = 0
    BY <1>2 DEF affected
  <2>2. weight_delta(0, p.confidence) = 0
    <3>1. twice_weight(p.confidence) \in {1, 2, 3}
      BY DEF twice_weight
    <3>2. (0 * twice_weight(p.confidence)) \div 2 = 0
      BY <3>1
    <3> QED  BY <3>2 DEF weight_delta, clamp, CONFIDENCE_MAGNITUDE_CAP, HIGH
  <2> QED  BY <2>1, <2>2 DEF aim
<1> QED  BY <1>1, <1>2

\* An event without a cap moves its attribute by the delta it was built for.
LEMMA EmitMeets ==
  ASSUME NEW p, NEW counter, NEW proj, NEW d, NEW n \in DOMAIN d, proj[n] \in Int, d[n] \in Int
  PROVE  /\ DOMAIN emit(p, counter, proj, d) = DOMAIN d
         /\ \/ emit(p, counter, proj, d)[n].caps_applied # {}
            \/ delta(emit(p, counter, proj, d)[n]) = d[n]
<1> DEFINE snap == [doubt |-> proj[doubt], shame |-> proj[shame]]
           plan == plan_for(n, d[n], proj[n], snap)
           ev   == emit(p, counter, proj, d)[n]
<1>1. /\ DOMAIN emit(p, counter, proj, d) = DOMAIN d
      /\ ev.old_value = plan.old_value /\ ev.new_value = plan.new_value
      /\ ev.caps_applied = plan.caps_applied
  BY DEF emit, event_insert_from_plan
<1> HIDE DEF ev
<1>2. plan.caps_applied = {} => plan.old_value = proj[n] /\ plan.new_value = proj[n] + d[n]
  <2> DEFINE raw   == proj[n] + d[n]
             room  == ONE - snap.doubt - snap.shame
             bound == IF room > 0 THEN room ELSE 0
             cap   == n = friction /\ d[n] > 0 /\ raw > bound
             held  == IF cap THEN bound ELSE raw
             new   == clamp(held, 0, ONE)
  <2>1. /\ plan.old_value = proj[n] /\ plan.new_value = new
        /\ plan.caps_applied = (IF cap THEN {"friction_cap"} ELSE {})
                                 \cup (IF new # held THEN {"range_clamp"} ELSE {})
    BY DEF plan_for
  <2> HIDE DEF new, plan
  <2>2. plan.caps_applied = {} => ~cap /\ new = held
    <3> HIDE DEF cap, held
    <3> QED  BY <2>1
  <2>3. ~cap => held = raw
    <3> HIDE DEF cap
    <3> QED  OBVIOUS
  <2> QED  BY <2>1, <2>2, <2>3
<1> HIDE DEF plan
<1>3. plan.caps_applied = {} => delta(ev) = d[n]
  BY <1>1, <1>2 DEF delta
<1> QED  BY <1>1, <1>3 DEF ev

\* A first emission aims at its row from nothing.
LEMMA FirstSettles ==
  ASSUME NEW p, NEW counter, NEW proj \in [Attrs -> Value]
  PROVE  LET evs == dispatch_outcome(p, counter, proj)
         IN \A n \in Attrs : Settling({}, n, p, DOMAIN evs, evs)
<1> DEFINE row == outcome_base_deltas(p.reason)
           d   == [n \in affected(row) |-> weight_delta(row[n], p.confidence)]
           evs == emit(p, counter, proj, d)
<1>1. dispatch_outcome(p, counter, proj) = evs
  BY DEF dispatch_outcome
<1>2. \A n : net({}, n) = 0 /\ ~capped({}, n)
  <2>1. \A n : {e \in {} : e.name = n /\ ~e.disabled} = {}
    OBVIOUS
  <2> QED  BY <2>1, SumEmpty DEF net, capped
<1>3. DOMAIN evs = affected(row)
  BY DEF emit
<1>4. ASSUME NEW n \in Attrs  PROVE Settling({}, n, p, DOMAIN evs, evs)
  <2>1. CASE n \in affected(row)
    <3>1. d[n] = aim(p, n) /\ n \in DOMAIN d
      BY <2>1 DEF aim
    <3>2. d[n] \in Int /\ proj[n] \in Int
      BY <3>1, AimFacts, ValueIsInt
    <3>3. evs[n].caps_applied # {} \/ delta(evs[n]) = d[n]
      <4> HIDE DEF d
      <4> QED  BY <3>1, <3>2, EmitMeets
    <3> HIDE DEF d, evs
    <3> QED  BY <1>2, <1>3, <2>1, <3>1, <3>2, <3>3 DEF Settling
  <2>2. CASE n \notin affected(row)
    <3>1. aim(p, n) = 0
      BY <2>2, AimFacts
    <3> HIDE DEF evs
    <3> QED  BY <1>2, <1>3, <2>2, <3>1 DEF Settling, Reached
  <2> QED  BY <2>1, <2>2
<1> HIDE DEF evs
<1> QED  BY <1>1, <1>4

\* A revision aims at its row from what the earlier ones have actually left.
LEMMA RevisionSettles ==
  ASSUME NEW p, NEW counter, NEW proj \in [Attrs -> Value], NEW actual, NEW R,
         \A n \in Attrs : actual[n] = net(R, n) /\ net(R, n) \in Int,
         R # {}, NoneLeft(R)
  PROVE  LET evs == dispatch_revision(p, counter, proj, latest(R).reason, actual)
         IN \A n \in Attrs : Settling(R, n, p, DOMAIN evs, evs)
<1> DEFINE row == outcome_base_deltas(p.reason)
           all == affected(row) \cup Concerned(R)
           d   == [n \in all |-> weight_delta(row[n], p.confidence) - actual[n]]
           evs == emit(p, counter, proj, d)
<1>1. dispatch_revision(p, counter, proj, latest(R).reason, actual) = evs
  BY DEF dispatch_revision, Concerned
<1>2. DOMAIN evs = all
  BY DEF emit
<1>3. ASSUME NEW n \in Attrs  PROVE Settling(R, n, p, DOMAIN evs, evs)
  <2>1. CASE n \in all
    <3>1. d[n] = aim(p, n) - net(R, n) /\ n \in DOMAIN d
      BY <2>1 DEF aim
    <3> HIDE DEF d
    <3>2. aim(p, n) \in Int /\ net(R, n) \in Int /\ proj[n] \in Int
      BY AimFacts, ValueIsInt
    <3>3. d[n] \in Int /\ net(R, n) + d[n] = aim(p, n)
      BY <3>1, <3>2
    <3>4. evs[n].caps_applied # {} \/ delta(evs[n]) = d[n]
      BY <3>1, <3>2, <3>3, EmitMeets
    <3> HIDE DEF evs, all
    <3> QED  BY <1>2, <2>1, <3>3, <3>4 DEF Settling
  <2>2. CASE n \notin all
    <3>1. aim(p, n) = 0
      BY <2>2, AimFacts
    <3>2. Reached(R, n, 0)
      BY <2>2 DEF NoneLeft
    <3> HIDE DEF evs, all
    <3> QED  BY <1>2, <2>2, <3>1, <3>2 DEF Settling
  <2> QED  BY <2>1, <2>2
<1> HIDE DEF evs
<1> QED  BY <1>1, <1>3

\* Inserting one of the events settles its attribute.
LEMMA InsertSettles ==
  ASSUME NEW R, IsFiniteSet(R), \A e \in R : delta(e) \in Int,
         NEW p, NEW evs, NEW rest, NEW n \in rest \cap Attrs,
         evs[n] \notin R, delta(evs[n]) \in Int, evs[n].name = n, ~evs[n].disabled,
         \A m \in Attrs : Settling(R, m, p, rest, evs)
  PROVE  \A m \in Attrs : Settling(R \cup {evs[n]}, m, p, rest \ {n}, evs)
<1> DEFINE ev == evs[n]
           Q  == R \cup {ev}
           of(S, m) == {e \in S : e.name = m /\ ~e.disabled}
<1>1. ASSUME NEW m \in Attrs, m # n  PROVE Settling(Q, m, p, rest \ {n}, evs)
  <2>1. of(Q, m) = of(R, m)
    BY <1>1
  <2>2. net(Q, m) = net(R, m) /\ (capped(Q, m) <=> capped(R, m))
    BY <1>1, <2>1 DEF net, capped
  <2> HIDE DEF Q
  <2> QED  BY <1>1, <2>2 DEF Settling, Reached
<1>2. Settling(Q, n, p, rest \ {n}, evs)
  <2>1. of(Q, n) = of(R, n) \cup {ev} /\ ev \notin of(R, n)
    OBVIOUS
  <2>2. IsFiniteSet(of(R, n)) /\ \A e \in of(R, n) : delta(e) \in Int
    BY FS_Subset
  <2>3. sum_of(of(R, n) \cup {ev}) = delta(ev) + sum_of(of(R, n)) /\ sum_of(of(R, n)) \in Int
    <3> HIDE DEF of, ev
    <3>1. delta(ev) \in Int
      BY DEF ev
    <3> QED  BY <2>1, <2>2, <3>1, SumAdd, SumType
  <2>4. net(Q, n) = net(R, n) + delta(ev)
    <3>1. net(Q, n) = sum_of(of(R, n) \cup {ev}) /\ net(R, n) = sum_of(of(R, n))
      BY <2>1 DEF net
    <3> HIDE DEF of, ev, Q
    <3>2. delta(ev) \in Int
      BY DEF ev
    <3> QED  BY <2>3, <3>1, <3>2
  <2>5. ev.caps_applied # {} \/ capped(R, n) => capped(Q, n)
    BY DEF capped
  <2> HIDE DEF Q
  <2> QED  BY <2>4, <2>5 DEF Settling, Reached
<1> HIDE DEF Q
<1>3. \A m \in Attrs : Settling(Q, m, p, rest \ {n}, evs)
  BY <1>1, <1>2
<1> QED  BY <1>3 DEF Q

\* With nothing left to insert the row is met, and once it is the last in the
\* log nothing else is left.
LEMMA NothingDue ==
  ASSUME NEW R, NEW p, NEW evs, \A n \in Attrs : Settling(R, n, p, {}, evs)
  PROVE  /\ Met(R, p)
         /\ latest(R).reason = p.reason => NoneLeft(R)
<1>1. Met(R, p)
  BY DEF Settling, Met
<1>2. ASSUME latest(R).reason = p.reason, NEW n \in Attrs \ Concerned(R)
      PROVE  Reached(R, n, 0)
  <2>1. aim(p, n) = 0
    BY <1>2, AimFacts DEF Concerned
  <2> QED  BY <1>1, <2>1 DEF Met
<1> QED  BY <1>1, <1>2 DEF NoneLeft

-----------------------------------------------------------------------------
(***************************************************************************)
(* The rows of an intervention iv.                                         *)
(***************************************************************************)

\* Every row is dispatched in full, enabled and in its turn, or is in hand,
\* and the log has an order that is the broker's.
Steady(iv) ==
  /\ ~Tied(prior_rows(iv))
  /\ \A r \in outcome_rows(iv) :
       /\ r \notin missed /\ payload[r].enabled
       /\ inbox[r] = "deleted" \/ (r = cur /\ pc \in Claimed)

InHand(iv) == pc \in Claimed /\ cur \in outcome_rows(iv)

Settled(iv) ==
  LET R == prior_rows(iv)
  IN /\ InHand(iv) /\ pc \in Writing =>
          /\ \A n \in Attrs : Settling(R, n, payload[cur], to_insert, pending)
          /\ pc # "insert" => latest(R).reason = payload[cur].reason
     /\ ~(InHand(iv) /\ pc \in Writing) => NoneLeft(R)
     /\ InHand(iv) /\ pc = "delete" => Met(R, payload[cur])
     /\ ~InHand(iv) => \A id \in outcome_rows(iv) :
                         (\A r \in outcome_rows(iv) : r <= id) => Met(R, payload[id])

RevisionInv == Undisturbed => \A iv : iv # NoIntervention /\ Steady(iv) => Settled(iv)

\* What the rows of iv were, they still are.
SameRows(iv) ==
  /\ UNCHANGED <<prior_rows(iv), outcome_rows(iv)>>
  /\ \A r \in outcome_rows(iv) :
       /\ payload'[r] = payload[r] /\ inbox'[r] = inbox[r]
       /\ r \in missed => r \in missed'

\* A step that has nothing to do with iv.
LEMMA ApartStep ==
  ASSUME NEW iv, SameRows(iv), Steady(iv) => Settled(iv),
         ~InHand(iv), ~InHand(iv)', Steady(iv)'
  PROVE  Settled(iv)'
<1>1. Steady(iv)
  BY DEF SameRows, Steady, InHand
<1>2. Settled(iv)
  BY <1>1
<1> QED  BY <1>2 DEF Settled, SameRows

\* A step that leaves the row in hand where it is.
LEMMA StayStep ==
  ASSUME NEW iv, SameRows(iv), Steady(iv) => Settled(iv), InHand(iv), Steady(iv)',
         UNCHANGED <<cur, pending>>, UNCHANGED pc \/ UNCHANGED to_insert,
         pc' \in Claimed, pc' = "insert" <=> pc = "insert",
         pc' \in Writing <=> pc \in Writing, pc' = "delete" <=> pc = "delete"
  PROVE  Settled(iv)'
<1>1. Steady(iv) /\ InHand(iv)'
  BY DEF SameRows, Steady, InHand
<1>2. UNCHANGED <<to_insert, prior_rows(iv), cur, pending>> /\ payload'[cur] = payload[cur]
  BY DEF to_insert, first, SameRows, InHand
<1> QED  BY <1>1, <1>2 DEF Settled

\* Which rows an intervention has.
LEMMA OutcomeRow ==
  ASSUME LoopTypeOK, BrokerOrder, NEW iv, iv # NoIntervention, NEW id \in Ids, taken(id)
  PROVE  id \in outcome_rows(iv) <=> accepted(payload[id]) /\ payload[id].intervention_id = iv
<1>1. id < next_id
  BY RowTypesHold DEF RowTypes, taken
<1> QED  BY <1>1 DEF BrokerOrder, outcome_rows, taken, accepted

\* The broker's and the bystanders' steps.
Idle ==
  /\ UNCHANGED events
  /\ \A id \in Ids : taken(id)' <=> taken(id)
  /\ \A id \in Ids : taken(id) => payload'[id] = payload[id] /\ inbox'[id] = inbox[id]
                                  /\ (id \in missed => id \in missed')
  /\ UNCHANGED <<pc, cur, pending>> \/ (pc \notin Claimed /\ pc' \notin Claimed)

\* A row is claimed and left undeleted.
LetsGo ==
  /\ UNCHANGED <<events, inbox, payload, missed>>
  /\ pc \in Claimed /\ pc' \notin Claimed

LEMMA RevisionSteps ==
  ASSUME LoopTypeOK, InOrder, Undisturbed, Undisturbed', [LoopNext]_vars
  PROVE  \/ Idle \/ LetsGo \/ Claim \/ ReadAndDispatch \/ ReadForRevision
         \/ build_revision_events \/ InsertEvent \/ UpsertAttribute \/ EnqueueAudit
         \/ NotifyAudit \/ delete_outcome_row
<1> USE DEF storeVars, brokerVars, queueVars, localVars, procVars, boundVars, histVars
<1>0. RowTypes /\ crashes = 0 /\ strays = 0
  BY RowTypesHold DEF Undisturbed
<1>1. CASE \/ (\E id \in Ids : BrokerNotify(id))
            \/ (\E a \in DOMAIN audit_inbox : BrokerReject(a))
            \/ (\E id \in Ids : NotifyLost(id))
            \/ TimePasses \/ drain_audit_replies \/ EnterServe \/ UNCHANGED vars
  <2>1. UNCHANGED <<events, payload, inbox, pc, cur, pending>> /\ missed \subseteq missed'
    BY <1>1 DEF BrokerNotify, BrokerReject, NotifyLost, TimePasses, drain_audit_replies,
             EnterServe, vars
  <2>2. Idle
    BY <2>1 DEF Idle, taken
  <2> QED  BY <2>2
<1>2. CASE Start \/ DrainNext \/ handle_outcome_notify \/ handle_reply_notify
           \/ SelectReply \/ DeleteReply \/ ClaimMisses
  <2>1. /\ UNCHANGED <<events, payload, inbox, missed>>
        /\ pc \notin Claimed /\ pc' \notin Claimed
    BY <1>2 DEF Start, DrainNext, handle_outcome_notify, handle_reply_notify, SelectReply,
             DeleteReply, ClaimMisses, Return, Claimed, RowSteps, Statements
  <2>2. Idle
    BY <2>1 DEF Idle, taken
  <2> QED  BY <2>2
<1>3. CASE drain_outcome_inbox
  <2>1. /\ UNCHANGED <<events, payload, inbox>> /\ pc = "listening"
        /\ pc \notin Claimed /\ pc' \notin Claimed
    BY <1>3 DEF drain_outcome_inbox, Claimed, RowSteps, Statements
  <2>2. \A id \in Ids : ~taken(id)
    BY <2>1 DEF InOrder, ClaimedInOrder
  <2>3. Idle
    BY <2>1, <2>2 DEF Idle, taken
  <2> QED  BY <2>3
<1>4. ASSUME NEW p \in Payloads, BrokerInsert(p)  PROVE Idle
  <2>1. /\ inbox[next_id] = "none" /\ inbox' = [inbox EXCEPT ![next_id] = "queued"]
        /\ \A id \in Ids : id # next_id => payload'[id] = payload[id]
        /\ UNCHANGED <<events, missed, pc, cur, pending>>
    BY <1>0, <1>4, InsertedRow
  <2> QED  BY <1>0, <2>1 DEF RowTypes, Idle, taken
<1>5. CASE StatementFails
  <2>1. /\ UNCHANGED <<events, payload, inbox>> /\ missed \subseteq missed' /\ pc' \notin Claimed
        /\ pc \in Claimed => missed' = missed
    BY <1>5 DEF StatementFails, Return, Claimed, RowSteps, Statements
  <2>2. CASE pc \in Claimed
    BY <2>1, <2>2 DEF LetsGo
  <2>3. CASE pc \notin Claimed
    <3>1. Idle
      BY <2>1, <2>3 DEF Idle, taken
    <3> QED  BY <3>1
  <2> QED  BY <2>2, <2>3
<1>6. CASE InsertRefused \/ RevisionWithoutPrior
  <2>1. LetsGo
    BY <1>6 DEF InsertRefused, RevisionWithoutPrior, Return, LetsGo, Claimed, RowSteps, Statements
  <2> QED  BY <2>1
<1>7. CASE Crash \/ (\E x \in Ids \cup {NoId} : StrayNotify(x))
  BY <1>0, <1>7 DEF Crash, StrayNotify, Undisturbed
<1>8. LoopNext \/ UNCHANGED vars
  OBVIOUS
<1> QED
  BY <1>1, <1>2, <1>3, <1>4, <1>5, <1>6, <1>7, <1>8, Zenon
     DEF LoopNext, Broker, Unreliable, Loop

\* An intervention has logged nothing when its first row is read.
LEMMA FirstHasNoPrior ==
  ASSUME LoopTypeOK, InOrder, OnceInv, EventRows, BrokerOrder, pc = "read",
         NEW iv, iv # NoIntervention, cur \in outcome_rows(iv), cur \notin missed,
         ~is_revision(payload[cur])
  PROVE  prior_rows(iv) = {}
<1> SUFFICES ASSUME NEW e \in prior_rows(iv)  PROVE FALSE
  OBVIOUS
<1>1. e \in events /\ e.intervention_id = iv
  BY DEF prior_rows
<1>2. PICK id \in Ids : Wrote(id, e)
  BY <1>1 DEF EventRows
<1>3. RowTypes /\ pc \in Claimed /\ cur \in Ids /\ cur < next_id /\ id < next_id /\ taken(id)
  BY <1>2, RowTypesHold DEF RowTypes, Wrote, taken, Claimed, RowSteps, Statements
<1>4. id \in outcome_rows(iv)
  BY <1>1, <1>2, <1>3, OutcomeRow DEF Wrote, Logs
<1>5. id # cur
  BY <1>2 DEF Wrote, OnceInv, OwnerWrites
<1>6. id <= cur
  BY <1>3 DEF InOrder, LastInHand
<1>7. id < cur
  BY <1>3, <1>5, <1>6 DEF RowTypes
<1>8. is_revision(payload[cur])
  BY <1>3, <1>4, <1>7 DEF outcome_rows, BrokerOrder, is_revision
<1> QED  BY <1>8

\* The sums over an intervention's log.
LEMMA PriorSums ==
  ASSUME LoopTypeOK, LogOK, NEW iv
  PROVE  /\ IsFiniteSet(prior_rows(iv)) /\ prior_rows(iv) \subseteq Event
         /\ Keyed(prior_rows(iv)) /\ \A e \in prior_rows(iv) : delta(e) \in Int
         /\ \A n \in Attrs : /\ gather_prior_actuals(iv)[n] = net(prior_rows(iv), n)
                             /\ net(prior_rows(iv), n) \in Int
<1>1. prior_rows(iv) \subseteq events
  BY DEF prior_rows
<1>2. /\ IsFiniteSet(prior_rows(iv)) /\ prior_rows(iv) \subseteq Event
      /\ Keyed(prior_rows(iv)) /\ \A e \in prior_rows(iv) : delta(e) \in Int
  BY <1>1, FS_Subset, EventDelta DEF LogOK, Keyed, LoopTypeOK, StoreTypeOK
<1>3. ASSUME NEW n \in Attrs
      PROVE  /\ gather_prior_actuals(iv)[n] = net(prior_rows(iv), n)
             /\ net(prior_rows(iv), n) \in Int
  <2> DEFINE S == {e \in prior_rows(iv) : e.name = n /\ ~e.disabled}
  <2>1. {e \in lookup_prior_events_by_intervention(iv, n) : ~e.disabled} = S
    BY DEF lookup_prior_events_by_intervention, prior_rows
  <2>2. gather_prior_actuals(iv)[n] = sum_of(S)
    BY <2>1, PriorActual
  <2>3. net(prior_rows(iv), n) = sum_of(S)
    BY DEF net
  <2>4. IsFiniteSet(S) /\ \A e \in S : delta(e) \in Int
    BY <1>2, FS_Subset
  <2> HIDE DEF S
  <2> QED  BY <2>2, <2>3, <2>4, SumType
<1> QED  BY <1>2, <1>3


\* The rows of iv are as they were when those taken are.
LEMMA RowsStay ==
  ASSUME NEW iv, UNCHANGED events, \A id \in Ids : taken(id)' <=> taken(id),
         \A id \in Ids : taken(id) => payload'[id] = payload[id] /\ inbox'[id] = inbox[id]
                                      /\ (id \in missed => id \in missed')
  PROVE  SameRows(iv)
<1>1. UNCHANGED prior_rows(iv)
  BY DEF prior_rows
<1>2. \A id \in Ids : id \in outcome_rows(iv) => taken(id)
  BY DEF outcome_rows, taken
<1>3. ASSUME NEW id \in Ids  PROVE (id \in outcome_rows(iv))' <=> id \in outcome_rows(iv)
  BY DEF outcome_rows, taken, check_schema_major, parse_inbox_payload
<1>4. outcome_rows(iv) \subseteq Ids /\ outcome_rows(iv)' \subseteq Ids
  BY DEF outcome_rows
<1>5. UNCHANGED outcome_rows(iv)
  BY <1>3, <1>4
<1> QED  BY <1>1, <1>2, <1>4, <1>5 DEF SameRows

\* A dispatch of the row in hand: what it makes due settles the row.
LEMMA DispatchSettles ==
  ASSUME NEW iv, SameRows(iv), Steady(iv) => Settled(iv), InHand(iv), pc \notin Writing,
         Steady(iv)', UNCHANGED cur, NEW evs, pending' = evs,
         pc' = IF DOMAIN evs = {} THEN "delete" ELSE "insert",
         Steady(iv) /\ NoneLeft(prior_rows(iv)) =>
           \A n \in Attrs : Settling(prior_rows(iv), n, payload[cur], DOMAIN evs, evs)
  PROVE  Settled(iv)'
<1> DEFINE R == prior_rows(iv)
           p == payload[cur]
<1>1. Steady(iv) /\ InHand(iv)' /\ UNCHANGED <<prior_rows(iv), payload[cur]>>
  BY DEF SameRows, Steady, InHand, Claimed, RowSteps, Statements
<1>2. NoneLeft(R)
  BY <1>1 DEF Settled
<1>3. \A n \in Attrs : Settling(R, n, p, DOMAIN evs, evs)
  BY <1>1, <1>2
<1>4. CASE DOMAIN evs = {}
  <2>1. pc' = "delete"
    BY <1>4
  <2>2. Met(R, p)
    BY <1>3, <1>4, NothingDue
  <2> QED  BY <1>1, <1>2, <2>1, <2>2 DEF Settled, Writing
<1>5. CASE DOMAIN evs # {}
  <2>1. pc' = "insert" /\ to_insert' = DOMAIN evs
    BY <1>5 DEF to_insert
  <2> QED  BY <1>1, <1>3, <2>1 DEF Settled, Writing
<1> QED  BY <1>4, <1>5

\* An insert for the row in hand: the event ends the log of its intervention.
LEMMA InsertKeeps ==
  ASSUME LoopTypeOK, LogOK, SeqInv, InOrder, EventRows, BrokerOrder, Undisturbed,
         [LoopNext]_vars, InsertEvent, NEW iv, iv # NoIntervention, Steady(iv) => Settled(iv),
         Steady(iv)'
  PROVE  Settled(iv)'
<1>0. crashes = 0 /\ RowTypes /\ pc = "insert" /\ pc \in Claimed
  BY RowTypesHold DEF Undisturbed, InsertEvent, Claimed, RowSteps, Statements
<1>1. /\ UNCHANGED <<inbox, payload, missed, cur, pending>> /\ pc' \in {"upsert", "audit"}
  BY DEF InsertEvent, brokerVars, localVars
<1>2. PICK n \in DOMAIN pending :
        /\ first(n) /\ n \in Attrs /\ pending[n] \in Event /\ pending[n].name = n
        /\ pending[n] \notin events /\ events' = events \cup {pending[n]}
        /\ \A m \in DOMAIN pending' : first(m)' => m = n
  BY InsertFacts
<1> DEFINE ev == pending[n]
           R  == prior_rows(iv)
           p  == payload[cur]
<1>3. Logs(ev, p) /\ accepted(p) /\ cur \in Ids /\ taken(cur)
  BY <1>0 DEF EventRows, RowTypes, taken
<1>4. cur \in outcome_rows(iv) <=> ev.intervention_id = iv
  BY <1>3, OutcomeRow DEF Logs
<1>5. UNCHANGED outcome_rows(iv)
  BY <1>1 DEF outcome_rows, check_schema_major, parse_inbox_payload
<1>6. CASE InHand(iv)
  <2>1. ev.intervention_id = iv
    BY <1>4, <1>6 DEF InHand
  <2>2. prior_rows(iv)' = R \cup {ev} /\ R \subseteq events
    BY <1>2, <2>1 DEF prior_rows
  <2>3. ~Tied(R \cup {ev}) /\ ~Tied(R)
    <3>1. ~Tied(prior_rows(iv)')
      BY DEF Steady, Tied
    <3>2. ~Tied(R \cup {ev})
      BY <2>2, <3>1
    <3> QED  BY <3>2 DEF Tied
  <2>4. Steady(iv)
    BY <1>0, <1>1, <1>5, <2>3 DEF Steady
  <2>5. InHand(iv)' /\ cur \notin missed /\ p.enabled
    <3>1. pc' \in Claimed /\ cur \in outcome_rows(iv)
      BY <1>1, <1>6 DEF InHand, Claimed, RowSteps, Statements
    <3> QED  BY <1>1, <1>5, <2>4, <3>1 DEF InHand, Steady
  <2>6. \A m \in Attrs : Settling(R, m, p, DOMAIN pending, pending)
    <3>1. to_insert = DOMAIN pending /\ pc \in Writing
      BY <1>0 DEF to_insert, Writing
    <3> QED  BY <1>6, <2>4, <3>1 DEF Settled
  <2>7. to_insert' = DOMAIN pending \ {n}
    <3>1. \A m \in DOMAIN pending : first(m)' <=> m = n
      BY <1>1, <1>2 DEF first
    <3> QED  BY <1>1, <3>1 DEF to_insert
  <2>8. /\ IsFiniteSet(R) /\ \A e \in R : delta(e) \in Int
    BY PriorSums
  <2>9. ~ev.disabled /\ delta(ev) \in Int /\ ev \notin R
    BY <1>2, <1>3, <2>2, <2>5, EventDelta DEF Logs
  <2>10. \A m \in Attrs : Settling(R \cup {ev}, m, p, DOMAIN pending \ {n}, pending)
    <3> HIDE DEF R, p
    <3> QED  BY <1>2, <2>6, <2>8, <2>9, InsertSettles
  <2>11. latest(R \cup {ev}) = ev
    <3> DEFINE S == R \cup {ev}
    <3>1. ev \in S /\ S \subseteq events \cup {ev} /\ ~Tied(S)
      BY <2>2, <2>3
    <3>2. IsLast(ev, S)
      <4> HIDE DEF S
      <4> QED  BY <1>0, <1>2, <2>5, <3>1, InsertIsLast
    <3>3. LogOK'
      BY LogStep
    <3>4. IsFiniteSet(S) /\ S \subseteq Event /\ Keyed(S)
      <4>1. S \subseteq events' /\ events \subseteq Event
        BY <1>2, <3>1 DEF LoopTypeOK, StoreTypeOK
      <4>2. IsFiniteSet(events') /\ Keyed(events')
        BY <3>3 DEF LogOK, Keyed, event_id
      <4>3. S \subseteq Event
        BY <1>2, <3>1, <4>1
      <4> HIDE DEF S
      <4> QED  BY <4>1, <4>2, <4>3, FS_Subset DEF Keyed
    <3> HIDE DEF S
    <3>5. latest(S) = ev
      BY <3>2, <3>4, LastIsLatest
    <3> QED  BY <3>5 DEF S
  <2>12. latest(R \cup {ev}).reason = p.reason
    BY <1>3, <2>11 DEF Logs
  <2>13. payload'[cur'] = p /\ pending' = pending /\ pc' # "delete" /\ pc' \in Writing
    BY <1>1 DEF Writing
  <2> HIDE DEF R, p, ev
  <2> QED  BY <2>2, <2>5, <2>7, <2>10, <2>12, <2>13 DEF Settled
<1>7. CASE ~InHand(iv)
  <2>1. ev.intervention_id # iv /\ cur \notin outcome_rows(iv)
    BY <1>0, <1>4, <1>7 DEF InHand
  <2>2. UNCHANGED prior_rows(iv)
    BY <1>2, <2>1 DEF prior_rows
  <2>3. SameRows(iv) /\ ~InHand(iv)'
    BY <1>1, <1>5, <2>1, <2>2 DEF SameRows, InHand
  <2> QED  BY <1>7, <2>3, ApartStep
<1> QED  BY <1>6, <1>7

\* The end of a write: the next attribute, or the row is met.
LEMMA NotifyKeeps ==
  ASSUME LoopTypeOK, NotifyAudit, NEW iv, SameRows(iv), Steady(iv) => Settled(iv),
         InHand(iv), Steady(iv)'
  PROVE  Settled(iv)'
<1> DEFINE R == prior_rows(iv)
           p == payload[cur]
<1>1. PICK n \in DOMAIN pending : first(n) /\ pending' = Restrict(pending, DOMAIN pending \ {n})
  BY DEF NotifyAudit
<1>2. /\ UNCHANGED cur /\ pc = "audit_notify"
      /\ pc' = IF DOMAIN pending' = {} THEN "delete" ELSE "insert"
  BY DEF NotifyAudit
<1>3. Steady(iv) /\ InHand(iv)' /\ UNCHANGED <<prior_rows(iv), payload[cur]>>
  BY <1>2 DEF SameRows, Steady, InHand, Claimed, RowSteps, Statements
<1>4. DOMAIN pending' = DOMAIN pending \ {n} /\ \A m \in DOMAIN pending' : pending'[m] = pending[m]
  BY <1>1 DEF Restrict
<1>5. to_insert = DOMAIN pending'
  <2>1. \A m \in DOMAIN pending : first(m) <=> m = n
    BY <1>1, FirstIsUnique
  <2> QED  BY <1>2, <1>4, <2>1 DEF to_insert
<1>6. /\ \A m \in Attrs : Settling(R, m, p, DOMAIN pending', pending)
      /\ latest(R).reason = p.reason
  BY <1>2, <1>3, <1>5 DEF Settled, Writing
<1>7. CASE DOMAIN pending' = {}
  <2>1. Met(R, p) /\ NoneLeft(R)
    <3> HIDE DEF R, p
    <3>1. \A m \in Attrs : Settling(R, m, p, {}, pending)
      BY <1>6, <1>7
    <3> QED  BY <1>6, <3>1, NothingDue
  <2>2. pc' = "delete"
    BY <1>2, <1>7
  <2> QED  BY <1>3, <2>1, <2>2 DEF Settled, Writing
<1>8. CASE DOMAIN pending' # {}
  <2>1. pc' = "insert" /\ to_insert' = DOMAIN pending'
    BY <1>2, <1>8 DEF to_insert
  <2>2. \A m \in Attrs : Settling(R, m, p, DOMAIN pending', pending')
    <3> HIDE DEF R, p
    <3> QED  BY <1>4, <1>6 DEF Settling
  <2> QED  BY <1>3, <2>1, <2>2 DEF Settled, Writing
<1> QED  BY <1>7, <1>8

LEMMA RevisionStep ==
  ASSUME LoopTypeOK, LogOK, SeqInv, OnceInv, InOrder, EventRows, BrokerOrder,
         Undisturbed, Undisturbed', [LoopNext]_vars,
         NEW iv, iv # NoIntervention, Steady(iv) => Settled(iv), Steady(iv)'
  PROVE  Settled(iv)'
<1> USE DEF storeVars, brokerVars, queueVars, localVars, procVars, boundVars, histVars
<1>0. RowTypes
  BY RowTypesHold
<1>1. CASE Idle
  <2>1. SameRows(iv)
    BY <1>1, RowsStay DEF Idle
  <2>2. CASE InHand(iv)
    <3>1. UNCHANGED <<pc, cur, pending>>
      BY <1>1, <2>2 DEF Idle, InHand
    <3>2. pc' \in Claimed
      BY <2>2, <3>1 DEF InHand
    <3> QED  BY <2>1, <2>2, <3>1, <3>2, StayStep
  <2>3. CASE ~InHand(iv)
    <3>1. ~InHand(iv)'
      BY <1>1, <2>1, <2>3 DEF Idle, InHand, SameRows
    <3> QED  BY <2>1, <2>3, <3>1, ApartStep
  <2> QED  BY <2>2, <2>3
<1>2. CASE LetsGo
  <2>1. SameRows(iv) /\ ~InHand(iv)'
    <3>1. UNCHANGED <<events, inbox, payload, missed>> /\ pc' \notin Claimed
      BY <1>2 DEF LetsGo
    <3>2. SameRows(iv)
      BY <3>1, RowsStay DEF taken
    <3> QED  BY <3>1, <3>2 DEF InHand
  <2>2. ~InHand(iv)
    <3> SUFFICES ASSUME InHand(iv)  PROVE FALSE
      OBVIOUS
    <3>1. cur \in outcome_rows(iv)' /\ inbox'[cur] = "claimed" /\ pc' \notin Claimed
      BY <1>0, <1>2, <2>1 DEF LetsGo, InHand, SameRows, RowTypes
    <3> QED  BY <3>1 DEF Steady
  <2> QED  BY <2>1, <2>2, ApartStep
<1>3. CASE Claim
  <2>1. /\ UNCHANGED <<events, payload, missed, cur>> /\ pc = "claim" /\ cur \in Ids
        /\ inbox[cur] = "queued" /\ inbox' = [inbox EXCEPT ![cur] = "claimed"]
        /\ pc' = IF accepted(payload[cur]) THEN "read" ELSE "delete"
    BY <1>0, <1>3 DEF Claim, RowTypes, accepted
  <2>2. ~InHand(iv) /\ UNCHANGED prior_rows(iv)
    BY <2>1 DEF InHand, Claimed, RowSteps, Statements, prior_rows
  <2>3. \A r \in Ids : r # cur => inbox'[r] = inbox[r]
    BY <1>0, <2>1 DEF RowTypes
  <2>4. \A r \in Ids : r # cur => (r \in outcome_rows(iv)' <=> r \in outcome_rows(iv))
    BY <2>1, <2>3 DEF outcome_rows, check_schema_major, parse_inbox_payload
  <2>5. /\ outcome_rows(iv) \subseteq Ids /\ outcome_rows(iv)' \subseteq Ids
        /\ cur \notin outcome_rows(iv)
    BY <2>1 DEF outcome_rows
  <2>6. CASE cur \in outcome_rows(iv)'
    <3>1. accepted(payload[cur]) /\ pc' = "read" /\ InHand(iv)'
      <4>1. accepted(payload[cur])
        BY <2>1, <2>6 DEF outcome_rows, accepted, check_schema_major, parse_inbox_payload
      <4> QED  BY <2>1, <2>6, <4>1 DEF InHand, Claimed, RowSteps, Statements
    <3>2. Steady(iv)
      <4>1. \A r \in outcome_rows(iv) : r # cur /\ r \in outcome_rows(iv)' /\ inbox'[r] = inbox[r]
        BY <2>3, <2>4, <2>5
      <4> QED  BY <2>1, <2>2, <4>1 DEF Steady, Tied
    <3>3. NoneLeft(prior_rows(iv))
      BY <2>2, <3>2 DEF Settled
    <3>4. pc' \notin Writing /\ pc' # "delete"
      BY <3>1 DEF Writing
    <3> QED  BY <2>2, <3>1, <3>3, <3>4 DEF Settled
  <2>7. CASE cur \notin outcome_rows(iv)'
    <3>1. UNCHANGED outcome_rows(iv)
      BY <2>4, <2>5, <2>7
    <3>2. SameRows(iv) /\ ~InHand(iv)'
      BY <2>1, <2>2, <2>3, <2>5, <2>7, <3>1 DEF SameRows, InHand
    <3> QED  BY <2>2, <3>2, ApartStep
  <2> QED  BY <2>6, <2>7
<1>4. CASE ReadAndDispatch
  <2> DEFINE evs == dispatch(payload[cur], peek(counters, payload[cur].run_id), attributes)
  <2>1. /\ UNCHANGED <<events, inbox, payload, missed, cur>> /\ pc = "read"
        /\ ~is_revision(payload[cur]) /\ pending' = evs
        /\ pc' = IF DOMAIN evs = {} THEN "delete" ELSE "insert"
    BY <1>4 DEF ReadAndDispatch, Dispatch
  <2>2. SameRows(iv)
    BY <2>1, RowsStay DEF taken
  <2>3. CASE InHand(iv)
    <3>1. payload[cur].source = "outcome" /\ attributes \in [Attrs -> Value]
      BY <2>3 DEF InHand, outcome_rows, LoopTypeOK, StoreTypeOK
    <3>2. evs = dispatch_outcome(payload[cur], peek(counters, payload[cur].run_id), attributes)
      BY <3>1 DEF dispatch
    <3>3. \A n \in Attrs : Settling({}, n, payload[cur], DOMAIN evs, evs)
      <4> HIDE DEF evs
      <4> QED  BY <3>1, <3>2, FirstSettles
    <3>4. Steady(iv) => prior_rows(iv) = {}
      <4> SUFFICES ASSUME Steady(iv)  PROVE prior_rows(iv) = {}
        OBVIOUS
      <4>1. cur \in outcome_rows(iv) /\ cur \notin missed
        BY <2>3 DEF InHand, Steady
      <4> QED  BY <2>1, <4>1, FirstHasNoPrior
    <3>5. pc \notin Writing
      BY <2>1 DEF Writing
    <3> HIDE DEF evs
    <3> QED  BY <2>1, <2>2, <2>3, <3>3, <3>4, <3>5, DispatchSettles
  <2>4. CASE ~InHand(iv)
    <3>1. ~InHand(iv)'
      BY <2>1, <2>2, <2>4 DEF InHand, SameRows, Claimed, RowSteps, Statements
    <3> QED  BY <2>2, <2>4, <3>1, ApartStep
  <2> QED  BY <2>3, <2>4
<1>5. CASE build_revision_events
  <2> DEFINE q   == payload[cur].intervention_id
             evs == dispatch_revision(payload[cur], peek(counters, payload[cur].run_id),
                      projection, derive_prior_classification(q), gather_prior_actuals(q))
  <2>1. /\ UNCHANGED <<events, inbox, payload, missed, cur>> /\ pc = "prior"
        /\ prior_rows(q) # {} /\ pending' = evs
        /\ pc' = IF DOMAIN evs = {} THEN "delete" ELSE "insert"
    BY <1>5 DEF build_revision_events, Dispatch
  <2>2. SameRows(iv)
    BY <2>1, RowsStay DEF taken
  <2>3. CASE InHand(iv)
    <3>1. q = iv /\ projection \in [Attrs -> Value]
      BY <2>3 DEF InHand, outcome_rows, LoopTypeOK, ProcessTypeOK
    <3> HIDE DEF q
    <3>2. \A n \in Attrs : /\ gather_prior_actuals(iv)[n] = net(prior_rows(iv), n)
                           /\ net(prior_rows(iv), n) \in Int
      BY PriorSums
    <3>3. NoneLeft(prior_rows(iv)) =>
            \A n \in Attrs : Settling(prior_rows(iv), n, payload[cur], DOMAIN evs, evs)
      <4> SUFFICES ASSUME NoneLeft(prior_rows(iv))
                   PROVE  \A n \in Attrs : Settling(prior_rows(iv), n, payload[cur], DOMAIN evs, evs)
        OBVIOUS
      <4>1. evs = dispatch_revision(payload[cur], peek(counters, payload[cur].run_id),
                    projection, latest(prior_rows(iv)).reason, gather_prior_actuals(iv))
        BY <3>1 DEF derive_prior_classification
      <4>2. prior_rows(iv) # {}
        BY <2>1, <3>1
      <4> HIDE DEF evs
      <4> QED  BY <3>1, <3>2, <4>1, <4>2, RevisionSettles
    <3>4. pc \notin Writing
      BY <2>1 DEF Writing
    <3> HIDE DEF evs
    <3> QED  BY <2>1, <2>2, <2>3, <3>3, <3>4, DispatchSettles
  <2>4. CASE ~InHand(iv)
    <3>1. ~InHand(iv)'
      BY <2>1, <2>2, <2>4 DEF InHand, SameRows, Claimed, RowSteps, Statements
    <3> QED  BY <2>2, <2>4, <3>1, ApartStep
  <2> QED  BY <2>3, <2>4
<1>6. CASE InsertEvent
  BY <1>6, InsertKeeps
<1>7. CASE ReadForRevision \/ UpsertAttribute \/ EnqueueAudit
  <2>1. /\ UNCHANGED <<events, inbox, payload, missed, cur, pending>>
        /\ \/ pc = "read" /\ pc' = "prior"
           \/ pc = "upsert" /\ pc' = "audit"
           \/ pc = "audit" /\ pc' = "audit_notify"
    BY <1>7 DEF ReadForRevision, UpsertAttribute, EnqueueAudit
  <2>2. SameRows(iv)
    BY <2>1, RowsStay DEF taken
  <2>3. CASE InHand(iv)
    <3>1. UNCHANGED to_insert
      BY <2>1 DEF to_insert, first
    <3>2. /\ pc' \in Claimed /\ (pc' = "insert" <=> pc = "insert")
          /\ (pc' \in Writing <=> pc \in Writing) /\ (pc' = "delete" <=> pc = "delete")
      BY <2>1 DEF Claimed, RowSteps, Statements, Writing
    <3> QED  BY <2>1, <2>2, <2>3, <3>1, <3>2, StayStep
  <2>4. CASE ~InHand(iv)
    <3>1. ~InHand(iv)'
      BY <2>1, <2>2, <2>4 DEF InHand, SameRows, Claimed, RowSteps, Statements
    <3> QED  BY <2>2, <2>4, <3>1, ApartStep
  <2> QED  BY <2>3, <2>4
<1>8. CASE NotifyAudit
  <2>1. UNCHANGED <<events, inbox, payload, missed, cur>> /\ pc = "audit_notify"
    BY <1>8 DEF NotifyAudit
  <2>2. SameRows(iv)
    BY <2>1, RowsStay DEF taken
  <2>3. CASE InHand(iv)
    BY <1>8, <2>2, <2>3, NotifyKeeps
  <2>4. CASE ~InHand(iv)
    <3>1. ~InHand(iv)'
      BY <2>1, <2>2, <2>4 DEF InHand, SameRows, Claimed, RowSteps, Statements
    <3> QED  BY <2>2, <2>4, <3>1, ApartStep
  <2> QED  BY <2>3, <2>4
<1>9. CASE delete_outcome_row
  <2>1. /\ UNCHANGED <<events, payload, missed>> /\ pc = "delete" /\ pc' = "next"
        /\ inbox' = [inbox EXCEPT ![cur] = "deleted"]
    BY <1>9 DEF delete_outcome_row, Return
  <2>2. pc \in Claimed /\ cur \in Ids /\ inbox[cur] = "claimed" /\ ~InHand(iv)'
    BY <1>0, <2>1 DEF RowTypes, InHand, Claimed, RowSteps, Statements
  <2>3. inbox'[cur] = "deleted" /\ \A r \in Ids : r # cur => inbox'[r] = inbox[r]
    BY <1>0, <2>1, <2>2 DEF RowTypes
  <2>4. UNCHANGED <<prior_rows(iv), outcome_rows(iv)>> /\ outcome_rows(iv) \subseteq Ids
    <3>1. UNCHANGED prior_rows(iv)
      BY <2>1 DEF prior_rows
    <3>2. \A r \in Ids : inbox'[r] \in {"claimed", "deleted"} <=> inbox[r] \in {"claimed", "deleted"}
      BY <2>2, <2>3
    <3> QED  BY <2>1, <3>1, <3>2 DEF outcome_rows, check_schema_major, parse_inbox_payload
  <2>5. CASE InHand(iv)
    <3>1. Steady(iv) /\ cur \notin missed /\ cur \in outcome_rows(iv)
      BY <2>1, <2>2, <2>3, <2>4, <2>5 DEF Steady, InHand
    <3>2. Met(prior_rows(iv), payload[cur]) /\ NoneLeft(prior_rows(iv))
      BY <2>1, <2>5, <3>1 DEF Settled, Writing
    <3>3. ASSUME NEW id \in outcome_rows(iv), \A r \in outcome_rows(iv) : r <= id
          PROVE  id = cur
      <4>1. id \in Ids /\ taken(id)
        BY <2>4 DEF outcome_rows, taken
      <4>2. id <= cur
        BY <2>2, <3>1, <4>1 DEF InOrder, LastInHand
      <4>3. cur <= id
        BY <3>1, <3>3
      <4> QED  BY <1>0, <2>2, <4>1, <4>2, <4>3 DEF RowTypes
    <3>4. \A id \in outcome_rows(iv)' :
            (\A r \in outcome_rows(iv)' : r <= id) => Met(prior_rows(iv)', payload'[id])
      BY <2>1, <2>4, <3>2, <3>3
    <3> QED  BY <2>2, <2>4, <3>2, <3>4 DEF Settled
  <2>6. CASE ~InHand(iv)
    <3>1. SameRows(iv)
      BY <2>1, <2>2, <2>3, <2>4, <2>6 DEF SameRows, InHand
    <3> QED  BY <2>2, <2>6, <3>1, ApartStep
  <2> QED  BY <2>5, <2>6
<1> QED
  BY <1>1, <1>2, <1>3, <1>4, <1>5, <1>6, <1>7, <1>8, <1>9, RevisionSteps, Zenon

LEMMA RevisionInvariant ==
  ASSUME EveryRunIsTracked
  PROVE  LoopSpec => []RevisionInv
<1>1. LoopInit => RevisionInv
  <2> SUFFICES ASSUME LoopInit, NEW iv  PROVE Settled(iv)
    BY DEF RevisionInv
  <2>1. prior_rows(iv) = {} /\ outcome_rows(iv) = {} /\ pc = "down"
    BY DEF LoopInit, StoreInit, prior_rows, outcome_rows
  <2> QED  BY <2>1 DEF Settled, NoneLeft, InHand
<1>2. /\ LoopTypeOK /\ LogOK /\ SeqInv /\ OnceInv /\ OrderInv /\ EventRows /\ BrokerOrder
      /\ RevisionInv /\ [LoopNext]_vars
      => RevisionInv'
  <2> SUFFICES ASSUME LoopTypeOK, LogOK, SeqInv, OnceInv, OrderInv, EventRows, BrokerOrder,
                      RevisionInv, [LoopNext]_vars, Undisturbed',
                      NEW iv, iv # NoIntervention, Steady(iv)'
               PROVE  Settled(iv)'
    BY DEF RevisionInv
  <2>1. Undisturbed
    BY UndisturbedBefore
  <2>2. InOrder /\ (Steady(iv) => Settled(iv))
    BY <2>1 DEF OrderInv, RevisionInv
  <2> QED  BY <2>1, <2>2, RevisionStep
<1> QED
  BY <1>1, <1>2, LoopTypeCorrect, LogInvariant, SeqInvariant, OnceInvariant, OrderInvariant,
     EventRowsInvariant, BrokerOrderInvariant, PTL DEF LoopSpec

(***************************************************************************)
(* RevisionSupersedes: in a process that has not crashed, with no more     *)
(* runs than COUNTER_LRU_CAP and no stray notification, what an            *)
(* intervention has logged adds up to what its last classification alone   *)
(* would have caused. Every dispatch aims at its own row from what the     *)
(* earlier ones actually left, and the attributes it leaves out (those of  *)
(* neither its own row nor that of the last logged event) are back at zero *)
(* already, because the row before it was met in full.                     *)
(***************************************************************************)
THEOREM LastClassificationCounts ==
  ASSUME EveryRunIsTracked
  PROVE  LoopSpec => []RevisionSupersedes
<1>1. LoopTypeOK /\ LogOK /\ BrokerOrder /\ RevisionInv => RevisionSupersedes
  <2> SUFFICES ASSUME LoopTypeOK, LogOK, BrokerOrder, RevisionInv, Undisturbed,
                      NEW id \in Ids, NEW iv, iv = payload[id].intervention_id,
                      id \in outcome_rows(iv), ~Tied(prior_rows(iv)),
                      \A other \in outcome_rows(iv) :
                        /\ other <= id /\ payload[other].enabled
                        /\ other \notin missed /\ inbox[other] = "deleted"
               PROVE  Superseded(id)
    BY DEF RevisionSupersedes
  <2>1. iv # NoIntervention
    <3>1. RowTypes /\ taken(id) /\ payload[id].source = "outcome"
      BY RowTypesHold DEF outcome_rows, taken
    <3>2. id < next_id
      BY <3>1 DEF RowTypes, taken
    <3> QED  BY <3>1, <3>2 DEF BrokerOrder
  <2>2. Steady(iv) /\ ~InHand(iv)
    <3>1. RowTypes
      BY RowTypesHold
    <3> QED  BY <3>1 DEF Steady, InHand, RowTypes
  <2>3. Met(prior_rows(iv), payload[id])
    BY <2>1, <2>2 DEF RevisionInv, Settled
  <2>4. ASSUME NEW n \in Attrs
        PROVE  \/ gather_prior_actuals(iv)[n]
                    = weight_delta(outcome_base_deltas(payload[id].reason)[n], payload[id].confidence)
               \/ \E e \in lookup_prior_events_by_intervention(iv, n) : e.caps_applied # {}
    <3>1. Reached(prior_rows(iv), n, aim(payload[id], n))
      BY <2>3 DEF Met
    <3>2. gather_prior_actuals(iv)[n] = net(prior_rows(iv), n)
      BY PriorSums
    <3>3. capped(prior_rows(iv), n) =>
            \E e \in lookup_prior_events_by_intervention(iv, n) : e.caps_applied # {}
      BY DEF capped, prior_rows, lookup_prior_events_by_intervention
    <3> QED  BY <3>1, <3>2, <3>3 DEF Reached, aim
  <2> QED  BY <2>4 DEF Superseded
<1> QED
  BY <1>1, LoopTypeCorrect, LogInvariant, BrokerOrderInvariant, RevisionInvariant, PTL
=============================================================================
