------------------------------ MODULE Counters ------------------------------
(***************************************************************************)
(* Per-run sequence counters: store.rs Counter and the bounded             *)
(* least-recently-used map of them that the run loop keeps                 *)
(* (run_loop.rs LruCounterMap).                                            *)
(*                                                                         *)
(* A Counter is the number of seqs it has handed out. The map is a record  *)
(* of the recency queue (oldest first) and the counters it holds.          *)
(***************************************************************************)
EXTENDS SequencesExt

CONSTANT COUNTER_LRU_CAP      \* 64 in the code

ASSUME LruCapAssumption == COUNTER_LRU_CAP \in Nat \ {0}

CountersTypeOK(c) ==
  /\ c.order \in Seq(Nat)
  /\ Len(c.order) <= COUNTER_LRU_CAP
  /\ c.map \in [Range(c.order) -> Nat]

EmptyCounters == [order |-> <<>>, map |-> [r \in {} |-> 0]]

\* Mutant: evicts one run too early.
touch_off_by_one(c, run) ==
  IF run \in Range(c.order)
  THEN Append(SelectSeq(c.order, LAMBDA r : r # run), run)
  ELSE Append(IF Len(c.order) + 1 >= COUNTER_LRU_CAP THEN Tail(c.order) ELSE c.order, run)

\* The order after get_or_create(run): a known run moves to the back, a new
\* one is pushed there, after the oldest was popped when the map is full.
touch(c, run) ==
  IF run \in Range(c.order)
  THEN LET pos == CHOOSE i \in DOMAIN c.order : c.order[i] = run
       IN Append(RemoveAt(c.order, pos), run)
  ELSE Append(IF Len(c.order) >= COUNTER_LRU_CAP THEN Tail(c.order) ELSE c.order, run)

\* The value of the counter that get_or_create(run) returns.
peek(c, run) == IF run \in DOMAIN c.map THEN c.map[run] ELSE 0

\* Mutant: next() advances a copy of the counter.
get_or_create_copy(c, run, n) ==
  LET order == touch(c, run)
  IN [order |-> order, map |-> [r \in Range(order) |-> peek(c, r)]]

\* get_or_create(run), then next() called n times on the counter it returns.
get_or_create(c, run, n) ==
  LET order == touch(c, run)
  IN [order |-> order,
      map   |-> [r \in Range(order) |-> peek(c, r) + (IF r = run THEN n ELSE 0)]]
=============================================================================
