----------------------------- MODULE BackendMap -----------------------------
(***************************************************************************)
(* The weighted backend map of a farm (run_farm_rules_gen_bck_map with     *)
(* key BCK_MAP_WEIGHT in src/src/nft.c): the scheduler draws a number      *)
(* modulo the farm's total weight and the map sends it to a backend.  The  *)
(* backend list is edited by the configuration (weights are validated in   *)
(* src/src/config.c); the map is regenerated from the available backends.  *)
(***************************************************************************)
EXTENDS Naturals, Sequences, SequencesExt

CONSTANTS
  MaxBackends,  \* bound on the length of the backend list
  MaxWeight     \* bound on a backend weight

VARIABLE bcks   \* f->backends, in list order: [weight, available]

Backend == [weight : 1..MaxWeight, available : BOOLEAN]

\* The backends run_farm_rules_gen_bck_map keeps with NFTLB_CHECK_AVAIL.
Available == SelectSeq(bcks, LAMBDA b : b.available)

\* f->total_weight: the weights of the available backends.
TotalWeight == FoldLeft(LAMBDA acc, b : acc + b.weight, 0, Available)

\* Mutant: the next range starts at the last key of the previous one.
RECURSIVE GenRangesOverlap(_, _)
GenRangesOverlap(bs, last) ==
  IF bs = <<>> THEN <<>>
  ELSE LET new == last + Head(bs).weight - 1
       IN  <<[lo |-> last, hi |-> new]>> \o GenRangesOverlap(Tail(bs), new)

\* The BCK_MAP_WEIGHT key of each backend: "last" or "last-new", with
\* new = last + weight - 1, then last = new + 1.
RECURSIVE GenRanges(_, _)
GenRanges(bs, last) ==
  IF bs = <<>> THEN <<>>
  ELSE LET new == last + Head(bs).weight - 1
       IN  <<[lo |-> last, hi |-> new]>> \o GenRanges(Tail(bs), new + 1)

WeightMap == GenRanges(Available, 0)

Init == bcks = <<>>

\* A backend is added to the farm (its weight validated by config).
AddBackend(b) ==
  /\ Len(bcks) < MaxBackends
  /\ bcks' = Append(bcks, b)

\* Mutant: a weight below 1 is accepted.
SetWeightUnchecked(i, w) == bcks' = [bcks EXCEPT ![i].weight = w]

\* KEY_WEIGHT: atoi(value), accepted only when >= 1.
SetWeight(i, w) ==
  /\ w >= 1
  /\ bcks' = [bcks EXCEPT ![i].weight = w]

\* A backend becomes available or unavailable (state, health).
SetAvailable(i, v) == bcks' = [bcks EXCEPT ![i].available = v]

DelBackend(i) == bcks' = RemoveAt(bcks, i)

Next ==
  \/ \E b \in Backend : AddBackend(b)
  \/ \E i \in 1..Len(bcks) :
       \/ \E w \in 0..MaxWeight : SetWeight(i, w)
       \/ \E v \in BOOLEAN : SetAvailable(i, v)
       \/ DelBackend(i)

Spec == Init /\ [][Next]_bcks

TypeOK == bcks \in Seq(Backend) /\ Len(bcks) <= MaxBackends

\* The reference partition: the i-th available backend owns the keys from
\* the weights of the backends before it, for its own weight.
Owned(i) ==
  LET before == FoldLeft(LAMBDA acc, b : acc + b.weight, 0, SubSeq(Available, 1, i - 1))
  IN  before .. (before + Available[i].weight - 1)

\* The generated map partitions 0 .. total_weight - 1 as the reference does:
\* each available backend gets exactly as many keys as its weight, in list
\* order, every key numgen can draw is mapped, and no key is mapped twice.
MapPartitionsWeight ==
  /\ Len(WeightMap) = Len(Available)
  /\ \A i \in 1..Len(WeightMap) : WeightMap[i].lo .. WeightMap[i].hi = Owned(i)
                                  /\ WeightMap[i].lo <= WeightMap[i].hi
  /\ \A k \in 0..(TotalWeight - 1) :
       \E i \in 1..Len(WeightMap) :
         /\ k \in WeightMap[i].lo .. WeightMap[i].hi
         /\ \A j \in 1..Len(WeightMap) \ {i} : k \notin WeightMap[j].lo .. WeightMap[j].hi
=============================================================================
