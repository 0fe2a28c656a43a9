------------------------------- MODULE Shards -------------------------------
(***************************************************************************)
(* Key ranges of kvstore/common/shard.{hpp,cpp}.  A key is the sequence of *)
(* the indices of its characters in VALID_CHARS, so that strings compare   *)
(* as sequences do, and a shard is the inclusive range between two keys of *)
(* equal length, its granularity.                                          *)
(*                                                                         *)
(* The state is a vector of shards as a shard controller keeps it: made by *)
(* split_into and then divided further by split_shard.                     *)
(***************************************************************************)
EXTENDS Integers, Sequences, FiniteSets

CONSTANTS Base,             \* VALID_CHARS.size()
          MaxGranularity,   \* MAX_GRANULARITY
          MaxShards         \* bound: shards made by split_into

\* The powers of Base, by multiplication.
GRANULARITY_OPTS[i \in 0 .. MaxGranularity] == IF i = 0 THEN 1 ELSE GRANULARITY_OPTS[i - 1] * Base

ASSUME ShardAssumption ==
  /\ Base \in Nat \ {0, 1} /\ MaxGranularity \in Nat \ {0}
  /\ MaxShards \in 1 .. GRANULARITY_OPTS[MaxGranularity]

Digits == 0 .. Base - 1
KeysOf(g) == [1 .. g -> Digits]

VARIABLES shards, made   \* made: the argument of split_into

shardVars == <<shards, made>>

-----------------------------------------------------------------------------
(* Strings and buckets *)

\* std::string's operator<
Less(s, t) ==
  \/ Len(s) < Len(t) /\ SubSeq(t, 1, Len(s)) = s
  \/ \E i \in 1 .. Len(s) :
       i <= Len(t) /\ s[i] < t[i] /\ SubSeq(s, 1, i - 1) = SubSeq(t, 1, i - 1)
LessEq(s, t) == s = t \/ Less(s, t)

bucket_to_str(b, g) ==
  [i \in 1 .. g |-> (IF i = 1 THEN b ELSE b % GRANULARITY_OPTS[g - i + 1]) \div GRANULARITY_OPTS[g - i]]

\* bucket after i turns of the loop of str_to_bucket.
BucketOf(s) ==
  LET bucket[i \in 0 .. Len(s)] == IF i = 0 THEN 0 ELSE bucket[i - 1] + s[i] * GRANULARITY_OPTS[Len(s) - i]
  IN  bucket

str_to_bucket(s) == BucketOf(s)[Len(s)]

granularity(shard) == Len(shard.lower)

\* Shard::contains compares the first characters of the key.
contains(shard, s) ==
  LET prefix == SubSeq(s, 1, IF Len(s) < granularity(shard) THEN Len(s) ELSE granularity(shard)) IN
  LessEq(shard.lower, prefix) /\ LessEq(prefix, shard.upper)

-----------------------------------------------------------------------------
(* Splitting *)

\* split_into: the coarsest keys that are enough; the first (buckets % n) shards get
\* one bucket more.
GranularityFor(n) ==
  CHOOSE i \in 1 .. MaxGranularity :
    n <= GRANULARITY_OPTS[i] /\ \A j \in 1 .. i - 1 : n > GRANULARITY_OPTS[j]

SizeOf(n, g, i) == GRANULARITY_OPTS[g] \div n + IF i <= GRANULARITY_OPTS[g] % n THEN 1 ELSE 0

LowerOf(n, g) ==
  LET lower[i \in 1 .. n] == IF i = 1 THEN 0 ELSE lower[i - 1] + SizeOf(n, g, i - 1) IN lower

split_into(n) ==
  LET g == GranularityFor(n)
      lower == LowerOf(n, g)
  IN  [i \in 1 .. n |-> [lower |-> bucket_to_str(lower[i], g),
                         upper |-> bucket_to_str(lower[i] + SizeOf(n, g, i) - 1, g)]]

\* The two parts of a shard, the first of which ends with bucket last.
Parts(shard, last, next) ==
  << [lower |-> shard.lower, upper |-> bucket_to_str(last, granularity(shard))],
     [lower |-> bucket_to_str(next, granularity(shard)), upper |-> shard.upper] >>

\* Mutant of split_shard: both parts have the bucket in the middle.
split_shard_shared(shard) ==
  LET lower == str_to_bucket(shard.lower)
      midpoint == lower + (str_to_bucket(shard.upper) - lower) \div 2
  IN  Parts(shard, midpoint, midpoint)

\* split_shard(shard): at the midpoint.
split_shard(shard) ==
  LET lower == str_to_bucket(shard.lower)
      midpoint == lower + (str_to_bucket(shard.upper) - lower) \div 2
  IN  Parts(shard, midpoint, midpoint + 1)

\* split_shard(shard, at, first): the key at goes to the first part or not.
split_shard_at(shard, at, first) ==
  LET pos == str_to_bucket(at) IN
  IF first THEN Parts(shard, pos, pos + 1) ELSE Parts(shard, pos - 1, pos)

\* Mutant of get_overlap: equal upper ends do not count as contained.
get_overlap_strict(a, b) ==
  IF Less(a.upper, b.lower) \/ Less(b.upper, a.lower)            THEN "NO_OVERLAP"
  ELSE IF LessEq(b.lower, a.lower) /\ Less(a.upper, b.upper)     THEN "COMPLETELY_CONTAINED"
  ELSE IF Less(a.lower, b.lower) /\ Less(b.upper, a.upper)       THEN "COMPLETELY_CONTAINS"
  ELSE IF LessEq(b.lower, a.lower) /\ LessEq(b.upper, a.upper)   THEN "OVERLAP_START"
  ELSE "OVERLAP_END"

\* get_overlap: the tests in their order; the last case throws.
get_overlap(a, b) ==
  IF Less(a.upper, b.lower) \/ Less(b.upper, a.lower)            THEN "NO_OVERLAP"
  ELSE IF LessEq(b.lower, a.lower) /\ LessEq(a.upper, b.upper)   THEN "COMPLETELY_CONTAINED"
  ELSE IF Less(a.lower, b.lower) /\ Less(b.upper, a.upper)       THEN "COMPLETELY_CONTAINS"
  ELSE IF LessEq(b.lower, a.lower) /\ Less(b.upper, a.upper)     THEN "OVERLAP_START"
  ELSE IF Less(a.lower, b.lower) /\ LessEq(a.upper, b.upper)     THEN "OVERLAP_END"
  ELSE "throw"

-----------------------------------------------------------------------------
(* A vector of shards *)

ShardInit == made \in 1 .. MaxShards /\ shards = split_into(made)

Replace(i, parts) ==
  /\ shards' = SubSeq(shards, 1, i - 1) \o parts \o SubSeq(shards, i + 1, Len(shards))
  /\ UNCHANGED made

Halve(i) ==
  /\ shards[i].lower # shards[i].upper
  /\ Replace(i, split_shard(shards[i]))

\* The callers split inside the shard: neither part may be empty.
Cut(i, at, first) ==
  /\ shards[i].lower # shards[i].upper
  /\ LessEq(shards[i].lower, at) /\ LessEq(at, shards[i].upper)
  /\ at # IF first THEN shards[i].upper ELSE shards[i].lower
  /\ Replace(i, split_shard_at(shards[i], at, first))

Finest == (\A i \in DOMAIN shards : shards[i].lower = shards[i].upper) /\ UNCHANGED shardVars

ShardNext ==
  \/ \E i \in DOMAIN shards :
       \/ Halve(i)
       \/ \E at \in KeysOf(granularity(shards[i])), first \in BOOLEAN : Cut(i, at, first)
  \/ Finest

ShardSpec == ShardInit /\ [][ShardNext]_shardVars

-----------------------------------------------------------------------------
(* Properties *)

Gran == granularity(shards[1])
Buckets(shard) == {str_to_bucket(k) : k \in {x \in KeysOf(Gran) : contains(shard, x)}}

\* However often shards are split, every key of the granularity, and every longer
\* key through its first characters, is in exactly one shard, and the vector stays
\* sorted as sort_shards would leave it.
ShardsPartitionTheKeys ==
  shards # <<>> =>
  /\ \A k \in UNION {KeysOf(g) : g \in Gran .. MaxGranularity} :
       Cardinality({i \in DOMAIN shards : contains(shards[i], k)}) = 1
  /\ \A i \in 1 .. Len(shards) - 1 : Less(shards[i].lower, shards[i + 1].lower)

\* get_overlap, which compares strings, says how the two sets of buckets lie to
\* each other, for every shard against every range, and never reaches its throw.
OverlapIsExact ==
  \A i \in DOMAIN shards : LET A == Buckets(shards[i]) IN
   \A lower, upper \in KeysOf(Gran) :
    LessEq(lower, upper) =>
      LET b == [lower |-> lower, upper |-> upper]
          B == str_to_bucket(lower) .. str_to_bucket(upper)
          first == str_to_bucket(shards[i].lower) \in B
          last == str_to_bucket(shards[i].upper) \in B
      IN  get_overlap(shards[i], b) =
            IF A \cap B = {}       THEN "NO_OVERLAP"
            ELSE IF A \subseteq B  THEN "COMPLETELY_CONTAINED"
            ELSE IF first          THEN "OVERLAP_START"
            ELSE IF last           THEN "OVERLAP_END"
            ELSE "COMPLETELY_CONTAINS"

=============================================================================
