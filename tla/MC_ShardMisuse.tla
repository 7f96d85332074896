---------------------------- MODULE MC_ShardMisuse ----------------------------
(* Model-checking instance of ShardMisuse, with the bounds of MC_Shard.   *)
EXTENDS ShardMisuse, TLC

MCOffsets == {0, 1}

\* As in MC_Shard: lastCall and lockReleased are read only primed.
MCView == <<shard, refs, vsize, owned, held, reservations, freed>>

MCSymmetry == Permutations(Values) \cup Permutations(Files)

====
