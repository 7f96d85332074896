------------------------------- MODULE MC_Cache -------------------------------
(* Model-checking instance of Cache: newShards(4, 2), so every shard has  *)
(* maxSize 2; one cache ID (the first NewID returns 2), two files of two  *)
(* blocks.  MCShardOf is what getShard returns for these keys with two    *)
(* shards (checked in MC_ShardHash): each file has a block in each shard. *)
EXTENDS Cache, MC_CacheRoute, TLC

MCFiles == {<<2, 1>>, <<2, 2>>}

MCOffsets == {0, 1}

MCMaxSize == 4 \div 2

MCShardOf == [k \in MCFiles \X MCOffsets |-> CacheRoute[<<k[1][1], k[1][2], k[2]>>]]

\* lastCall is read only primed, by the refinement property.
MCView == <<shards, cacheRefs, idAlloc, closures, refs, vsize, owned, held>>

MCSymmetry == Permutations(Values)

====
