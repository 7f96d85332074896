---------------------------- MODULE MC_ShardHash ----------------------------
(***************************************************************************)
(* getShard on keys chosen to use every byte of the uint64 fields: IDs as *)
(* NewID hands them out (from 2) and one that fills four bytes, file      *)
(* numbers and offsets of one to four bytes, and shard counts as New      *)
(* chooses them (4 per processor, or 4); and on the keys of MC_Cache with *)
(* its two shards.                                                          *)
(***************************************************************************)
EXTENDS ShardHash, MC_CacheRoute

MaxInt == 2147483647

MCCalls ==
  [id : {2, 3, 258, MaxInt}, fileNum : {0, 1, 65793, MaxInt},
   offset : {0, 4096, 16777217, MaxInt}, shards : {4, 12, 16}]
  \cup {[id |-> r[1], fileNum |-> r[2], offset |-> r[3], shards |-> 2] : r \in DOMAIN CacheRoute}

====
