---------------------------- MODULE MC_CacheRoute ----------------------------
(* The shard getShard picks, with two shards, for the keys <<id, fileNum,  *)
(* offset>> of MC_Cache.  MC_ShardHash checks these values against the    *)
(* hash.                                                                   *)
EXTENDS TLC

CacheRoute ==
  (<<2, 1, 0>> :> 0) @@ (<<2, 1, 1>> :> 1) @@ (<<2, 2, 0>> :> 1) @@ (<<2, 2, 1>> :> 0)

====
