----------------------------- MODULE BlockCache -----------------------------
(***************************************************************************)
(* What a cache shard promises its callers, whatever its replacement      *)
(* policy: a partial map from block keys to Values in which               *)
(*   - Get returns the Value the map holds for the key;                   *)
(*   - Set(k, v) maps k to v or declines to cache it, and may drop other  *)
(*     keys (eviction) but never changes what another key maps to;        *)
(*   - Delete(k) removes k and nothing else;                              *)
(*   - EvictFile(f) removes exactly the keys of file f;                   *)
(*   - Reserve may drop any keys;                                         *)
(*   - Close (the teardown when the last reference goes) empties it.      *)
(* `call` is the last call made and its result.                            *)
(***************************************************************************)
CONSTANTS Files, Offsets, Values, NULL,
          Amounts   \* the amounts Reserve is called with (negative: give back)

VARIABLES cache, call

Keys == Files \X Offsets
FileOf(k) == k[1]

Call(op, arg, v) == [op |-> op, arg |-> arg, val |-> v]

\* Every key other than those of `keep` keeps its Value or loses it.
OthersShrink(keep) == \A j \in Keys \ keep : cache'[j] \in {cache[j], NULL}

Init ==
  /\ cache = [k \in Keys |-> NULL]
  /\ call = Call("none", NULL, NULL)

Get(k) ==
  /\ cache[k] # NULL
  /\ call' = Call("Get", k, cache[k])
  /\ UNCHANGED cache

Set(k, v) ==
  /\ cache'[k] \in {v, NULL}
  /\ OthersShrink({k})
  /\ call' = Call("Set", k, v)

Delete(k) ==
  /\ cache' = [cache EXCEPT ![k] = NULL]
  /\ call' = Call("Delete", k, NULL)

EvictFile(f) ==
  /\ cache' = [k \in Keys |-> IF FileOf(k) = f THEN NULL ELSE cache[k]]
  /\ call' = Call("EvictFile", f, NULL)

Reserve(n) ==
  /\ OthersShrink({})
  /\ call' = Call("Reserve", n, NULL)

Close ==
  /\ cache' = [k \in Keys |-> NULL]
  /\ call' = Call("Close", NULL, NULL)

Next ==
  \/ Close
  \/ \E k \in Keys : Get(k) \/ Delete(k)
  \/ \E k \in Keys, v \in Values : Set(k, v)
  \/ \E f \in Files : EvictFile(f)
  \/ \E n \in Amounts : Reserve(n)

Spec == Init /\ [][Next]_<<cache, call>>

=============================================================================
