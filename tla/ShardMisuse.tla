----------------------------- MODULE ShardMisuse -----------------------------
(***************************************************************************)
(* Callers that break the Value contract, limited only by the checks the  *)
(* code makes: shard.Set panics unless value.refs() == 1 (line 137), Free *)
(* panics if v.refs() > 1 (line 878).  The spec (sections 4.3 and 6)     *)
(* reads these checks as detecting "a Value already owned elsewhere" and  *)
(* "freeing a Value still referenced".  Here a caller may pass them any   *)
(* Value that satisfies the check, owned or not.                          *)
(***************************************************************************)
EXTENDS Shard

\* shard.Set(k, v) of a Value the caller does not own, as long as the
\* refs == 1 check passes.
SetUnowned(k, v) ==
  /\ v \notin owned
  /\ refs[v] = 1
  /\ held[v] < MaxHandles
  /\ Commit(SetLocked(Begin(shard), k, v, vsize[v]), v)
  /\ held' = [held EXCEPT ![v] = @ + 1]
  /\ lastCall' = Call("Set", k, v)
  /\ UNCHANGED <<vsize, owned, reservations, freed>>

\* cache.Free(v) of a Value the caller does not own, as long as the
\* refs > 1 check passes (a Value still in the allocator is not a Value).
FreeUnowned(v) ==
  /\ v \notin owned
  /\ refs[v] = 1
  /\ refs' = [refs EXCEPT ![v] = 0]
  /\ lockReleased' = {}
  /\ UNCHANGED <<shard, vsize, owned, held, reservations, freed, lastCall>>

SetMisuseSpec == Init /\ [][Next \/ \E k \in Keys, v \in Values : SetUnowned(k, v)]_vars

FreeMisuseSpec == Init /\ [][Next \/ \E v \in Values : FreeUnowned(v)]_vars

====
