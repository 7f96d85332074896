------------------------------- MODULE Cache -------------------------------
(***************************************************************************)
(* The Cache of internal/cache/clockpro.go: len(c.shards) CLOCK-Pro       *)
(* shards, each key routed to one of them by getShard; the cache's own    *)
(* reference count (Ref, Unref, and the teardown by shard.Free when it    *)
(* reaches zero); NewID; Reserve spread over all shards and its one-shot  *)
(* release closure; and the Values and Handles the calls pass around.     *)
(* Each call is one step.  The interleavings inside a shard are those of  *)
(* module ShardConcurrent; shards share no state, so calls on different   *)
(* shards commute.                                                         *)
(*                                                                         *)
(*   shards    - c.shards, each a shard record of module ClockPro         *)
(*   cacheRefs - c.refs                                                    *)
(*   idAlloc   - c.idAlloc                                                 *)
(*   closures  - for each Reserve amount, the shardN its release closure  *)
(*               captured (-1 once called), or None before Reserve        *)
(*   refs, vsize, owned, held - the Values, as in module Shard            *)
(*   lastCall  - the last call and its result (auxiliary)                 *)
(***************************************************************************)
EXTENDS ClockPro

CONSTANTS
  NumShards,      \* len(c.shards)
  ShardOf,        \* getShard's index for every key (module ShardHash)
  MaxID,          \* bound on the IDs NewID hands out
  MaxCacheRefs,   \* bound on c.refs
  BufSizes,       \* sizes given to Alloc
  ReserveAmounts, \* amounts given to Cache.Reserve
  MaxHandles      \* bound on live Handles per Value

Shards == 0 .. NumShards - 1

ASSUME ShardOf \in [Keys -> Shards]

None == -2

VARIABLES shards, cacheRefs, idAlloc, closures, refs, vsize, owned, held, lastCall

cvars == <<shards, cacheRefs, idAlloc, closures, refs, vsize, owned, held, lastCall>>

Call(op, arg, v) == [op |-> op, arg |-> arg, val |-> v]

\* newShards(size, NumShards): every shard gets size / len(shards) as its
\* maxSize and coldTarget (MaxSize, module ClockPro); refs and idAlloc 1.
Init ==
  /\ shards = [i \in Shards |-> InitShard]
  /\ cacheRefs = 1
  /\ idAlloc = 1
  /\ closures = [n \in ReserveAmounts |-> None]
  /\ refs = [v \in Values |-> 0]
  /\ vsize = [v \in Values |-> 0]
  /\ owned = {}
  /\ held = [v \in Values |-> 0]
  /\ lastCall = Call("none", NULL, NULL)

\* The end of a call whose critical sections left shard i as F[i] for every
\* i: the Values dropped under the locks and those released after
\* unlocking lose one reference per shard that let them go; `acq` gains the
\* reference its new entry took.
Apply(F, acq) ==
  /\ shards' = [i \in Shards |-> Begin(F[i])]
  /\ refs' = [u \in Values |-> refs[u] + (IF u = acq THEN 1 ELSE 0)
                                - Cardinality({i \in Shards : u \in F[i].dropped})
                                - Cardinality({i \in Shards : u \in F[i].obsolete})]

\* Only shard i runs a critical section, which leaves it as S.
ApplyOne(i, S, acq) == Apply([shards EXCEPT ![i] = S], acq)

\* A caller of the cache holds a reference to it and an ID from NewID;
\* Files are fileKeys <<id, fileNum>>.
Usable(f) == cacheRefs > 0 /\ f[1] \in 2 .. idAlloc

(***************************************************************************)
(* Values and Handles (Alloc, Free and Handle.Release need no cache).     *)
(***************************************************************************)
Alloc(v, n) ==
  /\ refs[v] = 0
  /\ refs' = [refs EXCEPT ![v] = 1]
  /\ vsize' = [vsize EXCEPT ![v] = n]
  /\ owned' = owned \cup {v}
  /\ UNCHANGED <<shards, cacheRefs, idAlloc, closures, held, lastCall>>

Free(v) ==
  /\ v \in owned
  /\ refs[v] <= 1
  /\ refs' = [refs EXCEPT ![v] = @ - 1]
  /\ owned' = owned \ {v}
  /\ UNCHANGED <<shards, cacheRefs, idAlloc, closures, vsize, held, lastCall>>

Release(v) ==
  /\ held[v] > 0
  /\ held' = [held EXCEPT ![v] = @ - 1]
  /\ refs' = [refs EXCEPT ![v] = @ - 1]
  /\ UNCHANGED <<shards, cacheRefs, idAlloc, closures, vsize, owned, lastCall>>

(***************************************************************************)
(* Cache.Get, Set, Delete: c.getShard(id, fileNum, offset) and the call   *)
(* on that shard, as in module Shard.                                      *)
(***************************************************************************)
Get(k) ==
  LET i == ShardOf[k] IN
  /\ Usable(FileOf(k))
  /\ Hit(shards[i], k)
  /\ held[shards[i].val[k]] < MaxHandles
  /\ shards' = [shards EXCEPT ![i] = GetLocked(shards[i], k)]
  /\ refs' = [refs EXCEPT ![shards[i].val[k]] = @ + 1]
  /\ held' = [held EXCEPT ![shards[i].val[k]] = @ + 1]
  /\ lastCall' = Call("Get", k, shards[i].val[k])
  /\ UNCHANGED <<cacheRefs, idAlloc, closures, vsize, owned>>

Set(k, v) ==
  /\ Usable(FileOf(k))
  /\ v \in owned
  /\ refs[v] = 1
  /\ held[v] < MaxHandles
  /\ ApplyOne(ShardOf[k], SetLocked(Begin(shards[ShardOf[k]]), k, v, vsize[v]), v)
  /\ owned' = owned \ {v}
  /\ held' = [held EXCEPT ![v] = @ + 1]
  /\ lastCall' = Call("Set", k, v)
  /\ UNCHANGED <<cacheRefs, idAlloc, closures, vsize>>

Delete(k) ==
  /\ Usable(FileOf(k))
  /\ k \in shards[ShardOf[k]].blocks
  /\ ApplyOne(ShardOf[k], DeleteLocked(Begin(shards[ShardOf[k]]), k), NULL)
  /\ lastCall' = Call("Delete", k, NULL)
  /\ UNCHANGED <<cacheRefs, idAlloc, closures, vsize, owned, held>>

\* Cache.EvictFile: shard.EvictFile on every shard, since the blocks of a
\* file are spread over the shards by their offsets.
\* Mutant: only the shard getShard picks for the file's first offset.
EvictFileOneShard(f) ==
  ApplyOne(ShardOf[<<f, CHOOSE o \in Offsets : TRUE>>],
           EvictFileLoop(Begin(shards[ShardOf[<<f, CHOOSE o \in Offsets : TRUE>>]]), f), NULL)

EvictFileShards(f) == Apply([i \in Shards |-> EvictFileLoop(Begin(shards[i]), f)], NULL)

EvictFile(f) ==
  /\ Usable(f)
  /\ \E i \in Shards : shards[i].files[f] # NULL
  /\ EvictFileShards(f)
  /\ lastCall' = Call("EvictFile", f, NULL)
  /\ UNCHANGED <<cacheRefs, idAlloc, closures, vsize, owned, held>>

(***************************************************************************)
(* Ref, Unref, NewID.                                                      *)
(***************************************************************************)
\* Ref by a holder of a reference (on a count of 0 the result 1 panics).
Ref ==
  /\ cacheRefs >= 1
  /\ cacheRefs < MaxCacheRefs
  /\ cacheRefs' = cacheRefs + 1
  /\ UNCHANGED <<shards, idAlloc, closures, refs, vsize, owned, held, lastCall>>

\* Mutant: Unref by a caller that holds no reference (a double Unref).
UnrefTwice ==
  /\ cacheRefs' = cacheRefs - 1
  /\ UNCHANGED <<shards, idAlloc, closures, refs, vsize, owned, held, lastCall>>

\* Unref of a reference that is not the last.
Unref ==
  /\ cacheRefs > 1
  /\ cacheRefs' = cacheRefs - 1
  /\ UNCHANGED <<shards, idAlloc, closures, refs, vsize, owned, held, lastCall>>

\* Unref of the last reference: shard.Free on every shard.
UnrefLast ==
  /\ cacheRefs = 1
  /\ cacheRefs' = 0
  /\ Apply([i \in Shards |-> ShardFree(Begin(shards[i]))], NULL)
  /\ lastCall' = Call("Close", NULL, NULL)
  /\ UNCHANGED <<idAlloc, closures, vsize, owned, held>>

NewID ==
  /\ cacheRefs > 0
  /\ idAlloc < MaxID
  /\ idAlloc' = idAlloc + 1
  /\ UNCHANGED <<shards, cacheRefs, closures, refs, vsize, owned, held, lastCall>>

(***************************************************************************)
(* Cache.Reserve(n) and its release closure.                               *)
(***************************************************************************)
\* Mutant: the per-shard share rounded down.
ReserveShardNFloor(n) == n \div NumShards

\* shardN := (n + len(c.shards) - 1) / len(c.shards)
ReserveShardN(n) == (n + NumShards - 1) \div NumShards

Reserve(n) ==
  /\ cacheRefs > 0
  /\ closures[n] \in {None, -1}
  /\ Apply([i \in Shards |-> ReserveLocked(Begin(shards[i]), ReserveShardN(n))], NULL)
  /\ closures' = [closures EXCEPT ![n] = ReserveShardN(n)]
  /\ lastCall' = Call("Reserve", n, NULL)
  /\ UNCHANGED <<cacheRefs, idAlloc, vsize, owned, held>>

\* The closure: Reserve(-shardN) on every shard, then shardN = -1 (a
\* second call panics, which callers never risk).
ReleaseReservation(n) ==
  /\ cacheRefs > 0
  /\ closures[n] >= 0
  /\ Apply([i \in Shards |-> ReserveLocked(Begin(shards[i]), -closures[n])], NULL)
  /\ closures' = [closures EXCEPT ![n] = -1]
  /\ lastCall' = Call("Reserve", -n, NULL)
  /\ UNCHANGED <<cacheRefs, idAlloc, vsize, owned, held>>

Next ==
  \/ \E v \in Values, n \in BufSizes : Alloc(v, n)
  \/ \E v \in Values : Free(v) \/ Release(v)
  \/ \E k \in Keys : Get(k) \/ Delete(k)
  \/ \E k \in Keys, v \in Values : Set(k, v)
  \/ \E f \in Files : EvictFile(f)
  \/ Ref \/ Unref \/ UnrefLast \/ NewID
  \/ \E n \in ReserveAmounts : Reserve(n) \/ ReleaseReservation(n)

Spec == Init /\ [][Next]_cvars

(***************************************************************************)
(* Properties.                                                             *)
(***************************************************************************)
LOCAL FS == INSTANCE FiniteSetsExt

CacheTypeOK ==
  /\ \A i \in Shards : shards[i].blocks \subseteq {k \in Keys : ShardOf[k] = i}
  /\ cacheRefs \in 0 .. MaxCacheRefs
  /\ idAlloc \in 1 .. MaxID
  /\ closures \in [ReserveAmounts -> {None, -1} \cup Nat]
  /\ refs \in [Values -> Nat] /\ vsize \in [Values -> Nat]
  /\ owned \subseteq Values /\ held \in [Values -> 0 .. MaxHandles]

\* Every Value's reference count equals its owners: the caller that
\* allocated it, its live Handles and the entries of every shard that hold
\* it.  The teardown of the last Unref frees every shard's entries under
\* the shard locks; a Value it does not release leaks, one it releases
\* twice is freed under a Handle that is still live.
CacheRefsAccountedFor ==
  \A v \in Values :
    refs[v] = (IF v \in owned THEN 1 ELSE 0) + held[v]
              + Cardinality({ik \in Shards \X Keys : shards[ik[1]].val[ik[2]] = v})

\* Memory is never deallocated while a shard lock is held.  The step that
\* takes c.refs from 1 to 0 is Unref's teardown, and every reference it
\* takes away is an entry's Value released by shard.Free inside its
\* critical section; none of them may be the Value's last.
TeardownFreesAfterUnlock ==
  [][cacheRefs = 1 /\ cacheRefs' = 0 =>
       \A v \in Values : refs'[v] < refs[v] => refs'[v] > 0]_cvars

\* The least m with m * NumShards >= n: the share of a reservation of n
\* bytes each shard must hold back for all of them to cover n.
CoveringShare(n) == CHOOSE m \in 0 .. n : m * NumShards >= n /\ (m - 1) * NumShards < n

\* Every shard holds back exactly the covering share of each reservation
\* whose release closure has not run: Cache.Reserve spreads n rounded up,
\* and the closure gives back the shardN it captured, once.
ReservationsBalanced ==
  \A i \in Shards :
    shards[i].reservedSize
      = FS!MapThenSumSet(CoveringShare, {n \in ReserveAmounts : closures[n] >= 0})

\* The whole cache keeps the promise of module BlockCache: a key's blocks
\* are where getShard sends every call on it, Cache.EvictFile removes the
\* file's blocks from every shard, and the last Unref empties the cache.
Cached ==
  [k \in Keys |-> IF k \in shards[ShardOf[k]].blocks THEN shards[ShardOf[k]].val[k] ELSE NULL]

Abs == INSTANCE BlockCache
         WITH cache <- Cached, call <- lastCall,
              Amounts <- ReserveAmounts \cup {-n : n \in ReserveAmounts}

CacheImplementsBlockCache == Abs!Spec

====
