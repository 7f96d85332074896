------------------------------- MODULE Shard -------------------------------
(***************************************************************************)
(* One cache shard with its callers: the shard's operations of            *)
(* internal/cache/clockpro.go (Get, Set, Delete, EvictFile, Reserve) and  *)
(* the manually managed Values they pass around (Alloc, Free,             *)
(* Handle.Release).  Each shard operation is one step: its critical       *)
(* section (module ClockPro) and the releases it makes after unlocking.   *)
(*                                                                         *)
(*   refs         - the reference count of every Value (0: in allocator)  *)
(*   vsize        - len(value.buf), fixed when the Value is allocated     *)
(*   owned        - Values allocated by a caller and not yet given to Set *)
(*                  or Free                                               *)
(*   held         - number of live Handles on each Value                  *)
(*   reservations - the amounts of the Reserve calls not yet given back  *)
(*   lockReleased - Values whose count the last step decremented while   *)
(*                  holding the shard lock (auxiliary)                    *)
(*   lastCall     - the last call made on the shard and its result        *)
(*                  (auxiliary, the interface of the refinement)          *)
(***************************************************************************)
EXTENDS ClockPro

CONSTANTS
  BufSizes,       \* sizes given to Alloc
  ReserveAmounts, \* amounts given to Reserve
  MaxHandles      \* bound on live Handles per Value

VARIABLES shard, refs, vsize, owned, held, reservations, freed, lockReleased, lastCall

vars == <<shard, refs, vsize, owned, held, reservations, freed, lockReleased, lastCall>>

Call(op, arg, v) == [op |-> op, arg |-> arg, val |-> v]

\* Apply the counts released by a critical section S: the entry references
\* dropped under the lock and the obsolete Values released after unlocking.
\* `acq` is the Value the section's entries acquired, if any.
Released(S, acq) ==
  [u \in Values |-> refs[u] + (IF u = acq THEN 1 ELSE 0)
                            - (IF u \in S.dropped THEN 1 ELSE 0)
                            - (IF u \in S.obsolete THEN 1 ELSE 0)]

\* The end of a shard operation whose critical section left the shard as S
\* and whose entries acquired Value acq: the scratch fields are emptied, the
\* counts released under the lock and after unlocking are applied.
Commit(S, acq) ==
  /\ shard' = Begin(S)
  /\ refs' = Released(S, acq)
  /\ lockReleased' = S.dropped

Init ==
  /\ shard = InitShard
  /\ refs = [v \in Values |-> 0]
  /\ vsize = [v \in Values |-> 0]
  /\ owned = {}
  /\ held = [v \in Values |-> 0]
  /\ reservations = {}
  /\ freed = FALSE
  /\ lockReleased = {}
  /\ lastCall = Call("none", NULL, NULL)

(***************************************************************************)
(* Values and Handles.                                                     *)
(***************************************************************************)

\* cache.Alloc(n): a Value with one reference, owned by the caller.
Alloc(v, n) ==
  /\ refs[v] = 0
  /\ refs' = [refs EXCEPT ![v] = 1]
  /\ vsize' = [vsize EXCEPT ![v] = n]
  /\ owned' = owned \cup {v}
  /\ lockReleased' = {}
  /\ UNCHANGED <<shard, held, reservations, freed, lastCall>>

\* cache.Free(v) of a Value that was never added to the cache.
Free(v) ==
  /\ v \in owned
  /\ refs[v] <= 1
  /\ refs' = [refs EXCEPT ![v] = @ - 1]
  /\ owned' = owned \ {v}
  /\ lockReleased' = {}
  /\ UNCHANGED <<shard, vsize, held, reservations, freed, lastCall>>

\* Handle.Release.
\* Mutant: Handle.Release without a live handle (a double release).
ReleaseTwice(v) ==
  /\ held' = [held EXCEPT ![v] = @ - 1]
  /\ refs' = [refs EXCEPT ![v] = @ - 1]
  /\ lockReleased' = {}
  /\ UNCHANGED <<shard, vsize, owned, reservations, freed, lastCall>>

Release(v) ==
  /\ held[v] > 0
  /\ held' = [held EXCEPT ![v] = @ - 1]
  /\ refs' = [refs EXCEPT ![v] = @ - 1]
  /\ lockReleased' = {}
  /\ UNCHANGED <<shard, vsize, owned, reservations, freed, lastCall>>

(***************************************************************************)
(* Shard operations.                                                       *)
(***************************************************************************)

\* shard.Get, a hit: the Handle acquires a reference.  A miss changes
\* nothing but the miss counter, which is not modelled.
Get(k) ==
  /\ ~freed
  /\ Hit(shard, k)
  /\ held[shard.val[k]] < MaxHandles
  /\ shard' = GetLocked(shard, k)
  /\ refs' = [refs EXCEPT ![shard.val[k]] = @ + 1]
  /\ held' = [held EXCEPT ![shard.val[k]] = @ + 1]
  /\ lockReleased' = {}
  /\ lastCall' = Call("Get", k, shard.val[k])
  /\ UNCHANGED <<vsize, owned, reservations, freed>>

\* shard.Set(k, v): v's single reference passes to the returned Handle.
Set(k, v) ==
  /\ ~freed
  /\ v \in owned
  /\ refs[v] = 1
  /\ held[v] < MaxHandles
  /\ Commit(SetLocked(Begin(shard), k, v, vsize[v]), v)
  /\ owned' = owned \ {v}
  /\ held' = [held EXCEPT ![v] = @ + 1]
  /\ lastCall' = Call("Set", k, v)
  /\ UNCHANGED <<vsize, reservations, freed>>

\* shard.Delete(k): the optimistic check, the locked eviction, and the
\* release of the removed Value after unlocking.
Delete(k) ==
  /\ ~freed
  /\ k \in shard.blocks
  /\ Commit(DeleteLocked(Begin(shard), k), NULL)
  /\ lastCall' = Call("Delete", k, NULL)
  /\ UNCHANGED <<vsize, owned, held, reservations, freed>>

\* shard.EvictFile(f): evictFileRun until it reports nothing remaining
\* (EvictFileLoop, module ClockPro).
EvictFile(f) ==
  /\ ~freed
  /\ shard.files[f] # NULL
  /\ Commit(EvictFileLoop(Begin(shard), f), NULL)
  /\ lastCall' = Call("EvictFile", f, NULL)
  /\ UNCHANGED <<vsize, owned, held, reservations, freed>>

\* shard.Reserve(n), and the call of its release closure: Reserve(-n).
Reserve(n) ==
  /\ ~freed
  /\ n \notin reservations
  /\ Commit(ReserveLocked(Begin(shard), n), NULL)
  /\ reservations' = reservations \cup {n}
  /\ lastCall' = Call("Reserve", n, NULL)
  /\ UNCHANGED <<vsize, owned, held, freed>>

ReleaseReservation(n) ==
  /\ ~freed
  /\ n \in reservations
  /\ Commit(ReserveLocked(Begin(shard), -n), NULL)
  /\ reservations' = reservations \ {n}
  /\ lastCall' = Call("Reserve", -n, NULL)
  /\ UNCHANGED <<vsize, owned, held, freed>>

\* shard.Free, when the cache's last reference goes: every entry is
\* unlinked and its Value released under the lock (ShardFree, module
\* ClockPro).  No shard operation may follow; Handles stay valid.
Teardown ==
  /\ ~freed
  /\ Commit(ShardFree(Begin(shard)), NULL)
  /\ freed' = TRUE
  /\ lastCall' = Call("Close", NULL, NULL)
  /\ UNCHANGED <<vsize, owned, held, reservations>>

Next ==
  \/ \E v \in Values, n \in BufSizes : Alloc(v, n)
  \/ \E v \in Values : Free(v) \/ Release(v)
  \/ \E k \in Keys : Get(k) \/ Delete(k)
  \/ \E k \in Keys, v \in Values : Set(k, v)
  \/ \E f \in Files : EvictFile(f)
  \/ \E n \in ReserveAmounts : Reserve(n) \/ ReleaseReservation(n)
  \/ Teardown

Spec == Init /\ [][Next]_vars

(***************************************************************************)
(* Properties.                                                             *)
(***************************************************************************)
LOCAL FS == INSTANCE FiniteSetsExt

TypeOK ==
  /\ shard.blocks \subseteq Keys
  /\ shard.next \in [Keys -> Keys] /\ shard.fnext \in [Keys -> Keys]
  /\ shard.files \in [Files -> Keys \cup {NULL}]
  /\ shard.ptype \in [Keys -> Types]
  /\ shard.esize \in [Keys -> Nat]
  /\ shard.referenced \in [Keys -> BOOLEAN]
  /\ shard.val \in [Keys -> Values \cup {NULL}]
  /\ {shard.handHot, shard.handCold, shard.handTest} \subseteq Keys \cup {NULL}
  /\ shard.size \in [Types -> Int] /\ shard.count \in [Types -> Int]
  /\ shard.coldTarget \in Int /\ shard.reservedSize \in Int
  /\ refs \in [Values -> Nat] /\ vsize \in [Values -> Nat]
  /\ owned \subseteq Values /\ held \in [Values -> 0..MaxHandles]
  /\ reservations \subseteq ReserveAmounts
  /\ freed \in BOOLEAN

\* Every reference count equals the number of owners of the Value: the
\* caller that allocated it, the entries holding it and the live Handles.
\* A count above that is a leak (the buffer is never freed), a count below
\* it is a use after free.  Set, Get, the eviction sweep, Delete and
\* EvictFile each move references; a slip in any of them breaks this.
RefsAccountedFor ==
  \A v \in Values :
    refs[v] = (IF v \in owned THEN 1 ELSE 0) + held[v]
              + Cardinality({k \in Keys : shard.val[k] = v})

\* metaCheck: the per-category sizes and counts kept incrementally by
\* Set, the three hands, Delete and EvictFile equal a recount of the ring,
\* as long as the shard is in use (shard.Free leaves them stale).
CountsMatchRing ==
  ~freed =>
  \A t \in Types :
    LET E == {k \in shard.blocks : shard.ptype[k] = t}
    IN /\ shard.count[t] = Cardinality(E)
       /\ shard.size[t] = FS!MapThenSumSet(LAMBDA k : shard.esize[k], E)

RECURSIVE Reach(_, _, _)
Reach(nx, x, seen) == IF x \in seen THEN seen ELSE Reach(nx, nx[x], seen \cup {x})

\* The keys met following successor function nx from x.
Orbit(nx, x) == Reach(nx, x, {})

\* The intrusive lists after every operation: the shard ring is one cycle
\* through exactly the cached entries, with all three hands on it; each
\* file's ring is one cycle through exactly that file's entries, headed by
\* files[f]; an entry in no ring points at itself.  metaAdd, metaDel and
\* the hands' moves past deleted entries must all preserve this, or
\* EvictFile misses blocks and the hands walk off the ring.
RingsWellFormed ==
  /\ \A k \in Keys \ shard.blocks : shard.next[k] = k /\ shard.fnext[k] = k
  /\ \A a, b \in shard.blocks : shard.next[a] = shard.next[b] => a = b
  /\ \A a, b \in shard.blocks : shard.fnext[a] = shard.fnext[b] => a = b
  /\ IF shard.blocks = {}
     THEN shard.handHot = NULL /\ shard.handCold = NULL /\ shard.handTest = NULL
     ELSE /\ {shard.handHot, shard.handCold, shard.handTest} \subseteq shard.blocks
          /\ Orbit(shard.next, shard.handHot) = shard.blocks
  /\ \A f \in Files :
       LET B == {k \in shard.blocks : FileOf(k) = f}
       IN IF B = {} THEN shard.files[f] = NULL
          ELSE shard.files[f] \in B /\ Orbit(shard.fnext, shard.files[f]) = B

\* A test (ghost) entry holds no Value and a hot or cold entry holds one:
\* Get tells a hit from a ghost, and Set a resident entry from a ghost, by
\* whether the entry has a Value.
GhostsHoldNoValue ==
  \A k \in shard.blocks : (shard.ptype[k] = "test") <=> (shard.val[k] = NULL)

\* The eviction sweep (evict, runHandCold, runHandHot, runHandTest calling
\* each other) always comes to an end.  Non-termination here is the
\* infinite loop the count fields were added to diagnose.
EvictionTerminates == ~shard.stuck

\* The resident size exceeds the target by less than one block: evict()
\* runs before metaAdd links a new entry, so an insertion may overshoot by
\* at most that entry's size, and Set of a resident key, Reserve and the
\* sweep bring it back below the target.
BoundedOvershoot ==
  LET R == {k \in shard.blocks : shard.ptype[k] # "test"}
      largest == IF R = {} THEN 0 ELSE FS!Max({shard.esize[k] : k \in R})
  IN ~freed => shard.size["hot"] + shard.size["cold"] < TargetSize(shard) + largest

\* coldTarget stays within [0, targetSize] across ghost hits (Set),
\* confirmed ghost evictions (runHandTest) and Reserve shrinking the target.
ColdTargetInRange == 0 <= shard.coldTarget /\ shard.coldTarget <= TargetSize(shard)

\* The shard implements the BlockCache promise: the cached Value of a key
\* is its entry's Value, and a ghost or absent key caches nothing.
Cached == [k \in Keys |-> IF k \in shard.blocks THEN shard.val[k] ELSE NULL]

Abs == INSTANCE BlockCache
         WITH cache <- Cached, call <- lastCall,
              Amounts <- ReserveAmounts \cup {-n : n \in ReserveAmounts}

ImplementsBlockCache == Abs!Spec

\* The spec (section 3, 8): sizeHot + sizeCold <= targetSize at every
\* quiescent point.
BudgetRespected == shard.size["hot"] + shard.size["cold"] <= TargetSize(shard)

\* The spec (section 5): memory is never deallocated while the shard lock is
\* held; every path that frees a Value unlinks it under the lock and
\* releases it after unlocking.  A Value's count never reaches zero by a
\* release made under the lock.
FreeOnlyAfterUnlock == [][\A v \in lockReleased' : refs'[v] > 0]_vars

=============================================================================
