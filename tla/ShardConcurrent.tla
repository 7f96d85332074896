--------------------------- MODULE ShardConcurrent ---------------------------
(***************************************************************************)
(* Goroutines sharing one shard.  Module Shard runs each call as a single *)
(* step; here the two calls that give up the shard lock part-way are     *)
(* split at the points where they do, so that every other call can run   *)
(* in between:                                                             *)
(*   shard.Delete    - the existence check under the read lock, the     *)
(*                     locked metaEvict (which looks the key up again),  *)
(*                     the release of the removed Value after unlocking; *)
(*   shard.EvictFile - evictFileRun's locked batch, the release of the   *)
(*                     batch's Values in its deferred unlock, and the    *)
(*                     next batch while evictFileRun reports more.       *)
(* Each critical section is one step: the shard lock serialises them.    *)
(* Get, Set, Alloc, Free and Handle.Release are the other goroutines'    *)
(* calls, each a single step as in Shard.                                 *)
(*                                                                         *)
(*   th        - the call each goroutine of Threads is in, the key or    *)
(*               file it works on, the Values it will release after     *)
(*               unlocking, and evictFileRun's moreRemaining result      *)
(*   untouched - for a goroutine in EvictFile, the file's blocks cached  *)
(*               when it started that no Set has touched since          *)
(*               (auxiliary)                                             *)
(***************************************************************************)
EXTENDS Shard

CONSTANTS
  Threads,                \* goroutines calling Delete and EvictFile
  SetsAvoidEvictingFiles  \* TRUE: callers never Set a block of a file being
                          \* evicted (the storage engine evicts a file only
                          \* once it is obsolete)

VARIABLES th, untouched

cvars == <<vars, th, untouched>>

Idle == [op |-> "idle", key |-> NULL, file |-> NULL, pending |-> {}, more |-> FALSE]

CInit ==
  /\ Init
  /\ th = [t \in Threads |-> Idle]
  /\ untouched = [t \in Threads |-> {}]

\* The end of a critical section of goroutine t that left the shard as S:
\* references dropped under the lock are released, the Values metaEvict
\* returned become t's to release after unlocking, and t moves to op.
\* Mutant: the removed Values are released under the lock as well.
LockedReleaseEarly(t, S, op, more) ==
  /\ Commit(S, NULL)
  /\ th' = [th EXCEPT ![t].op = op, ![t].pending = S.obsolete, ![t].more = more]

Locked(t, S, op, more) ==
  /\ shard' = Begin(S)
  /\ refs' = [u \in Values |-> refs[u] - (IF u \in S.dropped THEN 1 ELSE 0)]
  /\ lockReleased' = S.dropped
  /\ th' = [th EXCEPT ![t].op = op, ![t].pending = S.obsolete, ![t].more = more]

\* The releases of goroutine t after it dropped the lock.
ReleasePending(t) ==
  refs' = [u \in Values |-> refs[u] - (IF u \in th[t].pending THEN 1 ELSE 0)]

(***************************************************************************)
(* shard.Delete.                                                           *)
(***************************************************************************)
\* The optimistic check under the read lock; an absent key returns at once
\* and changes nothing, so only a present key starts a Delete.
DeleteCheck(t, k) ==
  /\ th[t].op = "idle"
  /\ k \in shard.blocks
  /\ th' = [th EXCEPT ![t].op = "delete", ![t].key = k]
  /\ lockReleased' = {}
  /\ UNCHANGED <<shard, refs, vsize, owned, held, reservations, freed, lastCall, untouched>>

\* The locked part: metaEvict the entry if it is still there.
DeleteEvict(t) ==
  /\ th[t].op = "delete"
  /\ Locked(t, DeleteLocked(Begin(shard), th[t].key), "deleteRelease", FALSE)
  /\ lastCall' = Call("Delete", th[t].key, NULL)
  /\ UNCHANGED <<vsize, owned, held, reservations, freed, untouched>>

\* deletedValue.release() after unlocking.
DeleteRelease(t) ==
  /\ th[t].op = "deleteRelease"
  /\ ReleasePending(t)
  /\ th' = [th EXCEPT ![t] = Idle]
  /\ lockReleased' = {}
  /\ UNCHANGED <<shard, vsize, owned, held, reservations, freed, lastCall, untouched>>

(***************************************************************************)
(* shard.EvictFile.                                                        *)
(***************************************************************************)
EvictFileStart(t, f) ==
  /\ th[t].op = "idle"
  /\ th' = [th EXCEPT ![t].op = "evictFile", ![t].file = f]
  /\ untouched' = [untouched EXCEPT ![t] = {k \in shard.blocks : FileOf(k) = f}]
  /\ lockReleased' = {}
  /\ UNCHANGED <<shard, refs, vsize, owned, held, reservations, freed, lastCall>>

\* One evictFileRun under the lock; r is its result <<shard, moreRemaining>>.
EvictFileLocked(t, r) == Locked(t, r[1], "evictRelease", r[2])

EvictFileBatchStep(t) ==
  /\ th[t].op = "evictFile"
  /\ EvictFileLocked(t, EvictFileRun(Begin(shard), th[t].file))
  /\ lastCall' = Call("EvictFile", th[t].file, NULL)
  /\ UNCHANGED <<vsize, owned, held, reservations, freed, untouched>>

\* The deferred release of the batch's Values after unlocking; then the
\* loop of EvictFile calls evictFileRun again while it reported more.
EvictFileRelease(t) ==
  /\ th[t].op = "evictRelease"
  /\ ReleasePending(t)
  /\ th' = [th EXCEPT ![t] = IF th[t].more THEN [@ EXCEPT !.op = "evictFile", !.pending = {}]
                             ELSE Idle]
  /\ lockReleased' = {}
  /\ UNCHANGED <<shard, vsize, owned, held, reservations, freed, lastCall, untouched>>

(***************************************************************************)
(* The other goroutines' calls, each one step (module Shard).  A Set      *)
(* takes its key out of every EvictFile's untouched blocks.               *)
(***************************************************************************)
Evicting == {th[t].file : t \in {u \in Threads : th[u].op \in {"evictFile", "evictRelease"}}}

CSet(k, v) ==
  /\ SetsAvoidEvictingFiles => FileOf(k) \notin Evicting
  /\ Set(k, v)
  /\ untouched' = [t \in Threads |-> untouched[t] \ {k}]
  /\ UNCHANGED th

Other ==
  /\ \/ \E v \in Values, n \in BufSizes : Alloc(v, n)
     \/ \E v \in Values : Free(v) \/ Release(v)
     \/ \E k \in Keys : Get(k)
  /\ UNCHANGED <<th, untouched>>

\* The steps of goroutine t inside its Delete or EvictFile call.
ThreadStep(t) ==
  \/ DeleteEvict(t) \/ DeleteRelease(t)
  \/ EvictFileBatchStep(t) \/ EvictFileRelease(t)

CNext ==
  \/ \E t \in Threads :
       \/ ThreadStep(t)
       \/ \E k \in Keys : DeleteCheck(t, k)
       \/ \E f \in Files : EvictFileStart(t, f)
  \/ \E k \in Keys, v \in Values : CSet(k, v)
  \/ Other

\* A goroutine that has entered Delete or EvictFile is runnable at every
\* step until it returns: its critical sections wait only for the shard
\* lock, which the Go scheduler and sync.RWMutex hand to every waiter in
\* time.  The callers of the shard get no fairness: they may stop calling.
CSpec == CInit /\ [][CNext]_cvars /\ \A t \in Threads : WF_cvars(ThreadStep(t))

(***************************************************************************)
(* Properties.                                                             *)
(***************************************************************************)
CTypeOK ==
  /\ TypeOK
  /\ th \in [Threads -> [op : {"idle", "delete", "deleteRelease", "evictFile", "evictRelease"},
                         key : Keys \cup {NULL}, file : Files \cup {NULL},
                         pending : SUBSET Values, more : BOOLEAN]]
  /\ untouched \in [Threads -> SUBSET Keys]

\* Every reference count equals the number of its owners, counting the
\* goroutines that removed the Value from the shard and have not yet
\* released it after unlocking.  Between the locked part of Delete or of
\* an evictFileRun and its release, other goroutines may Get, Set, Free
\* and release Handles; none of that may free a Value still owed a
\* release, nor leave a release owed twice.
RefsAccountedForConcurrent ==
  \A v \in Values :
    refs[v] = (IF v \in owned THEN 1 ELSE 0) + held[v]
              + Cardinality({k \in Keys : shard.val[k] = v})
              + Cardinality({t \in Threads : v \in th[t].pending})

\* When a goroutine's last evictFileRun reports nothing remaining, every
\* block of the file that was cached when its EvictFile began and that no
\* Set has touched since is gone, although other goroutines ran between
\* the batches and the hands moved entries of the file around the ring.
EvictFileRemovesFile ==
  \A t \in Threads :
    th[t].op = "evictRelease" /\ ~th[t].more => untouched[t] \cap shard.blocks = {}

\* Every Delete and EvictFile that has started returns (spec section 5:
\* no operation suspends indefinitely; file eviction self-limits).
CallsReturn == \A t \in Threads : th[t].op # "idle" ~> th[t].op = "idle"

====
