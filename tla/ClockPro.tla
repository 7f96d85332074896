------------------------------ MODULE ClockPro ------------------------------
(***************************************************************************)
(* The CLOCK-Pro algorithm of one cache shard, internal/cache/clockpro.go. *)
(*                                                                         *)
(* A shard is a record S holding the fields of the Go `shard` struct that *)
(* the algorithm reads and writes, and, per key, the fields of its        *)
(* `entry`.  An entry is identified by its key: the blocks map holds at   *)
(* most one entry per key, and an entry that is freed is reset to the     *)
(* defaults of newEntry.  The shard ring (blockLink) and the per-file     *)
(* rings (fileLink) are successor functions over Keys; a key that is in  *)
(* no ring points at itself, as an unlinked entry does.                   *)
(*                                                                         *)
(* Every operator here is the body of a critical section: it maps the     *)
(* shard as the lock was taken to the shard as the lock is released.      *)
(* Two scratch fields record what happened to Values in the section:      *)
(*   dropped  - Values whose entry reference was released under the lock *)
(*              (entry.setValue / entry.free / metaDel(e).release());     *)
(*   obsolete - Values unlinked under the lock and handed to the caller   *)
(*              to release after unlocking (metaEvict's result).          *)
(* The eviction loops are recursive operators.  `steps` counts hand       *)
(* movements in one section; past MaxHandSteps the loops stop and `stuck` *)
(* is set, so that an eviction that would never end is seen as a state.   *)
(***************************************************************************)
EXTENDS Integers, FiniteSets

CONSTANTS
  Files,                      \* file numbers (fileKey), model values
  Offsets,                    \* block offsets within a file
  Values,                     \* cache.Value objects, model values
  NULL,                       \* the nil pointer
  MaxSize,                    \* shard.maxSize
  BlocksPerMutexAcquisition,  \* the constant of evictFileRun (5 in the code)
  MaxHandSteps                \* bound on hand movements in one section

ASSUME MaxSize \in Nat \ {0}
ASSUME BlocksPerMutexAcquisition \in Nat \ {0}
ASSUME NULL \notin Values

Keys == Files \X Offsets

\* key.file(): the file a block key belongs to.
FileOf(k) == k[1]

Types == {"hot", "cold", "test"}

InitShard ==
  [ blocks       |-> {},
    next         |-> [k \in Keys |-> k],
    fnext        |-> [k \in Keys |-> k],
    files        |-> [f \in Files |-> NULL],
    ptype        |-> [k \in Keys |-> "cold"],
    esize        |-> [k \in Keys |-> 0],
    referenced   |-> [k \in Keys |-> FALSE],
    val          |-> [k \in Keys |-> NULL],
    handHot      |-> NULL,
    handCold     |-> NULL,
    handTest     |-> NULL,
    size         |-> [t \in Types |-> 0],
    count        |-> [t \in Types |-> 0],
    coldTarget   |-> MaxSize,
    reservedSize |-> 0,
    dropped      |-> {},
    obsolete     |-> {},
    steps        |-> 0,
    stuck        |-> FALSE ]

\* The scratch fields are empty outside a critical section.
Begin(S) == [S EXCEPT !.dropped = {}, !.obsolete = {}, !.steps = 0]

TargetSize(S) ==
  IF MaxSize - S.reservedSize < 1 THEN 1 ELSE MaxSize - S.reservedSize

(***************************************************************************)
(* Intrusive circular lists (entry.link / unlink / linkFile / unlinkFile). *)
(***************************************************************************)
Pred(nx, e) == CHOOSE p \in Keys : nx[p] = e

\* at.link(e): e is inserted just before `at`.
Link(nx, at, e) == [nx EXCEPT ![Pred(nx, at)] = e, ![e] = at]

\* e.unlink(): e leaves the ring and points at itself.
Unlink(nx, e) == [nx EXCEPT ![Pred(nx, e)] = nx[e], ![e] = e]

NextOf(S, h) == IF h = NULL THEN NULL ELSE S.next[h]
PrevOf(S, h) == IF h = NULL THEN NULL ELSE Pred(S.next, h)

(***************************************************************************)
(* Entry values (entry.setValue, entry.free).                              *)
(***************************************************************************)
Drop(S, v) == IF v = NULL THEN S ELSE [S EXCEPT !.dropped = @ \cup {v}]

\* e.free(): setValue(nil), then the entry returns to the allocator.
FreeEntry(S, e) ==
  [Drop(S, S.val[e]) EXCEPT !.val[e] = NULL, !.ptype[e] = "cold",
                            !.referenced[e] = FALSE, !.esize[e] = 0]

\* Move entry e to category t, carrying its size and count along.
Retype(S, e, t) ==
  [S EXCEPT !.ptype[e] = t,
            !.size[S.ptype[e]] = @ - S.esize[e], !.size[t] = @ + S.esize[e],
            !.count[S.ptype[e]] = @ - 1, !.count[t] = @ + 1]

\* Take entry e out of the size and count of its category.
Uncount(S, e) ==
  [S EXCEPT !.size[S.ptype[e]] = @ - S.esize[e], !.count[S.ptype[e]] = @ - 1]

(***************************************************************************)
(* metaDel, metaEvict.                                                     *)
(***************************************************************************)
\* Mutant: metaDel leaves a hand on the entry it unlinks.
MetaDelKeepHands(S, e) ==
  LET last    == S.next[e] = e
      hand(h) == IF last THEN NULL ELSE h
  IN [S EXCEPT !.val[e]   = NULL,
               !.blocks   = @ \ {e},
               !.handHot  = hand(S.handHot),
               !.handCold = hand(S.handCold),
               !.handTest = hand(S.handTest),
               !.next     = Unlink(S.next, e),
               !.fnext    = Unlink(S.fnext, e),
               !.files[FileOf(e)] = IF S.fnext[e] = e THEN NULL ELSE S.fnext[e]]

\* metaDel(e): a hand on e steps back to e's predecessor, all hands clear
\* when e was the last entry, and the file's head becomes e's successor in
\* the file ring (or the file leaves the map).  The caller gets e.val.
MetaDel(S, e) ==
  LET last    == S.next[e] = e
      hand(h) == IF last THEN NULL ELSE IF h = e THEN PrevOf(S, h) ELSE h
  IN [S EXCEPT !.val[e]   = NULL,
               !.blocks   = @ \ {e},
               !.handHot  = hand(S.handHot),
               !.handCold = hand(S.handCold),
               !.handTest = hand(S.handTest),
               !.next     = Unlink(S.next, e),
               !.fnext    = Unlink(S.fnext, e),
               !.files[FileOf(e)] = IF S.fnext[e] = e THEN NULL ELSE S.fnext[e]]

\* Value v, returned by metaEvict, is released by the caller after unlocking.
Obsolete(S, v) == IF v = NULL THEN S ELSE [S EXCEPT !.obsolete = @ \cup {v}]

\* Mutant: metaEvict drops the evicted Value instead of returning it.
MetaEvictLoseValue(S, e) == FreeEntry(MetaDel(Uncount(S, e), e), e)

MetaEvict(S, e) == Obsolete(FreeEntry(MetaDel(Uncount(S, e), e), e), S.val[e])

(***************************************************************************)
(* The hands.  Each runHand* is a Tick, an optional call of another hand, *)
(* the work on the page under the hand, and the advance of the hand.      *)
(***************************************************************************)
\* Tick: one hand movement of the section.
Tick(S) == [S EXCEPT !.steps = @ + 1, !.stuck = @ \/ S.steps + 1 >= MaxHandSteps]

AdvanceCold(S) == [S EXCEPT !.handCold = NextOf(S, S.handCold)]
AdvanceHot(S)  == [S EXCEPT !.handHot = NextOf(S, S.handHot)]
AdvanceTest(S) == [S EXCEPT !.handTest = NextOf(S, S.handTest)]

\* The hot hand on page e: a referenced hot page loses its bit, an
\* unreferenced one becomes cold.
\* Mutant: the hot hand passes a referenced hot page without clearing its bit.
HotPageKeepReference(S, e) ==
  IF S.ptype[e] = "hot" /\ ~S.referenced[e] THEN Retype(S, e, "cold") ELSE S

HotPage(S, e) ==
  CASE S.ptype[e] # "hot" -> S
    [] S.referenced[e]    -> [S EXCEPT !.referenced[e] = FALSE]
    [] OTHER              -> Retype(S, e, "cold")

\* The test hand on page e: a test page is forgotten; coldTarget shrinks by
\* its size, floored at 0.
ForgetGhost(S, e) ==
  LET ct == S.coldTarget - S.esize[e]
  IN [Uncount(S, e) EXCEPT !.coldTarget = IF ct < 0 THEN 0 ELSE ct]

TestPage(S, e) ==
  IF S.ptype[e] = "test"
  THEN FreeEntry(MetaDel(Drop(ForgetGhost(S, e), S.val[e]), e), e)
  ELSE S

\* The cold hand's page, once the cold hand has stopped on it: a referenced
\* cold page is promoted to hot; an unreferenced one becomes a test page.
Promote(S, e) == [Retype(S, e, "hot") EXCEPT !.referenced[e] = FALSE]

\* Mutant: a cold page demoted to test keeps its Value.
DemoteKeepValue(S, e) == Retype(S, e, "test")

\* e.setValue(nil) and e.ptype = etTest.
Demote(S, e) == [Retype(Drop(S, S.val[e]), e, "test") EXCEPT !.val[e] = NULL]

RECURSIVE Evict(_), RunHandCold(_), RunHandHot(_), RunHandTest(_),
          HotLoop(_), TestLoop(_), ColdPage(_), ColdPageKeepValue(_),
          RunHandColdKeepValue(_), HotStep(_), HotStepKeepReference(_),
          RunHandHotKeepReference(_), TestStep(_), HotTestFirst(_),
          TestColdFirst(_)

\* shard.evict.
Evict(S) ==
  IF /\ ~S.stuck
     /\ TargetSize(S) <= S.size["hot"] + S.size["cold"]
     /\ S.handCold # NULL
  THEN Evict(RunHandCold(S))
  ELSE S

\* The test-hand loop of runHandCold.
TestLoop(S) ==
  IF ~S.stuck /\ TargetSize(S) < S.size["test"] /\ S.handTest # NULL
  THEN TestLoop(RunHandTest(S))
  ELSE S

\* The hot-hand loop closing runHandCold.
HotLoop(S) ==
  IF /\ ~S.stuck
     /\ TargetSize(S) - S.coldTarget <= S.size["hot"]
     /\ S.handHot # NULL
  THEN HotLoop(RunHandHot(S))
  ELSE S

ColdPageKeepValue(S) ==
  LET e == S.handCold
  IN CASE S.ptype[e] # "cold" -> S
       [] S.referenced[e]     -> Promote(S, e)
       [] OTHER               -> TestLoop(DemoteKeepValue(S, e))

RunHandColdKeepValue(S0) == HotLoop(AdvanceCold(ColdPageKeepValue(Tick(S0))))

ColdPage(S) ==
  LET e == S.handCold
  IN CASE S.ptype[e] # "cold" -> S
       [] S.referenced[e]     -> Promote(S, e)
       [] OTHER               -> TestLoop(Demote(S, e))

\* shard.runHandCold.
RunHandCold(S0) == HotLoop(AdvanceCold(ColdPage(Tick(S0))))

\* runHandHot after its optional runHandTest: stop if that emptied the ring.
HotStepKeepReference(S) ==
  IF S.handHot = NULL THEN S
  ELSE AdvanceHot(HotPageKeepReference(S, S.handHot))

\* runHandHot first runs the test hand when the two hands meet.
HotTestFirst(S) ==
  IF S.handHot = S.handTest /\ S.handTest # NULL THEN RunHandTest(S) ELSE S

RunHandHotKeepReference(S0) == HotStepKeepReference(HotTestFirst(Tick(S0)))

HotStep(S) ==
  IF S.handHot = NULL THEN S ELSE AdvanceHot(HotPage(S, S.handHot))

\* shard.runHandHot.
RunHandHot(S0) == HotStep(HotTestFirst(Tick(S0)))

\* runHandTest after its optional runHandCold: stop if that emptied the ring.
TestStep(S) ==
  IF S.handTest = NULL THEN S ELSE AdvanceTest(TestPage(S, S.handTest))

\* runHandTest first runs the cold hand when it meets it on a cold size > 0.
TestColdFirst(S) ==
  IF S.size["cold"] > 0 /\ S.handTest = S.handCold /\ S.handCold # NULL
  THEN RunHandCold(S) ELSE S

\* shard.runHandTest.
RunHandTest(S0) == TestStep(TestColdFirst(Tick(S0)))

(***************************************************************************)
(* metaAdd.                                                                *)
(***************************************************************************)
\* metaAdd's linking: k becomes the first entry, or is linked before the
\* hot hand; the cold hand steps back if it met the hot hand; k joins its
\* file's ring before the file's head, or becomes the head.
LinkBlock(S, k) ==
  IF S.handHot = NULL
  THEN [S EXCEPT !.handHot = k, !.handCold = k, !.handTest = k]
  ELSE [S EXCEPT !.next = Link(S.next, S.handHot, k)]

SeparateColdHand(S) ==
  IF S.handCold = S.handHot THEN [S EXCEPT !.handCold = PrevOf(S, S.handCold)] ELSE S

LinkFile(S, k) ==
  LET f == FileOf(k)
  IN [S EXCEPT !.blocks   = @ \cup {k},
               !.files[f] = IF @ = NULL THEN k ELSE @,
               !.fnext    = IF S.files[f] = NULL THEN @ ELSE Link(@, S.files[f], k)]

Insert(S, k) == LinkFile(SeparateColdHand(LinkBlock(S, k)), k)

\* metaAdd after its evict(): decline k if larger than the target size.
\* The entry was added iff k is in the result's blocks.
AddEvicted(S, k) == IF S.esize[k] > TargetSize(S) THEN S ELSE Insert(S, k)

\* Mutant: metaAdd links the entry without evicting first.
MetaAddNoEvict(S, k) == AddEvicted(S, k)

MetaAdd(S, k) == AddEvicted(Evict(S), k)

(***************************************************************************)
(* The critical sections of the shard's operations.                       *)
(***************************************************************************)

\* shard.Get under the read lock: a hit acquires the entry's Value and sets
\* its reference bit; a test entry (no Value) is a miss.
Hit(S, k) == k \in S.blocks /\ S.val[k] # NULL

GetLocked(S, k) == [S EXCEPT !.referenced[k] = TRUE]

\* The end of Set's insertion paths: an added entry joins the size and
\* count of category t, a declined one is freed (its Value dropped).
Admitted(S, k, t) ==
  IF k \in S.blocks
  THEN [S EXCEPT !.size[t] = @ + S.esize[k], !.count[t] = @ + 1]
  ELSE FreeEntry(S, k)

\* Set, case e == nil: newEntry and setValue, then metaAdd as a cold page.
SetAbsent(S, k, v, n) ==
  Admitted(MetaAdd([S EXCEPT !.ptype[k] = "cold", !.referenced[k] = FALSE,
                             !.esize[k] = n, !.val[k] = v], k), k, "cold")

\* Set, case hot or cold page: replace the Value, then evict.
SetResident(S, k, v, n) ==
  Evict([Drop(S, S.val[k]) EXCEPT !.val[k] = v, !.referenced[k] = TRUE,
                                  !.esize[k] = n,
                                  !.size[S.ptype[k]] = @ + n - S.esize[k]])

\* A ghost about to come back: its new size, coldTarget grown by that size
\* (at most to the target), reference bit clear, Value set, type hot.
Revive(S, k, v, n) ==
  LET T == TargetSize(S)
  IN [S EXCEPT !.esize[k] = n, !.coldTarget = IF @ + n > T THEN T ELSE @ + n,
               !.referenced[k] = FALSE, !.val[k] = v, !.ptype[k] = "hot"]

\* Mutant: a ghost hit does not take the ghost out of the test counts.
SetGhostKeepCounts(S, k, v, n) ==
  Admitted(MetaAdd(Revive(MetaDel(Drop(S, S.val[k]), k), k, v, n), k), k, "hot")

\* Set, case test page: the ghost is unlinked, then re-added as hot.
SetGhost(S, k, v, n) ==
  Admitted(MetaAdd(Revive(MetaDel(Drop(Uncount(S, k), S.val[k]), k), k, v, n), k),
           k, "hot")

\* shard.Set under the lock, inserting Value v of n bytes for key k.
SetLocked(S, k, v, n) ==
  CASE k \notin S.blocks -> SetAbsent(S, k, v, n)
    [] S.val[k] # NULL   -> SetResident(S, k, v, n)
    [] OTHER             -> SetGhost(S, k, v, n)

\* The locked part of shard.Delete, after the optimistic check found k:
\* the key is looked up again, since the lock was dropped in between.
\* Mutant: the key is not looked up again.
DeleteLockedNoRecheck(S, k) == MetaEvict(S, k)

DeleteLocked(S, k) == IF k \in S.blocks THEN MetaEvict(S, k) ELSE S

\* evictFileRun: evict at most BlocksPerMutexAcquisition entries of file f,
\* following the file ring from its head.  Result: <<shard, moreRemaining>>.
RECURSIVE EvictFileBatch(_, _, _), EvictFileBatchNextAfterEvict(_, _, _)

\* Mutant: the successor n is read after metaEvict(b) has unlinked b.
EvictFileBatchNextAfterEvict(S, b, n) ==
  LET S1 == MetaEvict(S, b)
  IN CASE n >= BlocksPerMutexAcquisition -> <<S, TRUE>>
       [] S1.fnext[b] = b                -> <<S1, FALSE>>
       [] OTHER                          -> EvictFileBatch(S1, S1.fnext[b], n + 1)

EvictFileBatch(S, b, n) ==
  CASE n >= BlocksPerMutexAcquisition -> <<S, TRUE>>
    [] S.fnext[b] = b                 -> <<MetaEvict(S, b), FALSE>>
    [] OTHER                          -> EvictFileBatch(MetaEvict(S, b), S.fnext[b], n + 1)

\* Mutant: evictFileRun reports nothing remaining after a full batch.
EvictFileRunOneBatch(S, f) ==
  IF S.files[f] = NULL THEN <<S, FALSE>>
  ELSE <<EvictFileBatch(S, S.files[f], 0)[1], FALSE>>

\* Mutant: evictFileRun reports more remaining when the file has no blocks.
EvictFileRunNoneMeansMore(S, f) ==
  IF S.files[f] = NULL THEN <<S, TRUE>> ELSE EvictFileBatch(S, S.files[f], 0)

EvictFileRun(S, f) ==
  IF S.files[f] = NULL THEN <<S, FALSE>> ELSE EvictFileBatch(S, S.files[f], 0)

\* shard.EvictFile(f): evictFileRun until it reports nothing remaining.
\* Each evictFileRun is its own critical section; r is its result, S the
\* shard before it, whose collected Values are carried along.
RECURSIVE EvictFileLoop(_, _), EvictFileNext(_, _, _)
EvictFileNext(r, S, f) ==
  LET S1 == [r[1] EXCEPT !.dropped = @ \cup S.dropped, !.obsolete = @ \cup S.obsolete]
  IN IF r[2] THEN EvictFileLoop(S1, f) ELSE S1

EvictFileLoop(S, f) == EvictFileNext(EvictFileRun(Begin(S), f), S, f)

\* shard.Reserve(n): the target shrinks (n < 0: grows back), coldTarget is
\* clamped to it, then evict.
ClampColdTarget(S) ==
  LET T == TargetSize(S)
  IN [S EXCEPT !.coldTarget = IF @ > T THEN T ELSE @]

\* Mutant: Reserve does not clamp coldTarget to the new target size.
ReserveLockedNoClamp(S, n) == Evict([S EXCEPT !.reservedSize = @ + n])

ReserveLocked(S, n) == Evict(ClampColdTarget([S EXCEPT !.reservedSize = @ + n]))

\* shard.Free, the teardown: while handHot is not nil, metaDel the entry
\* under it, release its Value (under the lock) and free the entry.  The
\* counts and sizes are not touched: the shard is dead afterwards.
\* Mutant: the Value metaDel returns is not released.
FreeHotKeepValue(S, e) == FreeEntry(MetaDel(S, e), e)

FreeHot(S, e) == FreeEntry(Drop(MetaDel(S, e), S.val[e]), e)

RECURSIVE ShardFree(_)
ShardFree(S) == IF S.handHot = NULL THEN S ELSE ShardFree(FreeHot(S, S.handHot))

=============================================================================
