# TLA+ models of vecble: the pebble block cache, the storage wrapper and the Redis-protocol servers

This directory checks the stateful and concurrent code of the repository
with TLC:
- the block cache in `src/internal/pebble/pebble/internal/cache/clockpro.go`;
- the storage wrapper in `src/internal/storage/object.go`;
- the two versions of the Redis-protocol server: `src/cmd/main.go`, and the
  one with graceful shutdown in `src/unnamed/part_000`.

## The system and its parts

| Part | Source | What it does | Modules |
|---|---|---|---|
| shard: CLOCK-Pro | clockpro.go 82-618 | A map from keys to entries. Entries sit on one circular ring that three hands sweep (hot, cold, test). Each file also has its own ring. Operations: Get, Set, Delete, EvictFile, Reserve, Free (teardown). Each runs under the shard's RWMutex. | `ClockPro` (critical sections), `Shard` (operations and callers), `ShardConcurrent` (goroutines interleaving inside Delete and EvictFile) |
| entry / lists | entry.go (not in the repo) | Intrusive `blockLink`/`fileLink`, `setValue`, `free`. | `ClockPro` helpers, modelled from spec.md §4.2 |
| Value / Handle | value.go (not in the repo), clockpro.go 77-80, 865-882 | Manually refcounted buffers: Alloc, Free, Handle.Release. | `Shard`, `Cache` (`refs`, `owned`, `held`); `ShardMisuse` (callers that break the contract) |
| Cache façade | clockpro.go 700-924 | Shards selected by an FNV hash. Ref/Unref with teardown, Reserve spread over the shards with a one-shot release closure, NewID. | `ShardHash` (getShard), `Cache` (composition), `ReserveClosure` (concurrent calls of the closure) |
| storage wrapper | internal/storage/object.go | Insert serialises a `[]float64` to little-endian bytes and stores it in pebble with Sync; Get reads it back. | `Storage`, refining `KVStore` |
| Redis server, first version | cmd/main.go | One goroutine per connection reads RESP lines, parses them and answers PING. | `RespServer` |
| Redis server with graceful shutdown | unnamed/part_000 | Accept loop, SET/GET/PING handlers on a shared pebble db, and a shutdown goroutine (close the listener, wg.Wait, db.Flush, os.Exit). | `GracefulServer` |
| older storage copy, locked map, tests, client | unnamed/part_001..003 | See "Not modelled". | none |

How the parts interact: the servers call pebble, and pebble calls the
`Cache`. The storage wrapper also calls pebble. The `Cache` sends each key to
one shard, chosen by `getShard`. A shard's critical section moves Value
references between three owners: the caller (after Alloc), the entries
(after Set), and Handles (from Get and Set). Some references are released
under the lock. Others are collected as "obsolete" and released after
unlocking. Delete and EvictFile drop the lock part-way, and other goroutines
run in between. In the servers, pebble is abstracted to a map whose Set may
fail. A store whose writes are not synced (`Sync: false`) loses them at
exit unless db.Flush ran after them.

## Modules

- **`ClockPro.tla`**: the algorithm. It has no variables. The whole shard is
  one record `S`:
  - the rings are successor functions `next` and `fnext` over keys;
  - the hands are keys;
  - `size` and `count` are indexed by page type.

  Each critical section of clockpro.go is a pure operator `S -> S`. The
  operators carry the code's names: `MetaAdd`, `MetaDel`, `MetaEvict`,
  `Evict`, `RunHandCold`, `RunHandHot`, `RunHandTest`, `SetLocked` (split into
  `SetAbsent`, `SetResident`, `SetGhost`), `DeleteLocked`, `EvictFileRun`,
  `EvictFileLoop`, `ReserveLocked`, and `ShardFree` (shard.Free, the
  teardown).

  The sweep's mutually recursive loops are RECURSIVE operators. A step
  counter (`steps`, capped at `MaxHandSteps`) turns a non-terminating sweep
  into the flag `stuck`, so that TLC does not loop forever.

  References released under the lock are collected in `dropped`. Values to be
  released after unlocking are collected in `obsolete`.

  Each multi-step handler is a chain of small operators that take the
  previous step's shard as a parameter. For example, `RunHandHot(S0) ==
  HotStep(HotTestFirst(Tick(S0)))` is: tick, run the test hand first if the
  hands meet, then the page under the hand and the advance. The chain is
  used instead of a LET name referred to several times. TLC's coverage
  profiler expands a LET definition at every use, which is exponential for
  the nested sweep.

- **`Shard.tla`**: one shard and its callers. The variables are `shard`,
  `refs`, `vsize`, `owned`, `held`, `reservations` and `freed` (the shard
  has been torn down by `shard.Free`). The auxiliary variables
  are `lockReleased` and `lastCall`. There is one action per operation:
  - the shard operations `Get`, `Set`, `Delete`, `EvictFile`, `Reserve` and
    `ReleaseReservation` (the closure, i.e. `Reserve(-n)`);
  - the Value operations `Alloc`, `Free` and `Release` (Handle.Release);
  - `Teardown`, `shard.Free` (lines 310-324): every entry is unlinked and its
    Value released under the lock. No shard operation follows it, while
    Handles and Values stay usable.

  A shard action is its whole call: the locked section, then the releases
  made after unlocking. EvictFile loops over `evictFileRun` batches of
  `BlocksPerMutexAcquisition` until nothing of the file remains.

- **`ShardConcurrent.tla`**: goroutines (`Threads`) inside Delete and
  EvictFile, split where the code gives up the lock:
  - Delete: the read-locked existence check (line 232), the locked
    `metaEvict` that looks the key up again (244-248), and the release after
    unlocking;
  - EvictFile: each `evictFileRun` batch under the lock, the deferred release
    of its Values, and the next batch while it reported more (lines 259-262).

  Get, Set, Alloc, Free and Handle.Release run between those steps as single
  steps. The auxiliary `untouched` records, for each EvictFile, the file's
  blocks cached at its start that no Set has touched since. `Reserve` is not
  among the interleaved calls: it holds the lock for its whole body and
  touches no key.

- **`ShardMisuse.tla`**: `Shard` plus callers that break the Value contract
  as far as the code's checks let them. `SetUnowned` Sets a Value the caller
  does not own whenever `refs == 1` (line 137). `FreeUnowned` Frees one
  whenever `refs > 1` is false (line 878).

- **`ShardHash.tla`**: `Cache.getShard` (lines 779-799). The uint64 hash is a
  tuple of eight bytes. Multiplication is schoolbook per byte, with the carry
  out of byte 8 dropped, so it wraps at exactly 2^64. Each iteration of the
  three loops is one step (`Round`), and `Pick` takes `h % len(shards)`. The
  auxiliary `ref` folds a reference FNV-1 over the key's 24 little-endian
  bytes on a different representation (16-bit limbs, with the prime taken
  as 2^40 + 435). Step-per-iteration is also what keeps TLC working: a
  24-deep recursive fold overflows a worker's stack, because TLC evaluates
  operator arguments lazily.

- **`Cache.tla`**: the façade over `NumShards` shard records. The routing
  `ShardOf` comes from `MC_CacheRoute`, a table of getShard's result for
  MC_Cache's four keys and two shards. `shard_hash` runs getShard on those
  keys too, under `ShardIndexIsFnv1`; the table itself is an input, not a
  checked property. Actions: Get, Set, Delete, EvictFile (every shard in
  turn), `Ref`, `Unref`, `UnrefLast` (refs reach 0: `shard.Free` on every
  shard), `NewID`, `Reserve` (`shardN = ceil(n / shards)` on every shard) and
  `ReleaseReservation` (the closure: `Reserve(-shardN)`, then `shardN = -1`).
  Alloc, Free and Handle.Release work as in `Shard`.

- **`BlockCache.tla`**: the abstract promise of a cache, independent of the
  replacement policy:
  - Get returns the cached Value;
  - Set caches v or declines, and otherwise only drops keys;
  - Delete removes exactly its key;
  - EvictFile removes exactly the file's keys;
  - Close empties it.

  `Shard` implements it through `INSTANCE BlockCache WITH cache <- Cached,
  call <- lastCall`, checked as `ImplementsBlockCache`. `Cache` implements it
  over all shards, checked as `CacheImplementsBlockCache`.

- **`ReserveClosure.tla`**: `Cache.Reserve(n)` and its release closure
  (lines 887-903), called by several goroutines. Each access to the captured
  `shardN` is a step: the guard's read, one read per shard in the loop, and
  the final write of -1. Each shard's `Reserve` is atomic, since it holds the
  shard lock. A panic ends the process.

- **`KVStore.tla`**: the abstract durable key-value store. Insert stores v
  with Ok or returns Err and changes nothing. A value outside the constant
  `Kept` is acknowledged with Ok and not stored. Get returns the stored value,
  or Err. A crash (Stop) leaves a write either done or not. Storage's
  database always survives a crash (the code writes with Sync: true), so
  this part of the refinement is assumed durability, not a result.

- **`Storage.tla`**: object.go over pebble. The variables are `db` (key to
  byte sequence, or NotFound), `running`, and the auxiliary `call`.
  - Values are IEEE bit patterns in four 16-bit limbs, since TLC integers are
    32-bit.
  - `PutUint64` and `Uint64` are the little-endian byte conversions.
  - `SerializeFloat64Array` and `DeserializeFloat64Array` are the code's
    loops, including the length check.
  - Insert has three actions: `InsertOther` (not an array: nil, nothing
    stored), `InsertPanic` (the `.([]float64)` assertion fails on an
    `[]int` array) and `InsertArray` (db.Set with Sync, which may fail).
  - `Get` returns db.Get's bytes deserialised, or an error.
  - `Crash` happens anywhere, including inside an array Insert's db.Set,
    which is then either applied or not. `Restart` follows it.

  `Storage` implements `KVStore` through `INSTANCE KVStore WITH dict <-
  Stored, Kept <- FloatArrays`. `Stored` is what Get would return for every
  key, and `FloatArrays` are the values Insert stores. A second instance,
  `KVAll`, keeps every Object, as the comment on Insert promises; the
  storage_untyped configuration shows that Storage does not implement it
  (`StorageKeepsEveryObject`).

- **`RespServer.tla`**: one connection of cmd/main.go. `parseRESP` uses an
  undeclared `reader`; as in part_000, it is taken to be the connection's
  reader. A line is abstracted to what `TrimSpace`, `HasPrefix` and
  `ToUpper`/`ToLower` tell apart: array header, bulk length, a word in some
  case, or empty.
  - Every `ReadString` is a step. `ReadLine` is the loop's read plus the
    prefix check. `ReadCommand`, `ReadArgLength` and `ReadArg` are
    parseRESP's reads. `Write` is conn.Write and its error check.
  - A read blocks while the client is open and nothing is buffered. It
    returns "" with EOF once the client has half-closed or closed.
  - The client sends its script, may half-close (`CloseWrite`), or may
    close. The first write after a close succeeds and the peer resets; the
    next write fails.

- **`GracefulServer.tla`**: part_000 as goroutines.
  - main: `Accept` then `AddAndGo` (wg.Add, go handleConnection), as two
    steps.
  - The shutdown goroutine: `Signal` (the signal arrives, close(quitCh)),
    `CloseListener`, `WaitDone` (wg == 0), `Flush` (persists the applied SETs,
    or fails unnoticed) and `Exit`. After Exit nothing runs.
  - Each handler: `Serve` (parseRESP of a whole request plus handleCommand:
    SET applies to `mem` or fails; GET returns the value, `$-1` or an I/O
    error; PING answers +PONG), `WriteResponse` and `ParseError` (EOF after
    the client closed: return, conn.Close, wg.Done).
  - Clients: `Dial`, `Send`, `Close`.

  `applied`, `acked` and `flushed` record which SETs the db took, which
  reached their client as +OK, and which the flush covered.

- **MC modules** (`MC_Shard`, `MC_ShardConcurrent`, `MC_ShardMisuse`,
  `MC_ShardHash`, `MC_Cache`, `MC_CacheRoute`, `MC_Storage`, `MC_RespServer`,
  `MC_GracefulServer`): offsets, symmetry over Values
  and Files, and VIEWs. Each VIEW leaves out only auxiliary variables that
  every step writes fresh and that are read only primed.

## Runs

| Run | Config | Result | What it shows |
|---|---|---|---|
| shard_small | `MC_Shard.cfg` | pass | All invariants and the refinement hold for every sequence of calls. Setup: 2 files × 2 offsets, 2 Values of 1 or 2 bytes, MaxSize 3, one reservation of 2, batches of 1. |
| shard_concurrent_safety | `MC_ShardConcurrentSafety.cfg` | pass | Two goroutines in Delete or EvictFile, interleaved with every other call. Counts stay exact (including releases owed after unlocking), and a finished EvictFile leaves none of the file's untouched blocks. |
| shard_concurrent_liveness | `MC_ShardConcurrent.cfg` | pass | Every started Delete and EvictFile returns, provided callers do not Set blocks of a file while it is being evicted. |
| shard_hash | `MC_ShardHash.cfg` | pass | getShard computes FNV-1 of the key's 24 bytes mod the shard count, wrap-around included, including MC_Cache's keys with 2 shards. |
| cache | `MC_Cache.cfg` | pass | 2 shards behind getShard's routing, with Ref/Unref down to teardown, NewID and a rounded-up reservation. Counts match owners, each shard holds back exactly the covering share of each live reservation, and the cache refines BlockCache. |
| shard_budget | `MC_Shard_BudgetRespected.cfg` | violation | spec.md's `sizeHot + sizeCold <= targetSize` is false after an insertion, because `metaAdd` evicts *before* linking (line 366). |
| shard_free_under_lock | `MC_Shard_FreeOnlyAfterUnlock.cfg` | violation | spec.md §5 says no Value is freed under the shard lock. Set replacing a resident Value (line 165) and cold-hand demotion (line 547) release the last reference while holding it. |
| storage | `MC_Storage.cfg` | pass | Over inserts of float arrays, int arrays and int Objects, failed writes, crashes and restarts, the wrapper refines `KVStore` as a store of float64 arrays that acknowledges and drops other values. |
| resp_half_close | `MC_RespServer_HalfClose.cfg` | violation | After a half-close the handler loops forever: EOF is ignored, and every pass writes an error. |
| graceful_server | `MC_GracefulServer.cfg` | pass | When clients eventually close, a signalled server always exits. |
| graceful_late_ack | `MC_GracefulServer_LateAck.cfg` | violation | A SET acknowledged after `db.Flush` can be lost at exit: wg.Add comes after Accept, and can come after Wait returned. |
| reserve_closure_race | `MC_ReserveClosure_Race.cfg` | violation | Two concurrent calls of the release closure both pass `shardN == -1` (line 895). Shard 0's reservation goes to -2, with no panic. |

Further configurations. These are checked the same way and give the
results shown, but are not among the runs listed in PROJECT.json:

| Configuration | Config | Result | What it shows |
|---|---|---|---|
| shard_wide | `MC_ShardWide.cfg` | pass | Three 1-byte Values in a 2-byte shard. The ring reaches 4 entries with several ghosts, and a reservation floors the target at 1. Rings, counts, termination and overshoot stay right. |
| evictfile_starves | `MC_ShardConcurrent_EvictFileStarves.cfg` | violation | Without that caller contract, EvictFile need not return (finding below). |
| misuse_set | `MC_ShardMisuse_Set.cfg` | violation | Set's `refs == 1` check does not catch a Value already owned elsewhere. |
| misuse_free | `MC_ShardMisuse_Free.cfg` | violation | Free's `refs > 1` check does not catch freeing a Value a cache entry still holds. |
| cache_teardown_under_lock | `MC_Cache_TeardownUnderLock.cfg` | violation | The last Unref's `shard.Free` (line 318) releases a Value held only by the cache under the shard lock, against §5. |
| storage_untyped | `MC_Storage_Untyped.cfg` | violation | `StorageKeepsEveryObject`: Insert of a non-array Object returns nil but stores nothing. |
| resp_server | `MC_RespServer.cfg` | pass | After the client closes, the handler returns (write, reset, failed write). |
| resp_ping | `MC_RespServer_Ping.cfg` | violation | A RESP `*1 $4 PING` is answered `-ERR unknown command`. |
| graceful_idle_client | `MC_GracefulServer_IdleClient.cfg` | violation | One idle client blocks `wg.Wait` forever. |

Properties of the passing runs and configurations:

- `RefsAccountedFor`, `RefsAccountedForConcurrent`, `CacheRefsAccountedFor`:
  each count equals caller + entries + handles (+ goroutines owing a release
  after unlocking).
- `CountsMatchRing`: the incremental sizes and counts equal a recount of the
  ring, as long as the shard is in use (`shard.Free` leaves them stale).
- `RingsWellFormed`: the block ring and every file ring are single cycles
  over the right keys (no two entries share a `next` or an `fnext`), and
  the hands are on them.
- `GhostsHoldNoValue`: test pages hold no Value.
- `EvictionTerminates`: the sweep always ends.
- `BoundedOvershoot`: the resident size is below target plus one entry,
  while the shard is in use. This
  is what holds in place of the spec's budget invariant.
- `ColdTargetInRange`: 0 <= coldTarget <= target.
- `EvictFileRemovesFile`: a finished EvictFile removed every block of the
  file that no Set touched meanwhile.
- `CallsReturn`: Delete and EvictFile return (liveness).
- `ShardIndexIsFnv1`: getShard is FNV-1 of the key bytes mod the shard
  count.
- `ReservationsBalanced`: each shard's `reservedSize` is the sum of
  `ceil(n / shards)` over the unreleased reservations.
- `ImplementsBlockCache`, `CacheImplementsBlockCache`: the refinements.
- `StorageImplementsKVStore`: the refinement of the storage wrapper into a
  `KVStore` whose `Kept` values are the float64 arrays.
- `ClosedConnectionEnds`: the main.go handler ends once the client closed
  (liveness).
- `ShutdownCompletes`: a signalled part_000 server exits (liveness).
- `RespTypeOK`: the responses main.go can write.
- Type invariants `TypeOK`, `CTypeOK`, `CacheTypeOK`.

Every property of a listed passing run has a mutant in PROJECT.json that
breaks it.

## Findings

- **Budget.** `sizeHot + sizeCold <= targetSize` (spec §3, §8) fails after
  an insertion. The excess is below one entry (`BoundedOvershoot`).
- **Freeing under the lock.** Set of a resident key (line 165) and cold-page
  demotion (line 547) can free a buffer under the shard lock, against §5.
- **EvictFile can starve.** `for c.evictFileRun(fkey)` (line 259) drops the
  lock between batches. A goroutine that keeps Setting blocks of the file
  keeps it looping forever, against §5's "no operation suspends
  indefinitely". It holds under the (unstated) contract that an evicted file
  is no longer written.
- **Ownership checks are weaker than the spec says.** A Value whose only
  reference is a cache entry, once its Handles are released, has refs == 1.
  Set accepts it (line 138) and Free frees it (line 878). Spec §4.3 and §6
  present these checks as detecting such misuse.
- **Hash name.** spec.md calls the hash "FNV-1a style". The code
  multiplies before it xors, which is FNV-1. `ShardIndexIsFnv1` pins the
  order.
- **Shard skew.** With a power-of-two shard count, `h % 2^k` depends only
  on the low k bits of each key byte. Offsets 0 and 4096 of a file always
  share a shard. This follows from the arithmetic (multiplication and xor
  carry nothing downward), so it is noted here rather than checked.
- **Teardown frees under the lock.** `shard.Free` (line 318) releases every
  entry's Value inside its critical section. This is a third path against
  §5. Run shard_free_under_lock reaches it through Shard's `Teardown`, and
  cache_teardown_under_lock through the last Unref of a Cache.
- **The reservation closure's check races.** The `shardN == -1` guard and the
  `shardN = -1` write are unsynchronised. Two concurrent calls both pass the
  guard and give the reservation back twice. The second may even give back
  `-(-1)`. spec.md §7 counts a double release among the detected fatal
  contract violations.
- **Storage.Insert stores only `[]float64`.** The comment at object.go:133
  promises int, float32 and float64 slices. A non-array Object returns nil
  and stores nothing. An array of `[]int` panics at line 136.
- **cmd/main.go ignores the read error (line 59).** After a client
  half-closes, the handler loops forever writing `-ERR unknown command`.
  Separately, parseRESP reads the `$4` line as the command (line 99, whose
  comment says it reads "PING"), so a RESP PING is never answered `+OK`. As
  given, the file does not compile (`reader` is undeclared in parseRESP).
- **part_000's graceful shutdown is neither graceful nor sure to end.**
  - `close(quitCh)` (line 75) notifies nobody. A client that stays
    connected blocks `wg.Wait` forever, and later signals are swallowed.
  - `wg.Add(1)` (line 88) runs after Accept. It can come after Wait returned
    at zero, so a SET can be acknowledged after `db.Flush`. Nothing then
    makes it durable before `os.Exit` (Sync: false): it survives only if
    pebble's WAL write reaches the disk anyway.
  - Flush's error is not looked at.

## Bounds

- Shard runs: two offsets per file and two files give four keys. That is
  enough for both file rings and one batch boundary (batch size 1). MaxSize 3
  with sizes {1,2} makes evictions, ghosts, ghost re-admission and declined
  insertions reachable. The wide config is needed for four entries at once
  and multiple ghosts. `MaxHandSteps` (40) is far above the longest
  terminating sweep of these sizes. A sweep that reaches the cap is reported
  as `stuck`.
- Concurrent runs: two goroutines for safety (both inside the shard at
  once: Delete against EvictFile, EvictFile against EvictFile). One for
  liveness, where the other callers' steps supply the interference.
- Hash: IDs, file numbers and offsets chosen so that every byte position,
  carries and wrap-around matter (including 2^31-1 and 65793 = 0x10101),
  with shard counts 4, 12 and 16.
- Cache: 2 shards. `New` never makes fewer than 4, but 2 shards route the
  four keys to both shards, and 4 shards did not finish within half an
  hour. Shards share no state, so more of them add only interleavings of
  independent steps. One reservation amount, 3, is not a multiple of 2, so
  the rounding up matters.

- Reserve closure: 2 shards, n = 3, two callers. That is the least that
  lets both callers be inside the loop at once.
- Storage: two keys. Float patterns: -0.0 (sign bit only), 1.0, and
  0x0102030405060708, whose eight bytes are all distinct, so any wrong byte
  order or stride shows. Arrays hold up to 2 elements, so the stride
  between elements matters. The storage run drops 1.0, since with the
  refinement 3 patterns take over 6 minutes.
- RespServer: two scripts. One is a RESP PING followed by a GET; the other
  is an array header with a lower-case command, a bulk argument and an
  inline PING. Together they reach every parse branch, with every client
  close point interleaved.
- GracefulServer: two connections, one key and one value. The two scripts
  are one SET, and a GET followed by a PING. Two connections allow one
  handler to be running while another connection is accepted late.

## Fairness

`ShardConcurrent`'s `CSpec` gives weak fairness to each goroutine's steps
inside Delete or EvictFile (`ThreadStep(t)`). Those steps wait only for the
shard lock. Go's `sync.RWMutex` and scheduler hand the lock to every waiter
in time (a waiting writer blocks new readers). The callers themselves get
no fairness: they may stop calling at any time.

`RespServer`'s `Spec` gives weak fairness to the handler goroutine
(`Server`): the Go scheduler runs every runnable goroutine. A blocked read
is not enabled, so this fairness never forces a read that would block. The
client gets no fairness.

`GracefulServer`'s `Spec` gives weak fairness to the goroutines: main
(`Accept`, `AddAndGo`), the shutdown goroutine after the signal, and every
handler. The signal and the clients owe nothing. The exception is that the
constant `ClientsLeave` adds weak fairness to each client's `Close`: TRUE in
graceful_server, FALSE in graceful_idle_client.

Every other run checks safety only.

## Not modelled

- `New`'s shard count (arithmetic on GOMAXPROCS), `MaxSize`, `Size`,
  `Metrics` and the hit/miss counters: they are read-only or statistics.
  The Cache runs use `newShards` directly, as the tests do.
- The finalizer, which only reports leaks.
- Calls on different shards interleaving inside `Cache.EvictFile` or
  `Cache.Reserve`. Shards share no state. Inside a shard, `ShardConcurrent`
  covers the interleavings.
- The teardown leaves `size`/`count` of a freed shard stale. No operation
  runs after `Teardown`, so this is not observable, and `CountsMatchRing`
  and `BoundedOvershoot` are stated for a shard in use.
- object.go: `Search` (a stub that returns nil), `calculateDistance`
  (float arithmetic nothing calls) and `Object.String` (formatting).
- cmd/main.go's accept loop: it only starts handlers, which share no
  state. part_000's accept loop spins on errors after `listener.Close`; that
  changes no state, so it is a stutter.
- Request parsing in part_000 is abstracted to whole requests, since RESP
  framing is what `RespServer` models. The protocol's payload formatting
  (`$len\r\n...`) is left out.
- `unnamed/part_001` is an older copy of the storage wrapper (raw bytes,
  one db call per operation).
- `unnamed/part_002` is `MapKeyValue`, whose Get and Set are each one
  RWMutex critical section over a Go map, plus an sstable test-data
  generator (I/O).
- `unnamed/part_003` is compression unit tests, plus a client that calls
  Storage with array Objects and drops the errors. Its calls are those of
  run storage.
