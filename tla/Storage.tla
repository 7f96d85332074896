------------------------------ MODULE Storage ------------------------------
(***************************************************************************)
(* The storage wrapper of internal/storage/object.go over a pebble        *)
(* database: Insert serialises a []float64 to 8 little-endian bytes per   *)
(* element and stores it synchronously; Get reads the bytes back and      *)
(* deserialises them.  pebble itself is a map from keys to byte strings   *)
(* whose Set is atomic and, with Sync, durable once it returns.           *)
(*                                                                         *)
(* A float64 is its IEEE-754 bit pattern (math.Float64bits and            *)
(* Float64frombits reinterpret the same 64 bits), written as four 16-bit  *)
(* limbs, most significant first, since TLC's integers have 32 bits.  An  *)
(* Object's Value is an interface{}: a record of its dynamic Go type and  *)
(* its data.                                                               *)
(*                                                                         *)
(*   db      - the pebble database: each key's bytes, or NotFound         *)
(*   running - the process is up                                           *)
(*   call    - the last call and its result (auxiliary)                    *)
(***************************************************************************)
EXTENDS Integers, Sequences

CONSTANTS
  Keys,     \* entry keys
  Objects,  \* the Objects callers pass to Insert: [type, val]
  Floats,   \* float64 bit patterns the arrays hold
  NotFound, \* pebble.ErrNotFound
  Missing, Ok, Err

VARIABLES db, running, call

vars == <<db, running, call>>

ObjectTypeArray == 4

Call(op, k, v, r) == [op |-> op, key |-> k, val |-> v, ret |-> r]

Init ==
  /\ db = [k \in Keys |-> NotFound]
  /\ running = TRUE
  /\ call = Call("none", Missing, Missing, Ok)

(***************************************************************************)
(* serializeFloat64Array and deserializeFloat64Array.                     *)
(***************************************************************************)
\* Mutant: the high byte of each limb is not masked off.
PutUint64NoMask(u) == [j \in 1 .. 8 |-> IF (j - 1) % 2 = 0 THEN u[4 - (j - 1) \div 2]
                                                         ELSE u[4 - (j - 1) \div 2] \div 256]

\* Mutant: binary.BigEndian.PutUint64 on the writing side.
PutUint64BigEndian(u) == [j \in 1 .. 8 |-> IF (j - 1) % 2 = 0 THEN u[(j + 1) \div 2] \div 256
                                                            ELSE u[(j + 1) \div 2] % 256]

\* binary.LittleEndian.PutUint64: byte j is bits 8(j-1) .. 8j-1 of u.
PutUint64(u) == [j \in 1 .. 8 |-> IF (j - 1) % 2 = 0 THEN u[4 - (j - 1) \div 2] % 256
                                                   ELSE u[4 - (j - 1) \div 2] \div 256]

\* binary.LittleEndian.Uint64 of eight bytes.
Uint64(b) == [l \in 1 .. 4 |-> b[2 * (5 - l)] * 256 + b[2 * (5 - l) - 1]]

\* bytes := make([]byte, len(arr) * 8); element i fills bytes[i*8:(i+1)*8].
SerializeFloat64Array(arr) ==
  [j \in 1 .. Len(arr) * 8 |-> PutUint64(arr[(j - 1) \div 8 + 1])[((j - 1) % 8) + 1]]

\* Err for a length that is not a multiple of 8; otherwise element i
\* from bytes[i*8:(i+1)*8].
DeserializeFloat64Array(bytes) ==
  IF Len(bytes) % 8 # 0 THEN Err
  ELSE [i \in 1 .. Len(bytes) \div 8 |-> Uint64(SubSeq(bytes, (i - 1) * 8 + 1, i * 8))]

Float64Slice(a) == [goType |-> "[]float64", data |-> a]

(***************************************************************************)
(* storage.Insert.                                                          *)
(***************************************************************************)
\* An Object that is not an array: nothing is written and nil returned.
InsertOther(k, o) ==
  /\ running
  /\ o.type # ObjectTypeArray
  /\ call' = Call("Insert", k, o.val, Ok)
  /\ UNCHANGED <<db, running>>

\* entry.Value.Value.([]float64) of an array holding another Go type
\* panics: the process stops.
InsertPanic(k, o) ==
  /\ running
  /\ o.type = ObjectTypeArray
  /\ o.val.goType # "[]float64"
  /\ running' = FALSE
  /\ call' = Call("Stop", Missing, Missing, Err)
  /\ UNCHANGED db

\* serializeFloat64Array never fails (its error is only logged); db.Set
\* with Sync either stores the bytes or returns an error.
InsertArray(k, o) ==
  /\ running
  /\ o.type = ObjectTypeArray
  /\ o.val.goType = "[]float64"
  /\ \/ /\ db' = [db EXCEPT ![k] = SerializeFloat64Array(o.val.data)]
        /\ call' = Call("Insert", k, o.val, Ok)
     \/ /\ call' = Call("Insert", k, o.val, Err)
        /\ UNCHANGED db
  /\ UNCHANGED running

(***************************************************************************)
(* storage.Get: db.Get's error (not found, or I/O) or the deserialised    *)
(* bytes.                                                                  *)
(***************************************************************************)
GetResult(bytes) ==
  IF bytes = NotFound \/ DeserializeFloat64Array(bytes) = Err THEN Err
  ELSE Float64Slice(DeserializeFloat64Array(bytes))

Get(k) ==
  /\ running
  /\ call' \in {Call("Get", k, Missing, r) : r \in {GetResult(db[k]), Err}}
  /\ UNCHANGED <<db, running>>

(***************************************************************************)
(* The process is killed, possibly inside db.Set of an Insert(k, o), and   *)
(* restarted on the same database.                                         *)
(***************************************************************************)
Crash(k, o) ==
  /\ running
  /\ \/ UNCHANGED db
     \/ /\ o.type = ObjectTypeArray
        /\ o.val.goType = "[]float64"
        /\ db' = [db EXCEPT ![k] = SerializeFloat64Array(o.val.data)]
  /\ running' = FALSE
  /\ call' = Call("Stop", Missing, Missing, Err)

Restart ==
  /\ ~running
  /\ running' = TRUE
  /\ UNCHANGED <<db, call>>

Next ==
  \/ \E k \in Keys :
       \/ Get(k)
       \/ \E o \in Objects : InsertOther(k, o) \/ InsertPanic(k, o) \/ InsertArray(k, o)
                             \/ Crash(k, o)
  \/ Restart

Spec == Init /\ [][Next]_vars

(***************************************************************************)
(* Properties.                                                              *)
(***************************************************************************)
TypeOK ==
  /\ db \in [Keys -> Seq(0 .. 255) \cup {NotFound}]
  /\ running \in BOOLEAN
  /\ call.op \in {"none", "Insert", "Get", "Stop"}

\* What the store holds, as its callers read it back.
Stored == [k \in Keys |-> IF GetResult(db[k]) = Err THEN Missing ELSE GetResult(db[k])]

\* The values Insert stores: arrays holding a []float64.
FloatArrays == {o.val : o \in {o \in Objects : o.type = ObjectTypeArray /\ o.val.goType = "[]float64"}}

KV == INSTANCE KVStore WITH dict <- Stored, Vals <- {o.val : o \in Objects}, Kept <- FloatArrays

KVAll == INSTANCE KVStore WITH dict <- Stored, Vals <- {o.val : o \in Objects}, Kept <- {o.val : o \in Objects}

\* The wrapper is a durable key-value store of float64 arrays: after an
\* Insert of one reported nil, Get returns bit for bit the array inserted,
\* until the key is inserted again, across crashes and restarts.  The
\* serialiser and the deserialiser must agree on byte order, element
\* stride and length, and no Insert may report success without storing.
StorageImplementsKVStore == KV!KVSpec

\* Storage's doc comment: Insert stores "an Object" under a key, any kind
\* of Object.  Every Insert that reports nil is read back by Get.
StorageKeepsEveryObject == KVAll!KVSpec

====
