------------------------------ MODULE ShardHash ------------------------------
(***************************************************************************)
(* Cache.getShard: the shard of a block is an FNV-1 hash of its cache ID, *)
(* file number and offset, each taken as 8 bytes least significant first, *)
(* modulo the number of shards.  The hash is uint64 arithmetic that wraps *)
(* at 2^64; TLC's integers are 32 bits wide, so a uint64 is a tuple of   *)
(* eight bytes, least significant first, and every operation on it keeps *)
(* exactly the low 64 bits.  Each iteration of getShard's three loops is *)
(* one step, as the loop runs it; alongside, the auxiliary               *)
(* variable ref folds the reference FNV-1 over the key's bytes.           *)
(***************************************************************************)
EXTENDS Integers, Sequences, Bitwise

CONSTANT Calls  \* getShard's arguments: [id, fileNum, offset, shards]

VARIABLES
  call,   \* the arguments of this getShard call
  i,      \* iterations done, 0..24
  h,      \* the hash, a uint64 as eight bytes
  x,      \* the field the current loop shifts: id, fileNumVal or offset
  shard,  \* the index returned, -1 before
  ref     \* the reference hash of the first i key bytes (auxiliary)

vars == <<call, i, h, x, shard, ref>>

\* The constants of getShard, offset64 = 0xcbf29ce484222325 and
\* prime64 = 0x100000001b3, as byte tuples, least significant first.
Offset64 == <<\h25, \h23, \h22, \h84, \he4, \h9c, \hf2, \hcb>>
Prime64 == <<\hb3, \h01, \h00, \h00, \h00, \h01, \h00, \h00>>

\* `a * b` for uint64: the schoolbook product of the eight bytes, column
\* k summing a[i] * b[k + 1 - i], then the carries from byte 1 upward;
\* what carries out of byte 8 is lost.
RECURSIVE ColSum(_, _, _, _)
ColSum(a, b, k, j) == IF j > k THEN 0 ELSE a[j] * b[k + 1 - j] + ColSum(a, b, k, j + 1)

RECURSIVE Columns(_, _, _)
Columns(a, b, k) == IF k > 8 THEN <<>> ELSE <<ColSum(a, b, k, 1)>> \o Columns(a, b, k + 1)

RECURSIVE CarryFrom(_, _, _)
CarryFrom(c, j, carry) ==
  IF j > Len(c) THEN <<>>
  ELSE <<(c[j] + carry) % 256>> \o CarryFrom(c, j + 1, (c[j] + carry) \div 256)

MulWord(a, b) == CarryFrom(Columns(a, b, 1), 1, 0)

\* `h ^= x & 0xff`.
XorLow(w, b) == [w EXCEPT ![1] = @ ^^ (b % 256)]

\* `h % n` for a uint64 h, by Horner's rule from the most significant byte.
RECURSIVE ModWord(_, _, _)
ModWord(w, n, j) == IF j > 8 THEN 0 ELSE (ModWord(w, n, j + 1) * 256 + w[j]) % n

(***************************************************************************)
(* The reference: FNV-1 as defined for a byte string (the hash            *)
(* hash/fnv.New64 computes) of the 24 bytes of the key, on a              *)
(* different representation: four 16-bit limbs, and the product with     *)
(* prime64 = 2^40 + 435 taken as a shift plus a small multiple.            *)
(***************************************************************************)
RECURSIVE LeBytesFrom(_, _)
LeBytesFrom(v, n) == IF n = 0 THEN <<>> ELSE <<v % 256>> \o LeBytesFrom(v \div 256, n - 1)

LeBytes(v) == LeBytesFrom(v, 8)

KeyBytes(id, fileNum, offset) == LeBytes(id) \o LeBytes(fileNum) \o LeBytes(offset)

RefOffset == <<\h2325, \h8422, \h9ce4, \hcbf2>>

\* Limb j of (h << 8), nothing for j < 1.
Shl8(w, j) ==
  (IF j >= 1 THEN (w[j] % 256) * 256 ELSE 0) + (IF j >= 2 THEN w[j - 1] \div 256 ELSE 0)

\* The limbs of c with the carries propagated, the last carry lost.
Carry16(c) ==
  LET c2 == c[2] + c[1] \div 65536
      c3 == c[3] + c2 \div 65536
  IN <<c[1] % 65536, c2 % 65536, c3 % 65536, (c[4] + c3 \div 65536) % 65536>>

\* h * (2^40 + 435) mod 2^64: limb j of h << 40 is limb j - 2 of h << 8.
RefMul(w) ==
  Carry16(<<435 * w[1], 435 * w[2], Shl8(w, 1) + 435 * w[3], Shl8(w, 2) + 435 * w[4]>>)

RefXor(w, b) == [w EXCEPT ![1] = (@ \div 256) * 256 + ((@ % 256) ^^ b)]

\* A 64-bit value in limbs modulo n, by Horner's rule.
HornerStep(r, limb, n) == (r * 65536 + limb) % n

RefMod(w, n) == HornerStep(HornerStep(HornerStep(w[4] % n, w[3], n), w[2], n), w[1], n)

\* The reference's step for the next byte b.
RefStep(r, b) == RefXor(RefMul(r), b)

(***************************************************************************)
(* getShard.                                                               *)
(***************************************************************************)
Fields(c) == <<c.id, c.fileNum, c.offset>>

Init ==
  /\ call \in Calls
  /\ i = 0
  /\ h = Offset64
  /\ x = call.id
  /\ shard = -1
  /\ ref = RefOffset

\* Mutant: FNV-1a's order, the byte xored in before the multiplication
\* (spec.md calls the hash "FNV-1a style").
RoundXorFirst ==
  /\ i < 24
  /\ h' = MulWord(XorLow(h, x), Prime64)
  /\ x' = IF (i + 1) % 8 = 0 /\ i + 1 < 24 THEN Fields(call)[(i + 1) \div 8 + 1] ELSE x \div 256
  /\ i' = i + 1
  /\ ref' = RefStep(ref, KeyBytes(call.id, call.fileNum, call.offset)[i + 1])
  /\ UNCHANGED <<call, shard>>

\* One loop iteration, h *= prime64; h ^= x & 0xff; x >>= 8; after the
\* eighth the next loop starts on the next field.
Round ==
  /\ i < 24
  /\ h' = XorLow(MulWord(h, Prime64), x)
  /\ x' = IF (i + 1) % 8 = 0 /\ i + 1 < 24 THEN Fields(call)[(i + 1) \div 8 + 1] ELSE x \div 256
  /\ i' = i + 1
  /\ ref' = RefStep(ref, KeyBytes(call.id, call.fileNum, call.offset)[i + 1])
  /\ UNCHANGED <<call, shard>>

\* return &c.shards[h%uint64(len(c.shards))]
Pick ==
  /\ i = 24
  /\ shard = -1
  /\ shard' = ModWord(h, call.shards, 1)
  /\ UNCHANGED <<call, i, h, x, ref>>

Next == Round \/ Pick

Spec == Init /\ [][Next]_vars

\* The shard getShard picks is the FNV-1 hash of the key's 24 bytes, as
\* hash/fnv.New64 defines it, modulo the shard count: the inlined loops
\* take the bytes in the right order, multiply before they xor, and wrap
\* at 2^64 exactly.
ShardIndexIsFnv1 == shard # -1 => shard = RefMod(ref, call.shards)

====
