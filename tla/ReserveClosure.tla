---------------------------- MODULE ReserveClosure ----------------------------
(***************************************************************************)
(* Cache.Reserve(n) and the release closure it returns, called by         *)
(* several goroutines.  The closure's state is the captured variable      *)
(* shardN, which it reads in its guard and again for every shard, and     *)
(* writes last; nothing synchronises those accesses.  A shard's Reserve   *)
(* takes the shard lock and is one step; a read or write of shardN is     *)
(* one step and sees the last value written (a word-sized Go int).  A     *)
(* panic ends the process.                                                 *)
(*                                                                         *)
(*   reserved - each shard's reservedSize                                  *)
(*   shardN   - the closure's captured shardN, -1 once released            *)
(*   phase    - "reserve" before Cache.Reserve returned, then "returned"  *)
(*   pc       - each caller of the closure: "check", "loop", "done",       *)
(*              "panicked"                                                 *)
(*   at       - the shard each caller's loop is at                         *)
(***************************************************************************)
EXTENDS Integers

CONSTANTS
  NumShards,  \* len(c.shards)
  N,          \* the n given to Cache.Reserve
  Callers     \* goroutines that call the closure

VARIABLES reserved, shardN, phase, pc, at

vars == <<reserved, shardN, phase, pc, at>>

Shards == 0 .. NumShards - 1

\* shardN := (n + len(c.shards) - 1) / len(c.shards)
Share == (N + NumShards - 1) \div NumShards

Init ==
  /\ reserved = [i \in Shards |-> 0]
  /\ shardN = 0
  /\ phase = "reserve"
  /\ pc = [t \in Callers |-> "check"]
  /\ at = [t \in Callers |-> 0]

Alive == \A t \in Callers : pc[t] # "panicked"

\* Cache.Reserve: shard i's Reserve(shardN) for every i, before the
\* closure is returned to anybody.
Reserve ==
  /\ phase = "reserve"
  /\ shardN' = Share
  /\ reserved' = [i \in Shards |-> reserved[i] + Share]
  /\ phase' = "returned"
  /\ UNCHANGED <<pc, at>>

\* if shardN == -1 { panic(...) }
Check(t) ==
  /\ Alive
  /\ phase = "returned"
  /\ pc[t] = "check"
  /\ pc' = [pc EXCEPT ![t] = IF shardN = -1 THEN "panicked" ELSE "loop"]
  /\ UNCHANGED <<reserved, shardN, phase, at>>

\* c.shards[i].Reserve(-shardN), shardN read anew.
ReleaseShard(t) ==
  /\ Alive
  /\ pc[t] = "loop"
  /\ at[t] < NumShards
  /\ reserved' = [reserved EXCEPT ![at[t]] = @ - shardN]
  /\ at' = [at EXCEPT ![t] = @ + 1]
  /\ UNCHANGED <<shardN, phase, pc>>

\* shardN = -1 after the loop.
Clear(t) ==
  /\ Alive
  /\ pc[t] = "loop"
  /\ at[t] = NumShards
  /\ shardN' = -1
  /\ pc' = [pc EXCEPT ![t] = "done"]
  /\ UNCHANGED <<reserved, phase, at>>

Next ==
  \/ Reserve
  \/ \E t \in Callers : Check(t) \/ ReleaseShard(t) \/ Clear(t)

Spec == Init /\ [][Next]_vars

\* The closure is one-shot: a second call panics before it gives anything
\* back (a double release of a reservation is a fatal, detected contract
\* violation), so every shard's reservation is given back at most once and
\* reservedSize never drops below what the other reservations hold.
ReservationReleasedOnce == \A i \in Shards : reserved[i] \in {0, Share}

====
