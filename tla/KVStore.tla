------------------------------ MODULE KVStore ------------------------------
(***************************************************************************)
(* What a durable key-value store promises its callers: Insert(k, v)      *)
(* either reports success and afterwards k maps to v, or reports an error *)
(* and changes nothing; Get(k) returns what k maps to, or an error (not   *)
(* found, or an I/O error); a crash and restart loses nothing that was    *)
(* reported inserted.  A store may keep only some kinds of value (Kept):  *)
(* an Insert of any other value is acknowledged and stores nothing.       *)
(*                                                                         *)
(*   dict - the mapping, Missing where a key was never inserted           *)
(*   call - the last call and its result: [op, key, val, ret]             *)
(***************************************************************************)
CONSTANTS Keys, Vals, Kept, Missing, Ok, Err

VARIABLES dict, call

kvars == <<dict, call>>

KVInit ==
  /\ dict = [k \in Keys |-> Missing]
  /\ call = [op |-> "none", key |-> Missing, val |-> Missing, ret |-> Ok]

Insert(k, v) ==
  \/ /\ dict' = IF v \in Kept THEN [dict EXCEPT ![k] = v] ELSE dict
     /\ call' = [op |-> "Insert", key |-> k, val |-> v, ret |-> Ok]
  \/ /\ call' = [op |-> "Insert", key |-> k, val |-> v, ret |-> Err]
     /\ UNCHANGED dict

Get(k) ==
  /\ call' \in {[op |-> "Get", key |-> k, val |-> Missing, ret |-> r] :
                  r \in {Err} \cup ({dict[k]} \ {Missing})}
  /\ UNCHANGED dict

\* The process stops (a crash, or a call that never returns) in the middle
\* of an Insert(k, v): the mapping survives, with or without the write.
Stop(k, v) ==
  /\ dict' \in {dict, [dict EXCEPT ![k] = v]}
  /\ call' = [op |-> "Stop", key |-> Missing, val |-> Missing, ret |-> Err]

KVNext ==
  \E k \in Keys :
    \/ Get(k)
    \/ \E v \in Vals : Insert(k, v) \/ Stop(k, v)

KVSpec == KVInit /\ [][KVNext]_kvars

====
