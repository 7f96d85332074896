------------------------------ MODULE MC_Shard ------------------------------
(* Model-checking instance of Shard: two files of two blocks each, blocks *)
(* of 1 or 2 bytes in a 3-byte shard, so that two blocks already exceed  *)
(* the target and every hand runs.                                        *)
EXTENDS Shard, TLC

MCOffsets == {0, 1}

\* The auxiliary variables lastCall and lockReleased are read only primed,
\* by the properties; no action reads them, so states that differ in them
\* alone have the same successors and need not be told apart.
MCView == <<shard, refs, vsize, owned, held, reservations, freed>>

\* Values and files are interchangeable.
MCSymmetry == Permutations(Values) \cup Permutations(Files)

=============================================================================
