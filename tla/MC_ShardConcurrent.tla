------------------------- MODULE MC_ShardConcurrent -------------------------
(* Model-checking instance of ShardConcurrent: two goroutines in Delete or *)
(* EvictFile beside the other callers, over two files of two blocks.      *)
EXTENDS ShardConcurrent, TLC

MCOffsets == {0, 1}

\* lastCall and lockReleased are written by every step and read by no
\* action and by none of the properties checked here.
MCView == <<shard, refs, vsize, owned, held, reservations, th, untouched>>

\* Values, goroutines and files are interchangeable (safety runs only).
MCSymmetry == Permutations(Values) \cup Permutations(Threads) \cup Permutations(Files)

=============================================================================
