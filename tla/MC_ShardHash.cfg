CONSTANT Calls <- MCCalls
SPECIFICATION Spec
\* getShard returns after its last step: every behaviour ends.
CHECK_DEADLOCK FALSE
INVARIANT ShardIndexIsFnv1
