----------------------------- MODULE MC_Storage -----------------------------
(* Model-checking instance of Storage: arrays of up to two float64s.       *)
EXTENDS Storage

\* Bit patterns of -0.0 (0x8000000000000000), 1.0 (0x3ff0000000000000)
\* and a value whose eight bytes all differ (0x0102030405060708).
MCFloats == {<<32768, 0, 0, 0>>, <<16368, 0, 0, 0>>, <<258, 772, 1286, 1800>>}

\* The refinement is checked on -0.0 and the value with distinct bytes.
MCFloatsKV == MCFloats \ {<<16368, 0, 0, 0>>}

ArraysOf(F) == {<<>>} \cup {<<a>> : a \in F} \cup {<<a, b>> : a, b \in F}

FloatArrayObjects == {[type |-> ObjectTypeArray, val |-> Float64Slice(a)] : a \in ArraysOf(Floats)}

\* An array Object holding a []int: Insert's type assertion panics.
IntArrayObject == [type |-> ObjectTypeArray, val |-> [goType |-> "[]int", data |-> <<1>>]]

\* An int Object (ObjectTypeInt = 2): Insert stores nothing.
IntObject == [type |-> 2, val |-> [goType |-> "int", data |-> <<1>>]]

MCObjectsArrays == FloatArrayObjects \cup {IntArrayObject}

MCObjectsAll == MCObjectsArrays \cup {IntObject}

====
