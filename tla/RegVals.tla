------------------------------- MODULE RegVals -------------------------------
(* The value of a register, regval_t of idd.hpp: an integer, a float or a vector   *)
(* of bytes in the same storage, which constructs and destroys the vector itself.  *)
EXTENDS Integers, FiniteSets

CONSTANTS Regs,      \* the register values
          Ints,      \* integers, and floats, that are stored
          Contents,  \* byte vectors that are stored
          MaxOps     \* bound on the operations

VARIABLES rvtype, data,  \* of each value, its type and what its storage holds
          heap,          \* the byte vectors alive, numbered, with their bytes
          known,         \* what its owner last put into a value
          ops            \* operations so far

vars == <<rvtype, data, heap, known, ops>>

RVT_INT == -1
RVT_FLOAT == -2
CUSTOM == 0      \* the custom type the setters give
Stored(as, what) == [as |-> as, what |-> what]
Bits == Stored("words", -1)      \* all bits set: what a new value has
Garbage == Stored("words", -2)   \* what a destroyed vector leaves
Integer(what) == [kind |-> RVT_INT, what |-> what]
Vectors == DOMAIN heap
Fresh == CHOOSE n \in 1 .. Cardinality(Regs) + 1 : n \notin Vectors
Construct(h, n, content) == [m \in DOMAIN h \cup {n} |-> IF m = n THEN content ELSE h[m]]
Destroy(h, n) == [m \in DOMAIN h \ {n} |-> h[m]]
BytesOf(r) == heap[data[r].what]

------------------------------------------------------------------------------
Init ==
    /\ rvtype = [r \in Regs |-> RVT_INT] /\ data = [r \in Regs |-> Bits]
    /\ heap = << >> /\ ops = 0
    /\ known = [r \in Regs |-> Integer(Bits.what)]

Step == ops < MaxOps /\ ops' = ops + 1
Know(r, kind, what) == known' = [known EXCEPT ![r] = [kind |-> kind, what |-> what]]

\* clear(): the vector is destroyed and the type becomes that of an integer; the type of
\* a float stays.
Cleared(r) == IF rvtype[r] >= 0 THEN Destroy(heap, data[r].what) ELSE heap
ClearedType(r) == IF rvtype[r] >= 0 THEN RVT_INT ELSE rvtype[r]

Clear(r) ==
    /\ Step
    /\ heap' = Cleared(r) /\ rvtype' = [rvtype EXCEPT ![r] = ClearedType(r)]
    /\ data' = [data EXCEPT ![r] = IF rvtype[r] >= 0 THEN Garbage ELSE @]
    /\ known' = [known EXCEPT ![r] = IF rvtype[r] >= 0 THEN Integer(Garbage.what) ELSE @]

\* Nobody puts an integer over a float, whose type would stay.
SetInt(r, x) ==
    /\ Step /\ rvtype[r] # RVT_FLOAT
    /\ heap' = Cleared(r) /\ rvtype' = [rvtype EXCEPT ![r] = ClearedType(r)]
    /\ data' = [data EXCEPT ![r] = Stored("words", x)]
    /\ Know(r, RVT_INT, x)

SetFloat(r, x) ==
    /\ Step
    /\ heap' = Cleared(r) /\ rvtype' = [rvtype EXCEPT ![r] = RVT_FLOAT]
    /\ data' = [data EXCEPT ![r] = Stored("words", x)]
    /\ Know(r, RVT_FLOAT, x)

SetBytes(r, content) ==
    /\ Step
    /\ \E n \in {Fresh} :
           /\ heap' = Construct(Cleared(r), n, content)
           /\ data' = [data EXCEPT ![r] = Stored("vector", n)]
    /\ rvtype' = [rvtype EXCEPT ![r] = CUSTOM]
    /\ Know(r, CUSTOM, content)

\* operator=: of the four ways two types meet, one copies a vector into the one there is,
\* one constructs a vector and one destroys it.
Assign(r, q) ==
    /\ Step
    /\ \/ /\ rvtype[q] >= 0 /\ rvtype[r] >= 0
          /\ heap' = [heap EXCEPT ![data[r].what] = BytesOf(q)]
          /\ UNCHANGED data
       \/ /\ rvtype[q] >= 0 /\ rvtype[r] < 0
          /\ \E n \in {Fresh} :
                 /\ heap' = Construct(heap, n, BytesOf(q))
                 /\ data' = [data EXCEPT ![r] = Stored("vector", n)]
       \/ /\ rvtype[q] < 0
          /\ heap' = IF rvtype[r] >= 0 THEN Destroy(heap, data[r].what) ELSE heap
          /\ data' = [data EXCEPT ![r] = data[q]]
    /\ rvtype' = [rvtype EXCEPT ![r] = rvtype[q]]
    /\ known' = [known EXCEPT ![r] = known[q]]

\* A value is destroyed, and a new one constructed in its place, as a copy or empty.
Renew(r) ==
    /\ Step
    /\ heap' = Cleared(r)
    /\ rvtype' = [rvtype EXCEPT ![r] = RVT_INT] /\ data' = [data EXCEPT ![r] = Bits]
    /\ known' = [known EXCEPT ![r] = Integer(Bits.what)]

\* qswap: the storage, with the vector in it, as it is.
Swap(r, q) ==
    /\ Step
    /\ rvtype' = [rvtype EXCEPT ![r] = rvtype[q], ![q] = rvtype[r]]
    /\ data' = [data EXCEPT ![r] = data[q], ![q] = data[r]]
    /\ known' = [known EXCEPT ![r] = known[q], ![q] = known[r]]
    /\ UNCHANGED heap

Next ==
    \/ \E r \in Regs :
           \/ Clear(r) \/ Renew(r)
           \/ \E x \in Ints : SetInt(r, x) \/ SetFloat(r, x)
           \/ \E content \in Contents : SetBytes(r, content)
    \/ \E r, q \in Regs : Assign(r, q) \/ Swap(r, q)

Spec == Init /\ [][Next]_vars

------------------------------------------------------------------------------
\* Every vector alive is in exactly one value, whose type says so: none is lost, shared or
\* destroyed twice (regval_t::operator=, clear, swap).
VectorsOwned ==
    /\ \A r \in Regs : rvtype[r] >= 0 <=> data[r].as = "vector"
    /\ Vectors = {data[r].what : r \in {q \in Regs : rvtype[q] >= 0}}
    /\ \A r, q \in Regs : r # q /\ rvtype[r] >= 0 /\ rvtype[q] >= 0 => data[r].what # data[q].what

\* A value is what was last put into it, of the type it was put as, through assignments
\* between any two types and swaps (regval_t::operator=, set_float, set_bytes).
ValuesAreKept ==
    \A r \in Regs :
        /\ known[r].what = IF rvtype[r] >= 0 THEN BytesOf(r) ELSE data[r].what
        /\ rvtype[r] = known[r].kind

RegValsHold == VectorsOwned /\ ValuesAreKept
==============================================================================
