------------------------------- MODULE Qvector -------------------------------
(* qvector of pro.h, the container everything in the server is kept in, with  *)
(* qstack on top and qvector_reserve of fpro.cpp under it.  A cell of the      *)
(* array holds an object or raw memory; an object is constructed in a raw cell *)
(* and destroyed in its own.  `promised` is the sequence a caller thinks of.   *)
EXTENDS Integers, Sequences, SequencesExt, FiniteSetsExt

CONSTANTS Values,   \* values of an element; 0 is the one T() has
          MaxLen    \* bound: elements

VARIABLES kind,     \* of the element type: "pod"; "movable", with memmove; "object", only by copy
          vec,      \* [cells, n, ok]: the array, size(), no object was lost or destroyed twice
          promised

vars == <<kind, vec, promised>>

Raw == -1
NULL == [cells |-> << >>, n |-> 0, ok |-> TRUE]
Alloc(m) == Len(m.cells)
Contents(m) == SubSeq(m.cells, 1, m.n)

Construct(m, i, x) ==
    [m EXCEPT !.cells[i + 1] = x, !.ok = @ /\ (kind = "pod" \/ m.cells[i + 1] = Raw)]
Destroy(m, i) ==
    IF kind = "pod" THEN m
    ELSE [m EXCEPT !.cells[i + 1] = Raw, !.ok = @ /\ m.cells[i + 1] # Raw]
Over(Op(_, _), m, order) == FoldLeft(Op, m, order)
Ascending(from, to) == [k \in 1 .. to - from + 1 |-> from + k - 1]

\* memmove of cnt cells; what is left behind counts as raw.
Memmove(m, dst, src, cnt) ==
    LET into == dst .. dst + cnt - 1
        from == src .. src + cnt - 1
    IN  [m EXCEPT !.cells = [c \in DOMAIN @ |-> CASE c - 1 \in into -> @[c - dst + src]
                                                   [] c - 1 \in from \ into -> IF kind = "pod" THEN @[c] ELSE Raw
                                                   [] OTHER -> @[c]],
                  !.ok = @ /\ (kind # "pod" => \A i \in into \ from : m.cells[i + 1] = Raw)]
Carry(dst, src, m, k) == Destroy(Construct(m, dst + k, m.cells[src + k + 1]), src + k)
ShiftDown(m, dst, src, cnt) ==
    IF kind # "object" THEN Memmove(m, dst, src, cnt)
    ELSE Over(LAMBDA v, k : Carry(dst, src, v, k), m, Ascending(0, cnt - 1))

\* Seeded bug: the elements are carried up from the first to the last.
ShiftUpFromFirst(m, dst, src, cnt) ==
    IF kind # "object" THEN Memmove(m, dst, src, cnt)
    ELSE Over(LAMBDA v, k : Carry(dst, src, v, k), m, Ascending(0, cnt - 1))
ShiftUp(m, dst, src, cnt) ==
    IF kind # "object" THEN Memmove(m, dst, src, cnt)
    ELSE Over(LAMBDA v, k : Carry(dst, src, v, k), m, Reverse(Ascending(0, cnt - 1)))

\* qvector_reserve: twice what there was, or what is asked for.
NewAlloc(m, cnt) == IF 2 * Alloc(m) <= cnt THEN cnt ELSE 2 * Alloc(m)
Free(m) == m.ok /\ (kind # "pod" => \A c \in DOMAIN m.cells : m.cells[c] = Raw)
\* An element type that may not be moved is copied into a new array, one by one.
Reserve(m, cnt) ==
    IF cnt <= Alloc(m) THEN m
    ELSE LET fresh == [c \in 1 .. NewAlloc(m, cnt) |-> Raw]
             both == [m EXCEPT !.cells = @ \o fresh]
             moved == ShiftDown(both, Alloc(m), 0, m.n)
         IN  IF kind # "object" THEN [m EXCEPT !.cells = @ \o SubSeq(fresh, Alloc(m) + 1, Len(fresh))]
             ELSE [cells |-> SubSeq(moved.cells, Alloc(m) + 1, Len(moved.cells)), n |-> m.n,
                   ok |-> Free([moved EXCEPT !.cells = SubSeq(@, 1, Alloc(m))])]

PushBack(m, x) == LET r == Reserve(m, m.n + 1) IN [Construct(r, m.n, x) EXCEPT !.n = @ + 1]
PopBack(m) == IF m.n > 0 THEN [Destroy(m, m.n - 1) EXCEPT !.n = @ - 1] ELSE m
ShrinkTo(m, n) ==
    IF kind = "pod" THEN [m EXCEPT !.n = n]
    ELSE [Over(Destroy, m, Reverse(Ascending(n, m.n - 1))) EXCEPT !.n = n]
Qclear(m) == ShrinkTo(m, 0)
Clear(m) == IF m.cells = << >> THEN m ELSE [NULL EXCEPT !.ok = Free(Qclear(m))]
Append1(m, x) == [Construct(m, m.n, x) EXCEPT !.n = @ + 1]
Resize(m, size, x) ==
    IF size < m.n THEN ShrinkTo(m, size)
    ELSE Over(Append1, Reserve(m, size), [k \in 1 .. size - m.n |-> x])
\* Without a value the bytes are cleared, or T() is copied.
ResizeEmpty(m, size) == Resize(m, size, 0)
Truncate(m) == [m EXCEPT !.cells = Contents(m),
                         !.ok = @ /\ (kind # "pod" => \A c \in m.n + 1 .. Alloc(m) : m.cells[c] = Raw)]

\* operator= assigns to the elements both have, then destroys or constructs the rest.
Assign(m, x) ==
    LET both == Min({m.n, x.n})
        kept == [m EXCEPT !.cells = [c \in DOMAIN @ |-> IF c <= both THEN x.cells[c] ELSE @[c]]]
    IN  IF m.n > x.n THEN ShrinkTo(kept, x.n)
        ELSE Over(Append1, Reserve(kept, x.n), SubSeq(x.cells, both + 1, x.n))
\* The copy constructor takes as much memory as the other vector has.
Copied(x) ==
    IF x.n = 0 THEN NULL
    ELSE Over(Append1, [NULL EXCEPT !.cells = [c \in DOMAIN x.cells |-> Raw]], Contents(x))

Insert(m, at, x) ==
    LET r == Reserve(m, m.n + 1)
    IN  [Construct(ShiftUp(r, at + 1, at, r.n - at), at, x) EXCEPT !.n = @ + 1]
InsertAll(m, at, xs) ==
    IF xs = << >> THEN m
    ELSE LET r == Reserve(m, m.n + Len(xs))
             up == ShiftUp(r, at + Len(xs), at, r.n - at)
         IN  [Over(LAMBDA v, k : Construct(v, at + k - 1, xs[k]), up, Ascending(1, Len(xs)))
                  EXCEPT !.n = @ + Len(xs)]
Erase(m, first, last) ==
    [ShiftDown(Over(Destroy, m, Ascending(first, last - 1)), first, last, m.n - last)
         EXCEPT !.n = @ - (last - first)]
Find(m, x) == LET at == {i \in 0 .. m.n - 1 : m.cells[i + 1] = x} IN IF at = {} THEN m.n ELSE Min(at)
AddUnique(m, x) == IF Find(m, x) < m.n THEN m ELSE PushBack(m, x)
Del(m, x) == IF Find(m, x) = m.n THEN m ELSE Erase(m, Find(m, x), Find(m, x) + 1)

Swap(m, x) == [x EXCEPT !.ok = @ /\ Clear(m).ok]
Inject(t) == [cells |-> t, n |-> Len(t), ok |-> TRUE]
\* What qstack::pop() returns and leaves.
Pop(m) == [value |-> m.cells[m.n], left |-> PopBack(m)]

-----------------------------------------------------------------------------

\* A vector somebody else built, with room for `room` more.
Built(t, room) == [cells |-> t \o [k \in 1 .. room |-> Raw], n |-> Len(t), ok |-> TRUE]
Others == {Built(t, room) : t \in BoundedSeq(Values, MaxLen), room \in {0, 1}}

Init ==
    /\ kind \in {"pod", "movable", "object"}
    /\ vec = NULL /\ promised = << >>

Becomes(m, s) == Len(s) <= MaxLen /\ vec' = m /\ promised' = s /\ UNCHANGED kind
Places == 0 .. vec.n

Grow ==
    \/ \E x \in Values \cup {0} : Becomes(PushBack(vec, x), Append(promised, x))
    \/ \E size \in 0 .. MaxLen, x \in Values :
           Becomes(Resize(vec, size, x), SubSeq(promised \o [k \in 1 .. MaxLen |-> x], 1, size))
    \/ \E size \in 0 .. MaxLen :
           Becomes(ResizeEmpty(vec, size), SubSeq(promised \o [k \in 1 .. MaxLen |-> 0], 1, size))
    \/ \E at \in Places, x \in Values : Becomes(Insert(vec, at, x), InsertAt(promised, at + 1, x))
    \/ \E at \in Places, xs \in BoundedSeq(Values, 2) :
           Becomes(InsertAll(vec, at, xs),
                   SubSeq(promised, 1, at) \o xs \o SubSeq(promised, at + 1, Len(promised)))
    \/ \E x \in Values :
           Becomes(AddUnique(vec, x), IF Contains(promised, x) THEN promised ELSE Append(promised, x))

\* Erasing an empty range is left out: with elements that may not be moved it would
\* copy every element behind onto itself and destroy it.  Nobody calls it.
Shrink ==
    \/ Becomes(PopBack(vec), IF promised = << >> THEN << >> ELSE Front(promised))
    \/ /\ promised # << >>
       /\ Becomes([Pop(vec).left EXCEPT !.ok = @ /\ Pop(vec).value = Last(promised)], Front(promised))
    \/ Becomes(Qclear(vec), << >>)
    \/ Becomes(Clear(vec), << >>)
    \/ \E first \in Places, last \in Places :
           /\ first < last
           /\ Becomes(Erase(vec, first, last),
                      SubSeq(promised, 1, first) \o SubSeq(promised, last + 1, Len(promised)))
    \/ \E x \in Values : Becomes(Del(vec, x), RemoveFirst(promised, x))

\* The other vector is destroyed afterwards; extract() leaves the array to the caller.
Rehouse ==
    \/ \E cnt \in 1 .. MaxLen : Becomes(Reserve(vec, cnt), promised)
    \/ Becomes(Truncate(vec), promised)
    \/ \E x \in Others : Becomes(Assign(vec, x), Contents(x))
    \/ Becomes([Copied(vec) EXCEPT !.ok = @ /\ Clear(vec).ok], promised)
    \/ \E x \in Others : Becomes(Swap(vec, x), Contents(x))
    \/ /\ Contents(Truncate(vec)) = promised
       /\ Becomes([NULL EXCEPT !.ok = Truncate(vec).ok], << >>)
    \/ \E t \in BoundedSeq(Values, MaxLen) : vec.cells = << >> /\ Becomes(Inject(t), t)

Next == Grow \/ Shrink \/ Rehouse

-----------------------------------------------------------------------------

\* The vector holds the sequence the operations promise, in whatever way its elements
\* are moved; no element is constructed over another, destroyed twice or forgotten, and
\* memory behind the last one is raw.
VectorHolds ==
    /\ Contents(vec) = promised
    /\ vec.ok
    /\ kind # "pod" => \A c \in DOMAIN vec.cells : (vec.cells[c] = Raw) = (c > vec.n)
=============================================================================
