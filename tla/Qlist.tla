-------------------------------- MODULE Qlist --------------------------------
(* qlist of pro.h: a ring of nodes through the list object itself.  Positions *)
(* are nodes, END the list object; `promised` is the sequence a caller thinks  *)
(* of.                                                                         *)
EXTENDS Integers, Sequences, SequencesExt, FiniteSets, FiniteSetsExt, TLC

CONSTANTS Values,   \* of an element
          MaxLen    \* bound: elements

VARIABLES list,     \* [next, prev, data, length] with a node for every element
          promised

vars == <<list, promised>>

END == 0
Nodes == 1 .. MaxLen
Empty == [next |-> (END :> END), prev |-> (END :> END), data |-> << >>, length |-> 0]
Allocated(l) == DOMAIN l.next \ {END}
Fresh(l) == Min(Nodes \ Allocated(l))
Without(f, x) == [y \in DOMAIN f \ {x} |-> f[y]]

Begin(l) == l.next[END]
\* The node k steps behind the head.
At(l, k) == FoldLeft(LAMBDA node, i : l.next[node], Begin(l), [i \in 1 .. k |-> i])

Linkin(l, p, tmp) ==
    [l EXCEPT !.next = (tmp :> p) @@ (l.prev[p] :> tmp) @@ @,
              !.prev = (tmp :> l.prev[p]) @@ (p :> tmp) @@ @,
              !.length = @ + 1]
Insert(l, p, x) == LET tmp == Fresh(l) IN Linkin([l EXCEPT !.data = (tmp :> x) @@ @], p, tmp)
\* Each of them in front of p, which does not move.
InsertAll(l, p, xs) == FoldLeft(LAMBDA acc, x : Insert(acc, p, x), l, xs)
Erase(l, p) ==
    LET around == [l EXCEPT !.next[l.prev[p]] = l.next[p], !.prev[l.next[p]] = l.prev[p]]
    IN  [next |-> Without(around.next, p), prev |-> Without(around.prev, p),
         data |-> Without(l.data, p), length |-> l.length - 1]
EraseTurn(l, at) == [list |-> Erase(l, at), at |-> l.next[at]]
EraseRange(l, p1, cnt) ==
    FoldLeft(LAMBDA acc, i : EraseTurn(acc.list, acc.at), [list |-> l, at |-> p1], [i \in 1 .. cnt |-> i]).list
Clear(l) == EraseRange(l, Begin(l), l.length)
PushFront(l, x) == Insert(l, Begin(l), x)
PushBack(l, x) == Insert(l, END, x)
PopFront(l) == Erase(l, Begin(l))
PopBack(l) == Erase(l, l.prev[END])

\* operator= assigns to the elements both have and erases or inserts the rest.
Assign(l, xs) ==
    LET both == Min({l.length, Len(xs)})
        kept == FoldLeft(LAMBDA acc, k : [acc EXCEPT !.data[At(l, k - 1)] = xs[k]], l,
                         [k \in 1 .. both |-> k])
    IN  IF both = Len(xs) THEN EraseRange(kept, At(l, both), l.length - both)
        ELSE InsertAll(kept, END, SubSeq(xs, both + 1, Len(xs)))

-----------------------------------------------------------------------------

Init == list = Empty /\ promised = << >>

Becomes(l, s) == list' = l /\ promised' = s
Offsets == 0 .. Len(promised)
Upto(n) == SubSeq(promised, 1, n)
From(n) == SubSeq(promised, n + 1, Len(promised))
Room(n) == Len(promised) + n <= MaxLen

Enter ==
    \/ \E k \in Offsets, x \in Values : Room(1) /\ Becomes(Insert(list, At(list, k), x), Upto(k) \o <<x>> \o From(k))
    \/ \E k \in Offsets, xs \in BoundedSeq(Values, 2) :
           Room(Len(xs)) /\ Becomes(InsertAll(list, At(list, k), xs), Upto(k) \o xs \o From(k))
    \/ \E x \in Values : Room(1) /\ Becomes(PushFront(list, x), <<x>> \o promised)
    \/ \E x \in Values : Room(1) /\ Becomes(PushBack(list, x), Append(promised, x))
    \/ \E xs \in BoundedSeq(Values, MaxLen) : Becomes(Assign(list, xs), xs)
Leave ==
    \/ \E k \in Offsets : k < Len(promised) /\ Becomes(Erase(list, At(list, k)), Upto(k) \o From(k + 1))
    \/ \E k \in Offsets, cnt \in Offsets :
           k + cnt <= Len(promised) /\ Becomes(EraseRange(list, At(list, k), cnt), Upto(k) \o From(k + cnt))
    \/ Becomes(Clear(list), << >>)
    \/ promised # << >> /\ Becomes(PopFront(list), From(1))
    \/ promised # << >> /\ Becomes(PopBack(list), Front(promised))

Next == Enter \/ Leave

-----------------------------------------------------------------------------

\* Walked in either direction the ring has the promised elements, length of them, and
\* no node is kept that is not in it.
ListHolds ==
    /\ list.length = Len(promised)
    /\ \A k \in 1 .. list.length : list.data[At(list, k - 1)] = promised[k]
    /\ At(list, list.length) = END
    /\ \A p \in DOMAIN list.next : list.prev[list.next[p]] = p
    /\ Cardinality(Allocated(list)) = list.length
=============================================================================
