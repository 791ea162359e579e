------------------------------- MODULE Qstring -------------------------------
(* _qstring and bytevec_t of pro.h over the qvector of bytes they keep.  A     *)
(* string is a vector that ends with a zero, or an empty vector; `promised` is  *)
(* the text a caller thinks of.  Offsets count from 0, as in the code.          *)
EXTENDS Integers, Sequences, SequencesExt, FiniteSetsExt

CONSTANTS Chars,    \* values of a character other than the zero
          Blank,    \* the one that is trimmed
          MaxLen    \* bound: characters

VARIABLES body, promised

vars == <<body, promised>>

Many(c, n) == [k \in 1 .. n |-> c]
\* qvector::resize of a vector of bytes, with a filler and without.
BodyResize(b, size, c) == SubSeq(b \o Many(c, size), 1, size)
Length(b) == IF b = << >> THEN 0 ELSE Len(b) - 1
Put(b, at, str) == [i \in DOMAIN b |-> IF i > at /\ i <= at + Len(str) THEN str[i - at] ELSE b[i]]
Memmove(b, to, from, cnt) == Put(b, to, SubSeq(b, from + 1, from + cnt))
End(b, at) == Put(b, at, <<0>>)

FromBuffer(str) == IF str = << >> THEN << >> ELSE Put(BodyResize(<< >>, Len(str) + 1, 0), 0, str)
AssignText(b, str) ==
    IF str = << >> THEN << >> ELSE End(Put(BodyResize(b, Len(str) + 1, 0), 0, str), Len(str))

Resize(b, s, c) ==
    LET open == IF b # << >> /\ s >= Len(b) THEN Put(b, Len(b) - 1, <<c>>) ELSE b
    IN  End(BodyResize(open, s + 1, c), s)
ResizeEmpty(b, s) == IF s = 0 THEN << >> ELSE End(BodyResize(b, s + 1, 0), s)
RemoveLast(b, cnt) ==
    LET len == Len(b) - cnt
    IN  IF len <= 1 THEN << >> ELSE End(BodyResize(b, len, 0), len - 1)

RemoveChars(b, idx, cnt) ==
    IF idx >= Length(b) \/ cnt = 0 THEN b
    ELSE LET behind == idx + cnt
             rest == Length(b) - behind
             closed == IF rest > 0 THEN Memmove(b, idx, behind, rest) ELSE b
             left == idx + Max({0, rest})
         IN  End(BodyResize(closed, left + 1, 0), left)

Insert(b, idx, str) ==
    LET len == Length(b)
        wide == End(BodyResize(b, len + Len(str) + 1, 0), len + Len(str))
    IN  IF idx < len THEN Put(Memmove(wide, idx + Len(str), idx, len - idx), idx, str)
        ELSE Put(wide, len, str)
AppendText(b, str) == Put(End(BodyResize(b, Length(b) + Len(str) + 1, 0), Length(b) + Len(str)), Length(b), str)
\* Without a text to append the string is not touched.
AppendString(b, str) == IF str = << >> THEN b ELSE AppendText(b, str)
Sprnt(str) == IF str = << >> THEN << >> ELSE Put(BodyResize(<< >>, Len(str) + 1, 0), 0, str \o <<0>>)
CatSprnt(b, str) ==
    IF str = << >> THEN b
    ELSE Put(BodyResize(b, Length(b) + Len(str) + 1, 0), Length(b), str \o <<0>>)

Substr(b, pos, n) ==
    LET endp == Min({Length(b), n})
        from == IF pos >= endp THEN endp ELSE pos
    IN  FromBuffer(SubSeq(b, from + 1, endp))

Fill(b, pos, c, len) ==
    LET endp == pos + len + 1
        wide == IF Len(b) < endp THEN End(BodyResize(b, endp, 0), endp - 1) ELSE b
    IN  Put(wide, pos, Many(c, len))
FillAll(c, len) == IF len > 0 THEN Resize(<< >>, len, c) ELSE << >>

Rtrim(b) ==
    IF Len(b) <= 1 THEN b
    ELSE ResizeEmpty(b, Max({0} \cup {e \in 1 .. Length(b) : b[e] # Blank}))
Ltrim(b) ==
    IF Len(b) <= 1 THEN b
    ELSE LET skip == Min({Length(b)} \cup {k \in 0 .. Length(b) - 1 : b[k + 1] # Blank})
         IN  IF skip = 0 THEN b
             ELSE ResizeEmpty(Memmove(b, 0, skip, Len(b) - skip), Length(b) - skip)
Trim2(b) == Ltrim(Rtrim(b))

\* strstr from an offset on; -1 if there is none.
Strstr(b, from, what) ==
    LET at == {k \in from .. Length(b) - Len(what) : SubSeq(b, k + 1, k + Len(what)) = what}
    IN  IF at = {} THEN -1 ELSE Min(at)
\* One turn of the loop of replace() appends what lies before the match, and `with`.
ReplaceTurn(b, what, with, r) ==
    LET pos == Strstr(b, r.last, what)
        before == SubSeq(b, r.last + 1, pos)
    IN  IF pos = -1 THEN r
        ELSE [text |-> AppendText(IF before = << >> THEN r.text ELSE AppendText(r.text, before), with),
              last |-> pos + Len(what)]
Replace(b, what, with) ==
    LET r == FoldLeft(LAMBDA acc, k : ReplaceTurn(b, what, with, acc),
                      [text |-> << >>, last |-> 0], Many(0, Len(b)))
        rest == SubSeq(b, r.last + 1, Length(b))
    IN  IF r.last = 0 THEN b ELSE IF rest = << >> THEN r.text ELSE AppendText(r.text, rest)

-----------------------------------------------------------------------------

Init == body = << >> /\ promised = << >>

Becomes(b, p) == Len(p) <= MaxLen /\ body' = b /\ promised' = p
Texts == BoundedSeq(Chars, 2)
Offsets == 0 .. Len(promised)
Upto(n) == SubSeq(promised, 1, n)
From(n) == SubSeq(promised, n + 1, Len(promised))

Set ==
    \/ \E t \in Texts : Becomes(FromBuffer(t), t) \/ Becomes(AssignText(body, t), t) \/ Becomes(Sprnt(t), t)
    \/ \E s \in 0 .. MaxLen, c \in Chars : Becomes(Resize(body, s, c), SubSeq(promised \o Many(c, s), 1, s))
    \/ \E s \in 0 .. MaxLen : Becomes(ResizeEmpty(body, s), SubSeq(promised \o Many(0, s), 1, s))
    \/ \E s \in 0 .. MaxLen, c \in Chars : Becomes(FillAll(c, s), Many(c, s))
    \/ \E pos \in Offsets, c \in Chars, n \in 0 .. 2 :
           Becomes(Fill(body, pos, c, n), Upto(pos) \o Many(c, n) \o From(pos + n))

Lengthen ==
    \E t \in Texts :
        \/ Becomes(AppendText(body, t), promised \o t)
        \/ Becomes(AppendString(body, t), promised \o t)
        \/ Becomes(CatSprnt(body, t), promised \o t)
        \/ \E idx \in Offsets : Becomes(Insert(body, idx, t), Upto(idx) \o t \o From(idx))

\* What is left when blanks are trimmed, and when every `what` becomes `with`.
FirstKept == Min({Len(promised) + 1} \cup {k \in DOMAIN promised : promised[k] # Blank})
LastKept == Max({0} \cup {k \in DOMAIN promised : promised[k] # Blank})
Replaced(p, what, with) ==
    LET tail[i \in 1 .. Len(p) + 1] ==
            IF i > Len(p) THEN << >>
            ELSE IF IsPrefix(what, SubSeq(p, i, Len(p)))
                 THEN with \o tail[i + Len(what)] ELSE <<p[i]>> \o tail[i + 1]
    IN  tail[1]

Shorten ==
    \/ \E cnt \in 1 .. 2 : Becomes(RemoveLast(body, cnt), Upto(Max({0, Len(promised) - cnt})))
    \/ \E idx \in Offsets, cnt \in 0 .. 2 : Becomes(RemoveChars(body, idx, cnt), Upto(idx) \o From(idx + cnt))
    \/ \E pos \in Offsets, n \in Offsets : Becomes(Substr(body, pos, n), SubSeq(promised, pos + 1, n))
    \/ Becomes(Rtrim(body), Upto(LastKept))
    \/ Becomes(Ltrim(body), From(FirstKept - 1))
    \/ Becomes(Trim2(body), SubSeq(promised, FirstKept, LastKept))
    \/ \E what \in Texts \ {<< >>}, with \in Texts :
           0 \notin ToSet(promised) /\ Becomes(Replace(body, what, with), Replaced(promised, what, with))

Next == Set \/ Lengthen \/ Shorten

-----------------------------------------------------------------------------

\* A string is the text its operations promise and a zero behind it, or no memory at all.
StringHolds ==
    IF body = << >> THEN promised = << >> ELSE body = Append(promised, 0)
=============================================================================
