------------------------------ MODULE Addresses ------------------------------
(* The address converter: five fields that show one address, plain and in the  *)
(* forms of four download programs (the class CMyDlg).                         *)
(* Texts are sequences of byte values.                                         *)
EXTENDS Integers, Sequences, SequencesExt

CONSTANTS Rests,      \* addresses without their "http://"
          Extras      \* what stands behind the address in a form: "|..." and "&..."

VARIABLES fields,     \* [scheme, text] of each field
          edited,     \* the field changed last
          address     \* what the text typed there stands for

vars == <<fields, edited, address>>

Http == <<104, 116, 116, 112, 58, 47, 47>>
AA == <<65, 65>>
ZZ == <<90, 90>>
FLASHGET == <<91, 70, 76, 65, 83, 72, 71, 69, 84, 93>>
Bar == 124
Amp == 38

\* The table "changer", and the way back through the comparisons of translate2.
Char(v) ==
    CASE v < 26 -> v + 65
      [] v \in 26 .. 51 -> v + 71
      [] v \in 52 .. 61 -> v - 4
      [] v = 62 -> 43
      [] OTHER -> 47
Digit(c) ==
    CASE c \in 65 .. 90 -> c - 65
      [] c \in 97 .. 122 -> c - 71
      [] c \in 48 .. 57 -> c + 4
      [] c = 43 -> 62
      [] c = 47 -> 63
      [] OTHER -> -1

At(s, i) == IF i \in DOMAIN s THEN s[i] ELSE 0

\* Four characters for every three bytes that have begun.
Translate1(s) ==
    LET quad(i) == LET n == 65536 * At(s, 3 * i + 1) + 256 * At(s, 3 * i + 2) + At(s, 3 * i + 3)
                   IN  <<n \div 262144, (n \div 4096) % 64, (n \div 64) % 64, n % 64>>
    IN  [j \in 1 .. 4 * ((Len(s) + 2) \div 3) |->
            LET i == (j - 1) \div 4
                k == ((j - 1) % 4) + 1
            IN  IF 3 * i + k - 1 > Len(s) THEN 61 ELSE Char(quad(i)[k])]

\* A group with a character that is no digit is the last one. The register counts the
\* characters from there to the end of the group, so that the length is right behind
\* '=' but one too small where the group begins with the zero that ends the text.
\* (The group is full: behind the zero stands what strrev left of the prefix.)
Translate2(text) ==
    LET buf == text \o <<0, 1, 1, 1>>
        v(i) == Digit(buf[i])
        bad(i) == {k \in 1 .. 4 : v(4 * i + k) = -1}
        group[i \in 0 .. Len(buf) \div 4] ==
            LET stop == IF bad(i) = {} THEN 5 ELSE CHOOSE k \in bad(i) : \A m \in bad(i) : k <= m
                d(k) == IF k < stop THEN v(4 * i + k) ELSE 0
                n == 262144 * d(1) + 4096 * d(2) + 64 * d(3) + d(4)
                bytes == <<n \div 65536, (n \div 256) % 256, n % 256>>
            IN  IF stop = 5
                THEN [bytes |-> bytes \o group[i + 1].bytes, len |-> 3 + group[i + 1].len]
                ELSE [bytes |-> bytes, len |-> stop - 2]
    IN  group[0]

\* The text of a buffer ends at its first zero; here it is the decoded bytes.
Text(bytes) == SelectSeq(bytes, LAMBDA b : b # 0)

UpTo(s, c) == SubSeq(s, 1, (IF \E i \in DOMAIN s : s[i] = c
                            THEN CHOOSE i \in DOMAIN s : s[i] = c /\ \A j \in 1 .. i - 1 : s[j] # c
                            ELSE Len(s) + 1) - 1)

------------------------------------------------------------------------------
Form(scheme, text) == [scheme |-> scheme, text |-> text]

Thunder(a) == Form("thunder://", Translate1(AA \o a \o ZZ))
Flashget(a) == Form("flashget://", Translate1(FLASHGET \o a \o FLASHGET))
Xuanfeng(a) == Form("qqdl://", Translate1(a))
Feisu(a) == Form("fs2you://", Translate1(SubSeq(a, 8, Len(a))))

\* n bytes are cut off both ends; the far end is where translate2 says it is.
Unwrapped(text, n) ==
    LET r == Translate2(text)
    IN  SubSeq(Text(r.bytes), n + 1, r.len - n)

ReadThunder(f) == Unwrapped(f.text, 2)
ReadFlashget(f) == Unwrapped(UpTo(f.text, Amp), 10)
ReadXuanfeng(f) == Text(Translate2(f.text).bytes)
ReadFeisu(f) == UpTo(Http \o Text(Translate2(f.text).bytes), Bar)

Shown(field, a) ==
    CASE field = "normal" -> Form("", a)
      [] field = "thunder" -> Thunder(a)
      [] field = "flashget" -> Flashget(a)
      [] field = "xuanfeng" -> Xuanfeng(a)
      [] OTHER -> Feisu(a)

Fields == {"normal", "thunder", "flashget", "xuanfeng", "feisu"}

\* A handler fills the other fields; the notifications of its own writes find
\* IsProcessing set. OnChangeFeisuaddr copies over the "thunder://" it has just put.
Fill(field, f, a) ==
    [g \in Fields |-> IF g = field THEN f
                      ELSE IF g = "thunder" /\ field = "feisu" THEN [Thunder(a) EXCEPT !.scheme = ""]
                      ELSE Shown(g, a)]

OnChangeNormaladdr(f) == fields' = Fill("normal", f, f.text)
OnChangeThunderaddr(f) == fields' = Fill("thunder", f, ReadThunder(f))
OnChangeFlashgetaddr(f) == fields' = Fill("flashget", f, ReadFlashget(f))
OnChangeXuanfengaddr(f) == fields' = Fill("xuanfeng", f, ReadXuanfeng(f))
OnChangeFeisuaddr(f) == fields' = Fill("feisu", f, ReadFeisu(f))

------------------------------------------------------------------------------
\* The user pastes an address in one of its forms.
Paste(field, a) ==
    /\ edited' = field /\ address' = a
    /\ \/ field = "normal" /\ OnChangeNormaladdr(Form("", a))
       \/ field = "thunder" /\ OnChangeThunderaddr(Thunder(a))
       \/ /\ field = "flashget"
          /\ \E e \in Extras \cup {<<>>} :
                 OnChangeFlashgetaddr([Flashget(a) EXCEPT !.text = @ \o (IF e = <<>> THEN e ELSE <<Amp>> \o e)])
       \/ field = "xuanfeng" /\ OnChangeXuanfengaddr(Xuanfeng(a))
       \/ /\ field = "feisu"
          /\ \E e \in Extras \cup {<<>>} :
                 OnChangeFeisuaddr(Feisu(a \o (IF e = <<>> THEN e ELSE <<Bar>> \o e)))

Addrs == {Http \o r : r \in Rests}

Init ==
    \E a \in Addrs : /\ fields = Fill("normal", Form("", a), a)
                     /\ edited = "normal" /\ address = a

Next == \E field \in Fields, a \in Addrs : Paste(field, a)

Spec == Init /\ [][Next]_vars

------------------------------------------------------------------------------
\* The plain field shows the address that stands in the edited one, except that
\* the last character is missing where the text of a thunder or flashget address
\* fills its last group (flag7 and flag8 of translate2).
AddressReadBack ==
    LET wrapped == Len(address) + (IF edited = "thunder" THEN 4 ELSE 20)
        short == edited \in {"thunder", "flashget"} /\ wrapped % 3 = 0
    IN  fields["normal"].text = IF short THEN Front(address) ELSE address

\* Whatever field was edited, reading any other one gives the same address again
\* where translate2 can read it.
FormsAgree ==
    LET a == fields["normal"].text
    IN  /\ edited # "xuanfeng" => ReadXuanfeng(fields["xuanfeng"]) = a
        /\ edited # "feisu" => ReadFeisu(fields["feisu"]) = a
        /\ edited # "thunder" /\ (Len(a) + 4) % 3 # 0 => ReadThunder(fields["thunder"]) = a
        /\ edited # "flashget" /\ (Len(a) + 20) % 3 # 0 => ReadFlashget(fields["flashget"]) = a
=============================================================================
