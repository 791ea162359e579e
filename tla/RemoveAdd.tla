------------------------------- MODULE RemoveAdd -------------------------------
(* removeadd.cpp: the button that adds a line against the player's             *)
(* advertisements to the hosts file. A byte is "h" (a first byte of a          *)
(* two-byte character, or a lone one), "0" or something else; Marker is the    *)
(* text the program adds, and recognises its work by.                          *)
EXTENDS Integers, Sequences, SequencesExt, FiniteSets

CONSTANTS Pieces,       \* pieces a hosts file is made of
          Marker,
          MaxPieces,    \* bound: pieces of the first hosts file
          MaxPresses    \* bound: times the button is pressed

VARIABLES pc,
          hosts,        \* the file
          first,        \* its content when the program started
          data,         \* what OnDoRemoveAdds has read
          said,         \* message box shown last
          presses

vars == <<pc, hosts, first, data, said, presses>>

Match(text, p) == p + Len(Marker) - 1 <= Len(text) /\ SubSeq(text, p, p + Len(Marker) - 1) = Marker

\* A high byte takes the byte behind it along.
Step(text, p) == IF text[p] = "h" THEN 2 ELSE 1

\* The search: from the front, ending behind the last place where the text fits.
HasRemoved(text) ==
    LET found[p \in 1 .. Len(text) + 2] ==
            IF Match(text, p) THEN TRUE
            ELSE IF p > Len(text) - Len(Marker) THEN FALSE
            ELSE found[p + Step(text, p)]
    IN  found[1]

\* The length written includes the eight bytes of the head once too often: the zero
\* behind the text and seven bytes of the heap follow it.
Tails == {<<"0">> \o [i \in 1 .. 7 |-> b] : b \in {"0", "a", "h"}}

\* A file that cannot be opened leaves data at NULL, which is looked into at once.
Read ==
    /\ pc = "idle" /\ presses < MaxPresses
    /\ presses' = presses + 1
    /\ \/ data' = hosts /\ pc' = IF HasRemoved(hosts) THEN "already" ELSE "create"
       \/ data' = <<>> /\ pc' = "crashed"
    /\ UNCHANGED <<hosts, first, said>>

\* CREATE_ALWAYS: the old content is gone before the new one is written.
Create ==
    /\ pc = "create"
    /\ \/ hosts' = <<>> /\ pc' = "write" /\ UNCHANGED said
       \/ said' = "failed" /\ pc' = "free" /\ UNCHANGED hosts
    /\ UNCHANGED <<first, data, presses>>

Write ==
    /\ pc = "write" /\ pc' = "free"
    /\ \/ \E tail \in Tails : hosts' = data \o Marker \o tail /\ said' = "done"
       \/ hosts' = <<>> /\ said' = "failed"
    /\ UNCHANGED <<first, data, presses>>

Already ==
    /\ pc = "already" /\ pc' = "free" /\ said' = "already"
    /\ UNCHANGED <<hosts, first, data, presses>>

\* lpMem and data are one block, which is freed twice: the heap may notice.
Free ==
    /\ pc = "free" /\ pc' \in {"idle", "crashed"}
    /\ UNCHANGED <<hosts, first, data, said, presses>>

Closed ==
    /\ pc \notin {"idle", "closed"} /\ pc' = "closed"
    /\ UNCHANGED <<hosts, first, data, said, presses>>

Init ==
    /\ \E n \in 0 .. MaxPieces : \E ps \in [1 .. n -> Pieces \cup {Marker}] :
           Cardinality({i \in 1 .. n : ps[i] = Marker}) <= 1 /\ hosts = FlattenSeq(ps)
    /\ first = hosts /\ data = <<>> /\ said = "nothing" /\ pc = "idle" /\ presses = 0

Next == Read \/ Create \/ Write \/ Already \/ Free \/ Closed

Spec == Init /\ [][Next]_vars

------------------------------------------------------------------------------
\* Two-byte characters are whole: no end of line or of the file cuts one.
WellFormed(text) ==
    LET whole[p \in 1 .. Len(text) + 1] ==
            \/ p > Len(text)
            \/ text[p] # "h" /\ whole[p + 1]
            \/ text[p] = "h" /\ p < Len(text) /\ text[p + 1] \in {"a", "h"} /\ whole[p + 2]
    IN  whole[1]

\* However often the button is pressed, the line stands in the file once, if the
\* file was text in the code page of the program (HasRemoved, removeadd.cpp:132).
AddedOnce == WellFormed(first) => Cardinality({p \in DOMAIN hosts : Match(hosts, p)}) <= 1

\* Success means that the old content is still there, with the line behind it.
ContentKept ==
    /\ pc = "free" /\ said = "done" => IsPrefix(data \o Marker, hosts)
    /\ pc = "free" /\ said = "already" => hosts = data
=============================================================================
