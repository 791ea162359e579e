------------------------------ MODULE ElfInput ------------------------------
(* buffered_input_t (elf.h, reader.cpp): the entries of a table of an ELF file, read  *)
(* a buffer at a time. Relocations are read as they lie in the file and turned into   *)
(* wide ones of this machine's byte order where they are; symbols are read one by     *)
(* one, and the name of each is looked up on the way, elsewhere in the same file.     *)
(* The machine is a little-endian one.                                                *)
EXTENDS Integers, Sequences, SequencesExt, FiniteSetsExt

CONSTANTS Tables,   \* see Standard and Raw
          Buffer    \* entries of the buffer: 256

\* A table is [kind: "rel", "rela" or "sym"; plt: found by DT_JMPREL; is64, msb: of the file;
\* odd: its section gives a size no such entry has; beyond: it lies behind the end of
\* the file; items: what it holds]. A number of 64 bits is the pair of its low and its
\* high word, and -2 stands for the word with all bits but the lowest.

VARIABLES table,
          read,     \* items read from the file
          cur, end, buffer,
          served,   \* what the caller was given
          done      \* next() said that there is no more

vars == <<table, read, cur, end, buffer, served, done>>

------------------------------------------------------------------------------
(* Words in memory: the number and whether its bytes lie in reverse. *)

Raw(v, reverse) == [v |-> v, reverse |-> reverse /\ v \notin {0, -1}]
Swap32(w) == Raw(w.v, ~w.reverse)
Swap64(w) == <<Swap32(w[2]), Swap32(w[1])>>
Zero == Raw(0, FALSE)
Sign(v) == IF v < 0 THEN -1 ELSE 0

Standard(kind, is64) ==
    CASE kind = "rel" -> IF is64 THEN 16 ELSE 8
      [] kind = "rela" -> IF is64 THEN 24 ELSE 12
      [] kind = "sym" -> IF is64 THEN 24 ELSE 16

\* fill_section_header: what the dynamic information has no section for gets one of its
\* own. The relocations of the PLT say themselves of which kind they are.
FillEntsize(kind, is64) == Standard(kind, is64)
Isize(t) ==
    CASE t.plt -> FillEntsize(t.kind, t.is64)
      [] t.odd -> 4
      [] OTHER -> Standard(t.kind, t.is64)

\* What the file holds of a relocation.
Long(p, msb) == IF msb THEN <<Raw(p[2], TRUE), Raw(p[1], TRUE)>> ELSE <<Raw(p[1], FALSE), Raw(p[2], FALSE)>>
WordsOf(t, e) ==
    IF t.is64
      THEN Long(e.offset, t.msb) \o Long(<<e.type, e.sym>>, t.msb)
           \o (IF t.kind = "rela" THEN Long(e.addend, t.msb) ELSE << >>)
      ELSE <<Raw(e.offset[1], t.msb), Raw(e.sym * 256 + e.type, t.msb)>>
           \o (IF t.kind = "rela" THEN <<Raw(e.addend[1], t.msb)>> ELSE << >>)

------------------------------------------------------------------------------
(* Relocations: read_items *)

Per(kind) == IF kind = "rela" THEN 6 ELSE 4     \* words of a wide one
Memory(t, words) == [i \in 0 .. Per(t.kind) * Buffer - 1 |-> IF i < Len(words) THEN words[i + 1] ELSE Zero]

\* One narrow entry becomes a wide one that lies further up. swap32() gives an unsigned
\* number: then the sign of the addend is lost.
Widened(t, mem, i) ==
    LET per == Per(t.kind)
        in(k) == LET w == mem[(per \div 2) * i + k] IN IF t.msb THEN Swap32(w) ELSE w
        high == IF t.msb THEN Zero ELSE Raw(Sign(in(2).v), FALSE)
        wide == <<in(0), Zero, in(1), Zero>> \o (IF t.kind = "rela" THEN <<in(2), high>> ELSE << >>)
    IN  [k \in DOMAIN mem |-> IF k \in per * i .. per * i + per - 1 THEN wide[k - per * i + 1] ELSE mem[k]]

\* From the last one down, for what is behind the entries is free.
Order(max) == [k \in 1 .. max |-> max - k]

\* Seeded bug: the first one first.
OrderUp(max) == [k \in 1 .. max |-> k - 1]

Widen(t, mem, max) == FoldLeft(LAMBDA m, i : Widened(t, m, i), mem, Order(max))

\* Wide ones stay where they are.
Swapped(mem) == [k \in DOMAIN mem |-> IF k % 2 = 0 THEN Swap64(<<mem[k], mem[k + 1]>>)[1]
                                                   ELSE Swap64(<<mem[k - 1], mem[k]>>)[2]]

\* rel_info_index, rel_info_type; the type is cut to a byte.
RelInfoIndex(t, info) == IF t.is64 THEN info[2].v ELSE info[1].v \div 256
RelInfoType(info) == info[1].v % 256

Relocation(t, mem, i) ==
    LET long(k) == <<mem[Per(t.kind) * i + k], mem[Per(t.kind) * i + k + 1]>>
    IN  [offset |-> long(0), sym |-> RelInfoIndex(t, long(2)), type |-> RelInfoType(long(2)),
         addend |-> IF t.kind = "rela" THEN long(4) ELSE <<Zero, Zero>>]

\* The size of an entry says whether it is a narrow one; one of another size is refused.
InMemory(t, words, max) ==
    CASE Isize(t) = Standard(t.kind, FALSE) -> Widen(t, Memory(t, words), max)
      [] t.msb -> Swapped(Memory(t, words))
      [] OTHER -> Memory(t, words)

Relocations(t, from, max) ==
    IF Isize(t) \notin {Standard(t.kind, w) : w \in BOOLEAN} \/ t.beyond THEN << >>
    ELSE LET mem == InMemory(t, FlattenSeq([k \in 1 .. max |-> WordsOf(t, t.items[from + k])]), max)
         IN  [k \in 1 .. max |-> Relocation(t, mem, k - 1)]

------------------------------------------------------------------------------
(* Symbols: read_item. at: the place in the file, of the table or among the strings. *)

\* input_status_t: whoever reads elsewhere goes back.
Back(at, elsewhere) == at

\* The name that on_symbol_read looks up (get_original_name) is that of the item, whatever
\* symbol had its place in the buffer before.
Symbol(e) == [value |-> e.value, name |-> e.name]

\* What stands where a symbol is read: one of the table, or some bytes of a string.
Present(t, at) == ~t.beyond /\ (at.in = "table" => at.item < Len(t.items))
Stored(t, at) == IF at.in = "table" THEN t.items[at.item + 1] ELSE [value |-> -1, name |-> "?"]

\* s: [at, got]; stops at the first that cannot be read.
ReadItem(t, s) ==
    IF ~Present(t, s.at) THEN s
    ELSE [at |-> Back([in |-> s.at.in, item |-> s.at.item + 1], [in |-> "strings", item |-> 0]),
          got |-> Append(s.got, Symbol(Stored(t, s.at)))]

Symbols(t, from, max) ==
    FoldLeft(LAMBDA s, i : IF Len(s.got) = i - 1 THEN ReadItem(t, s) ELSE s,
             [at |-> [in |-> "table", item |-> from], got |-> << >>], [i \in 1 .. max |-> i]).got

------------------------------------------------------------------------------
ReadItems(t, from, max) == IF t.kind = "sym" THEN Symbols(t, from, max) ELSE Relocations(t, from, max)

\* buffered_input_t(): how many items the section has (get_size_in_file).
Count(t) == (Len(t.items) * Standard(t.kind, t.is64)) \div Isize(t)
Left == Count(table) - read
ToRead == IF Left > Buffer THEN Buffer ELSE Left

Init ==
    /\ table \in Tables /\ read = 0 /\ cur = 0 /\ end = 0 /\ buffer = << >>
    /\ served = << >> /\ done = FALSE

\* next(): from the buffer, or after it was filled again.
Serve ==
    /\ ~done /\ cur < end
    /\ cur' = cur + 1 /\ served' = Append(served, buffer[cur + 1])
    /\ UNCHANGED <<table, read, end, buffer, done>>

Refill ==
    /\ ~done /\ cur >= end /\ Left # 0
    /\ buffer' = ReadItems(table, read, ToRead)
    /\ end' = Len(buffer') /\ read' = read + end'
    /\ \/ end' = 0 /\ cur' = 0 /\ done' = TRUE /\ UNCHANGED served
       \/ end' > 0 /\ cur' = 1 /\ served' = Append(served, buffer'[1]) /\ UNCHANGED done
    /\ UNCHANGED table

NoMore ==
    /\ ~done /\ cur >= end /\ Left = 0
    /\ done' = TRUE
    /\ UNCHANGED <<table, read, cur, end, buffer, served>>

Next == Serve \/ Refill \/ NoMore

Spec == Init /\ [][Next]_vars

------------------------------------------------------------------------------
\* An item is what the file holds: the fields in their own width, and signed what is
\* signed; of a narrow addend of the other byte order only the low word is right, and of
\* a type the low byte.
Same(t, item, e) ==
    IF t.kind = "sym" THEN item = [value |-> e.value, name |-> e.name]
    ELSE /\ item.offset = Long(e.offset, FALSE) /\ item.sym = e.sym /\ item.type = e.type % 256
         /\ t.kind = "rela" => IF t.msb /\ ~t.is64 THEN item.addend[1] = Raw(e.addend[1], FALSE)
                               ELSE item.addend = Long(e.addend, FALSE)

\* The caller is given the items of the table in their order, each once, and all of them
\* before it hears that there are no more, over the edges of the buffer, in both widths
\* and byte orders; relocations of a size that is none give nothing (buffered_input_t::next,
\* read_items, read_item).
InputHolds ==
    /\ Len(served) <= Len(table.items)
    /\ \A i \in DOMAIN served : Same(table, served[i], table.items[i])
    /\ done /\ ~table.odd /\ ~table.beyond => Len(served) = Len(table.items)
=============================================================================
