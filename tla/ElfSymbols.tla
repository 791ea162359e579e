----------------------------- MODULE ElfSymbols -----------------------------
(* What becomes of the symbols of an ARM file as they are read: on_symbol_read of     *)
(* arm_arch_specific_t (reader.cpp, elfr_arm.h) finds out which functions are Thumb   *)
(* ones, and symrel_cache_t (elf.h) keeps the symbols of both tables in one vector.   *)
(* Who fills the cache, and whether mapping symbols are tracked, is the caller's      *)
(* choice.                                                                            *)
EXTENDS Integers, Sequences, SequencesExt, FiniteSets, FiniteSetsExt

CONSTANTS Layouts,   \* what a linker makes: see below
          Bias,      \* load_bias, an even number
          MaxSyms    \* bound: symbols read

VARIABLES layout,
          tracking,     \* track_mapsym
          slice,        \* the table that is read
          has_mapsym,
          isa_ranges,   \* section -> address -> what begins there
          storage, dynsym_index,
          inOrder       \* history: no symbol of SYMTAB was appended behind one of DYNSYM

vars == <<layout, tracking, slice, has_mapsym, isa_ranges, storage, dynsym_index, inOrder>>

------------------------------------------------------------------------------
(* The symbols of a file. A layout is [code: section -> address -> "arm", "thumb" or   *)
(* "data"; functions: the places where one begins, how it is marked and bound]. Marks: *)
(* "bit", an odd address; "tfunc" and "16bit", a type of its own; "bare", nothing but  *)
(* the mapping symbols. Bindings: those of ELF; 14, which CodeWarrior uses; and 5.      *)

Isa(sec, ea) == layout.code[sec][ea]
Before(sec, ea) == {b \in DOMAIN layout.code[sec] : b < ea}

\* Mapping symbols are where it changes.
Changes(sec, ea) == Before(sec, ea) = {} \/ Isa(sec, Max(Before(sec, ea))) # Isa(sec, ea)
MappingName(isa) == CASE isa = "arm" -> "$a" [] isa = "thumb" -> "$t" [] isa = "data" -> "$d"

MappingSymbols ==
    UNION {{[name |-> MappingName(Isa(sec, ea)), type |-> IF Isa(sec, ea) = "data" THEN "OBJECT" ELSE "FUNC",
             bind |-> "LOCAL", sec |-> sec, ea |-> ea, st_value |-> ea, mark |-> "map"]
               : ea \in {e \in DOMAIN layout.code[sec] : Changes(sec, e)}} : sec \in DOMAIN layout.code}

Function(f) ==
    [name |-> "f", bind |-> f.bind, sec |-> f.sec, ea |-> f.ea, mark |-> f.mark,
     st_value |-> IF f.mark = "bit" /\ Isa(f.sec, f.ea) = "thumb" THEN f.ea + 1 ELSE f.ea,
     type |-> CASE Isa(f.sec, f.ea) = "thumb" /\ f.mark = "tfunc" -> "ARM_TFUNC"
                [] Isa(f.sec, f.ea) = "thumb" /\ f.mark = "16bit" -> "ARM_16BIT"
                [] OTHER -> "FUNC"]
Functions == {Function(f) : f \in layout.functions}

IsMappingSymbol(name) == name \in {"$a", "$t", "$b", "$d", "$p", "$f"}

\* Whether all was read that the mapping symbols say of a place and what is before it.
MappedUpTo(sec, ea) ==
    \A m \in {x \in MappingSymbols : x.sec = sec /\ x.ea <= ea} :
        \E i \in DOMAIN storage : storage[i].of = m

------------------------------------------------------------------------------
(* Reading one *)

\* buffered_input_t<sym_rel>::read_item
Bind(bind) == CASE bind = "14" -> "WEAK" [] bind = "5" -> "INVALID" [] OTHER -> bind
ReadItem(s) == [n |-> Len(storage) + 1, in |-> slice, of |-> s, sec |-> s.sec, type |-> s.type,
                bind |-> Bind(s.bind), value |-> s.st_value + Bias, thumb |-> FALSE,
                mapped |-> MappedUpTo(s.sec, s.ea)]

\* set_isa, get_isa: the last one that begins at the symbol or before it.
SetIsa(s, isa) ==
    LET ranges == IF s.sec \in DOMAIN isa_ranges THEN isa_ranges[s.sec] ELSE << >>
        with == [ea \in DOMAIN ranges \cup {s.st_value} |-> IF ea = s.st_value THEN isa ELSE ranges[ea]]
    IN  [sec \in DOMAIN isa_ranges \cup {s.sec} |-> IF sec = s.sec THEN with ELSE isa_ranges[sec]]
Upto(s) == IF s.sec \in DOMAIN isa_ranges THEN {ea \in DOMAIN isa_ranges[s.sec] : ea <= s.st_value} ELSE {}

\* Seeded bug: what begins first in the section counts for all of it.
GetIsaFirst(s) == IF Upto(s) = {} THEN "arm" ELSE isa_ranges[s.sec][Min(Upto(s))]

GetIsa(s) == IF Upto(s) = {} THEN "arm" ELSE isa_ranges[s.sec][Max(Upto(s))]

\* on_symbol_read for a function with a binding it knows.
IsFunction(r) == r.type \in {"FUNC", "ARM_TFUNC", "ARM_16BIT"} /\ r.bind \in {"GLOBAL", "LOCAL", "WEAK"}
Thumb(s) == s.type \in {"ARM_TFUNC", "ARM_16BIT"} \/ s.st_value % 2 = 1 \/ (tracking /\ GetIsa(s) = "thumb")
FunctionRead(r) ==
    [r EXCEPT !.value = @ - (@ % 2), !.type = IF @ = "ARM_TFUNC" THEN "FUNC" ELSE @, !.thumb = Thumb(r.of)]

\* The flag is set for every mapping symbol of code.
OnSymbolRead(r) ==
    CASE r.of.name \in {"$a", "$t"} -> [r EXCEPT !.thumb = TRUE]
      [] ~IsMappingSymbol(r.of.name) /\ IsFunction(r) -> FunctionRead(r)
      [] OTHER -> r

------------------------------------------------------------------------------
(* The cache *)

SliceStart(t) == IF t = "DYNSYM" THEN dynsym_index ELSE 0
SliceEnd(t) == IF t = "SYMTAB" THEN dynsym_index ELSE Len(storage)
Get(t, idx) == storage[SliceStart(t) + idx + 1]
Slice(t) == SubSeq(storage, SliceStart(t) + 1, SliceEnd(t))

\* get_ptr: to the symbol at i, as its slice and its place there.
GetPtr(i) ==
    IF i <= dynsym_index THEN [type |-> "SYMTAB", idx |-> i - 1]
                         ELSE [type |-> "DYNSYM", idx |-> i - 1 - dynsym_index]

\* append(): at the end of its slice; the border moves only when there is nothing behind it.
AppendTo(t, r) ==
    /\ storage' = InsertAt(storage, SliceEnd(t) + 1, r)
    /\ dynsym_index' = IF SliceEnd(t) = Len(storage) /\ t = "SYMTAB" THEN dynsym_index + 1 ELSE dynsym_index
    /\ inOrder' = (inOrder /\ SliceEnd(t) = Len(storage))

------------------------------------------------------------------------------
Init ==
    /\ layout \in Layouts /\ tracking \in BOOLEAN /\ slice \in {"SYMTAB", "DYNSYM"}
    /\ has_mapsym = FALSE /\ isa_ranges = << >> /\ storage = << >> /\ dynsym_index = 0
    /\ inOrder = TRUE

\* start_reading, on_start_symbols: the other table.
StartReading ==
    /\ slice' \in {"SYMTAB", "DYNSYM"} \ {slice}
    /\ has_mapsym' = FALSE
    /\ UNCHANGED <<layout, tracking, isa_ranges, storage, dynsym_index, inOrder>>

ReadSymbol ==
    /\ Len(storage) < MaxSyms
    /\ \E s \in MappingSymbols \cup Functions :
          /\ AppendTo(slice, OnSymbolRead(ReadItem(s)))
          /\ has_mapsym' = (has_mapsym \/ IsMappingSymbol(s.name))
          /\ isa_ranges' = IF s.name \in {"$a", "$t"} /\ tracking
                           THEN SetIsa(s, IF s.name = "$a" THEN "arm" ELSE "thumb") ELSE isa_ranges
    /\ UNCHANGED <<layout, tracking, slice>>

Next == StartReading \/ ReadSymbol

Spec == Init /\ [][Next]_vars

------------------------------------------------------------------------------
\* A function is at its address, and is told to be Thumb exactly when it is, when it is
\* marked as one or its mapping symbols are tracked and were read before it, in whichever
\* table; of functions that are read before theirs, only that a marked Thumb one is told
\* (arm_arch_specific_t::on_symbol_read, get_isa). Symbols whose binding is not known
\* stay as they are.
IsaIsTold ==
    \A i \in DOMAIN storage :
        LET r == storage[i]
            isThumb == Isa(r.of.sec, r.of.ea) = "thumb"
        IN  r.of.name = "f" /\ r.of.bind # "5" =>
              /\ r.value = r.of.ea + Bias /\ r.type # "ARM_TFUNC"
              /\ isThumb /\ r.of.mark # "bare" => r.thumb
              /\ ~isThumb /\ (r.mapped \/ ~tracking) => ~r.thumb
              /\ isThumb /\ tracking /\ r.mapped => r.thumb

\* No symbol is lost; and when those of SYMTAB come first, the slices are the two tables
\* (symrel_cache_t::append).
CacheHolds ==
    /\ {storage[i].n : i \in DOMAIN storage} = 1 .. Len(storage)
    /\ inOrder => \A t \in {"SYMTAB", "DYNSYM"} : \A i \in DOMAIN Slice(t) : Slice(t)[i].in = t

SymbolsHold == IsaIsTold /\ CacheHolds

\* In that order, a pointer taken of a symbol stays one to it (symrel_cache_t::get_ptr).
PointersStay ==
    inOrder' => \A i \in DOMAIN storage : \A p \in {GetPtr(i)} : Get(p.type, p.idx)' = storage[i]
=============================================================================
