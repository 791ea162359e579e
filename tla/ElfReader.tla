------------------------------ MODULE ElfReader ------------------------------
(* The ELF reader (reader_t, symelf.cpp) as operators on an abstract file: what   *)
(* its header, its tables and its dynamic information are taken to be, and what a *)
(* visitor is shown of them; and what the server does with the names it reads.    *)
(*                                                                              *)
(* A file is a record: size; ehdr, its header; msb, is64: how its numbers are     *)
(* really written; at: position -> what is stored there. The header takes         *)
(* positions 0 and 1; a table entry and a string take one position each, so the   *)
(* right size of an entry is 1. A read behind the end fails; a read of something  *)
(* else gives zeros.                                                              *)
EXTENDS Integers, Sequences, FiniteSets, SequencesExt, FiniteSetsExt, TLC

BADADDR == -1
NotFound == 1000000     \* (size_t) -1, a place behind every file
Failed == [failed |-> TRUE]
Entsize == 1
Readable(f, pos) == pos >= 0 /\ pos < f.size

Blank(kind) ==
    CASE kind = "ph" -> [k |-> "ph", type |-> "NULL", offset |-> 0, vaddr |-> 0, filesz |-> 0, memsz |-> 0]
      [] kind = "sh" -> [k |-> "sh", name |-> 0, type |-> "NULL", offset |-> 0, size |-> 0, link |-> 0, entsize |-> 0]
      [] kind = "sym" -> [k |-> "sym", name |-> 0, shndx |-> "UNDEF", type |-> "NOTYPE", value |-> 0]
      [] kind = "dyn" -> [k |-> "dyn", tag |-> "NULL", un |-> 0]

\* r: the file and the byte order and width it is read in.
Understood(r) == r.msb = r.file.msb /\ r.is64 = r.file.is64
Cell(r, kind, pos) ==
    IF pos \in DOMAIN r.file.at /\ r.file.at[pos].k = kind /\ Understood(r) THEN r.file.at[pos] ELSE Blank(kind)

------------------------------------------------------------------------------
(* The header. A warning never stops the reader: silent_handler returns is_warning. *)

\* lincpus: for these the kernel does not look at class and order.
LinuxCpus == ("386" :> FALSE) @@ ("X86_64" :> TRUE)

CheckIdent(f, r) ==
    IF f.ehdr.machine \in DOMAIN LinuxCpus /\ f.ehdr.type \in {"EXEC", "DYN"}
      THEN [r EXCEPT !.msb = FALSE, !.is64 = @ /\ LinuxCpus[f.ehdr.machine]]
      ELSE r

\* read_header and the look at the ident in _load_elf_symbols; e is the header, r the file
\* as its ident says it is to be read.
HeaderRead(f, e, r) ==
    LET shstrndx == IF e.shstrndx >= e.shnum THEN 0 ELSE e.shstrndx
        phnum == IF e.phoff = 0 THEN 0 ELSE e.phnum
        finish == e.shoff + e.shnum * e.shentsize
        shnum == IF \/ e.shnum # 0 /\ e.shentsize < Entsize
                    \/ (e.shnum = 0) # (e.shoff = 0) \/ finish > f.size
                 THEN 0 ELSE e.shnum
    IN  IF \/ f.size < 2 \/ ~e.magic \/ e.class \notin {"32", "64"} \/ e.bytesex \notin {"LSB", "MSB"}
           \/ ~Understood(r)              \* the rest of the header is not its own
           \/ e.phnum # 0 /\ e.phentsize < Entsize
          THEN Failed
          ELSE [failed |-> FALSE, r |-> r, phnum |-> phnum, phoff |-> e.phoff, phentsize |-> e.phentsize,
                shnum |-> shnum, shoff |-> e.shoff, shentsize |-> e.shentsize, shstrndx |-> shstrndx]

\* read_ident, then the rest.
ReadHeader(f) ==
    HeaderRead(f, f.ehdr,
               CheckIdent(f, [file |-> f, msb |-> f.ehdr.bytesex = "MSB", is64 |-> f.ehdr.class = "64"]))

------------------------------------------------------------------------------
(* Tables *)

NoDlt == [offset |-> 0, size |-> 0, link |-> 0]
\* A place that was not found counts as one.
Valid(dlt) == dlt.offset # 0

\* file_offset: in the first segment read so far that holds the address.
FileOffset(mappings, ea) ==
    LET hits == {i \in DOMAIN mappings : mappings[i].vaddr <= ea /\ ea < mappings[i].vaddr + mappings[i].filesz}
    IN  IF hits = {} THEN NotFound ELSE ea - mappings[Min(hits)].vaddr + mappings[Min(hits)].offset

\* read_program_headers; a table that cannot be read ends everything (map_pht).
PhPos(h, i) == h.phoff + (i - 1) * h.phentsize

\* set_image_base and the dynamic segment, of the segments ph.
Segments(ph) ==
    LET loads == {ph[i].vaddr : i \in {j \in DOMAIN ph : ph[j].type = "LOAD"}}
        dyns == {i \in DOMAIN ph : ph[i].type = "DYNAMIC"}
        dlt(i) == [offset |-> FileOffset(SubSeq(ph, 1, i - 1), ph[i].vaddr),
                   size |-> IF ph[i].filesz > ph[i].memsz THEN ph[i].filesz ELSE ph[i].memsz,
                   link |-> -1]
    IN  [failed |-> FALSE, mappings |-> ph,
         base |-> IF loads = {} THEN BADADDR ELSE Min(loads),
         dlt |-> IF dyns = {} THEN NoDlt ELSE dlt(Max(dyns))]

ReadProgramHeaders(h) ==
    IF \E i \in 1 .. h.phnum : ~Readable(h.r.file, PhPos(h, i)) THEN Failed
    ELSE Segments([i \in 1 .. h.phnum |-> Cell(h.r, "ph", PhPos(h, i))])
NoProgramHeaders == [failed |-> FALSE, base |-> BADADDR, mappings |-> << >>, dlt |-> NoDlt]

\* get_string_at: a name behind the end is empty, and "truncated" when the read fails.
StringAt(r, pos) ==
    IF Readable(r.file, pos) /\ pos \in DOMAIN r.file.at /\ r.file.at[pos].k = "str"
    THEN r.file.at[pos].s ELSE ""

\* getn: sections count from 0.
Getn(sh, index) == IF index + 1 \in DOMAIN sh THEN sh[index + 1] ELSE Failed

\* section_headers_t::get_name(out, names_section, offset); di: the dynamic information,
\* for names_section -1.
NameFrom(r, from, offset) ==
    IF offset >= from.size /\ from.size # 0 THEN "bad offset" ELSE StringAt(r, offset + from.offset)

GetName(r, sh, di, section, offset) ==
    IF section # -1 /\ sh = << >> THEN ""
    ELSE NameFrom(r, CASE section = -1 /\ di.ok -> di.strtab
                       [] section + 1 \in DOMAIN sh -> sh[section + 1]
                       [] OTHER -> NoDlt, offset)

\* read_section_headers: the sections, and the index of each well-known one (0: none).
NoDi == [ok |-> FALSE, strtab |-> NoDlt, symtab |-> NoDlt, dinfo |-> << >>]
WKS == {"SYMTAB", "STRTAB", "DYNSYM", "DYNSTR", "INTERP"}
NoWks == [w \in WKS |-> 0]

Known(wks, i, s, name) ==
    CASE s.size = 0 -> wks
      [] s.type = "STRTAB" /\ name = ".strtab" -> [wks EXCEPT !["STRTAB"] = i]
      [] s.type = "STRTAB" /\ name = ".dynstr" -> [wks EXCEPT !["DYNSTR"] = i]
      [] s.type = "SYMTAB" -> [wks EXCEPT !["SYMTAB"] = i, !["STRTAB"] = s.link]
      [] s.type = "DYNSYM" -> [wks EXCEPT !["DYNSYM"] = i, !["DYNSTR"] = s.link]
      [] s.type = "PROGBITS" /\ name = ".interp" -> [wks EXCEPT !["INTERP"] = i]
      [] OTHER -> wks

Sections(h, sh) ==
    LET dyns == {i \in DOMAIN sh : sh[i].type = "DYNAMIC"}
        name(s) == IF h.shstrndx = 0 THEN "" ELSE GetName(h.r, sh, NoDi, h.shstrndx, s.name)
        dlt(s) == [offset |-> s.offset, size |-> s.size, link |-> s.link]
    IN  [sh |-> sh,
         wks |-> FoldLeft(LAMBDA w, i : Known(w, i, sh[i + 1], name(sh[i + 1])), NoWks,
                          [i \in 1 .. h.shnum - 1 |-> i]),
         dlt |-> IF dyns = {} THEN NoDlt ELSE dlt(sh[Max(dyns)])]

ReadSectionHeaders(h) ==
    Sections(h, [i \in 1 .. h.shnum |-> Cell(h.r, "sh", h.shoff + (i - 1) * h.shentsize)])
NoSections == [sh |-> << >>, wks |-> NoWks, dlt |-> NoDlt]

------------------------------------------------------------------------------
(* Entries of a table: buffered_input_t *)

\* get_size_in_file: index is that of the section, -1 for one that was made up.
SizeInFile(f, sh, index, s) ==
    LET next == IF index > -1 /\ index + 1 < Len(sh) /\ sh[index + 2].offset >= s.offset
                THEN sh[index + 2].offset ELSE f.size
        atMost(left) == IF left < 0 \/ s.size < left THEN s.size ELSE left      \* unsigned
    IN  IF s.type = "NOBITS" THEN 0 ELSE atMost(next - s.offset)

\* Up to the first one that cannot be read.
Entries(r, sh, index, s, kind) ==
    LET count == IF s.entsize = 0 THEN 0 ELSE SizeInFile(r.file, sh, index, s) \div s.entsize
        pos(i) == s.offset + (i - 1) * Entsize
    IN  FoldLeft(LAMBDA es, i : IF Len(es) = i - 1 /\ Readable(r.file, pos(i))
                                THEN Append(es, Cell(r, kind, pos(i))) ELSE es,
                 << >>, [i \in 1 .. count |-> i])

------------------------------------------------------------------------------
(* Dynamic information *)

UpToNull(dinfo) ==
    LET nulls == {i \in DOMAIN dinfo : dinfo[i].tag = "NULL"}
    IN  IF nulls = {} THEN dinfo ELSE SubSeq(dinfo, 1, Min(nulls))

\* The last entry of a tag counts; 0 when there is none.
Tag(dinfo, tag) ==
    LET at == {i \in DOMAIN dinfo : dinfo[i].tag = tag}
    IN  IF at = {} THEN 0 ELSE dinfo[Max(at)].un
HasTag(dinfo, tag) == \E i \in DOMAIN dinfo : dinfo[i].tag = tag

\* parse_dynamic_info. How many symbols there are is said nowhere: the table is taken to
\* end where the next one that is known begins.
DynamicInfo(dinfo, off) ==
    LET others == {o \in {off[t] : t \in {"REL", "RELA", "JMPREL", "HASH"}} : o > off["SYMTAB"]}
        upto(next) == IF next > off["SYMTAB"] THEN next - off["SYMTAB"] ELSE 0
    IN  IF off["SYMTAB"] = 0 \/ off["STRTAB"] = 0 THEN NoDi
        ELSE [ok |-> TRUE, dinfo |-> dinfo,
              strtab |-> [offset |-> off["STRTAB"], size |-> Tag(dinfo, "STRSZ"), link |-> 0],
              symtab |-> [offset |-> off["SYMTAB"], link |-> 0, size |-> upto(Min(others \cup {off["STRTAB"]}))]]

Placed(mappings, dinfo) ==
    DynamicInfo(dinfo, [t \in {"SYMTAB", "STRTAB", "REL", "RELA", "JMPREL", "HASH"} |->
                          IF HasTag(dinfo, t) THEN FileOffset(mappings, Tag(dinfo, t)) ELSE 0])

ParseDynamicInfo(r, mappings, dlt) ==
    LET fake == [type |-> "DYNAMIC", offset |-> dlt.offset, size |-> dlt.size, entsize |-> Entsize]
    IN  IF dlt.size = 0 THEN NoDi ELSE Placed(mappings, UpToNull(Entries(r, << >>, -1, fake, "dyn")))

------------------------------------------------------------------------------
(* What a visitor is shown: _load_elf_symbols *)

\* Everything read of a file before the visitor is asked; based: whether that includes
\* an image base.
Nothing == [failed |-> TRUE, based |-> FALSE]

WithDlt(h, p, s, dlt) ==
    [failed |-> FALSE, r |-> h.r, sh |-> s.sh, wks |-> s.wks, dlt |-> dlt,
     based |-> h.phnum # 0, base |-> p.base,
     di |-> IF Valid(dlt) THEN ParseDynamicInfo(h.r, p.mappings, dlt) ELSE NoDi]

WithSections(h, p, s) == WithDlt(h, p, s, IF Valid(s.dlt) THEN s.dlt ELSE p.dlt)

WithSegments(h, p) ==
    IF p.failed THEN Nothing
    ELSE WithSections(h, p, IF h.shnum = 0 THEN NoSections ELSE ReadSectionHeaders(h))

WithHeader(h) ==
    IF h.failed THEN Nothing
    ELSE WithSegments(h, IF h.phnum = 0 THEN NoProgramHeaders ELSE ReadProgramHeaders(h))

Parse(f) == WithHeader(ReadHeader(f))

\* imagebase is a global: without program headers it is that of the file read before.
Imagebase(l, imagebase) == IF l.based THEN l.base ELSE imagebase

\* Seeded bug: symbols are shown at the address the file was linked for.
ValueLinked(st_value, imagebase) == st_value

Value(st_value, imagebase) == IF imagebase = BADADDR THEN st_value ELSE st_value - imagebase

\* handle_symbol: what is defined here, an object or a function, and has a name.
Shown(sym) ==
    /\ sym.shndx \notin {"UNDEF", "LOPROC", "HIPROC", "ABS"}
    /\ sym.type \in {"OBJECT", "FUNC"} /\ sym.name # 0

\* load_symbols; the first one is skipped.
LoadSymbols(l, imagebase, index, s, namsec) ==
    LET seen(sym) == [ea |-> Value(sym.value, imagebase), name |-> GetName(l.r, l.sh, l.di, namsec, sym.name)]
        all(syms) == FoldLeft(LAMBDA out, sym : IF Shown(sym) THEN Append(out, seen(sym)) ELSE out,
                              << >>, SubSeq(syms, 2, Len(syms)))
    IN  all(Entries(l.r, l.sh, index, s, "sym"))

\* VISIT_SYMBOLS: the symbols of both tables, or those the dynamic information leads to.
Symbols(l, imagebase) ==
    LET w == l.wks
        table(i, names) == IF i = 0 \/ i >= Len(l.sh) THEN << >> ELSE LoadSymbols(l, imagebase, i, Getn(l.sh, i), names)
        fake == [type |-> "DYNSYM", offset |-> l.di.symtab.offset, size |-> l.di.symtab.size, entsize |-> Entsize]
    IN  IF w["SYMTAB"] # 0 \/ w["DYNSYM"] # 0
          THEN table(w["SYMTAB"], w["STRTAB"]) \o table(w["DYNSYM"], w["DYNSTR"])
          ELSE IF l.di.symtab.size = 0 THEN << >> ELSE LoadSymbols(l, imagebase, -1, fake, -1)

\* VISIT_DYNINFO, up to the first soname; "" when there is none.
Soname(l) ==
    LET link == IF l.dlt.link = 0 /\ l.wks["DYNSYM"] # 0 THEN Getn(l.sh, l.wks["DYNSYM"]).link ELSE l.dlt.link
        at == {i \in DOMAIN l.di.dinfo : l.di.dinfo[i].tag = "SONAME"}
    IN  IF at = {} THEN "" ELSE GetName(l.r, l.sh, l.di, link, l.di.dinfo[Min(at)].un)

\* VISIT_INTERP
Interp(l) == IF l.wks["INTERP"] = 0 THEN "" ELSE GetName(l.r, l.sh, l.di, l.wks["INTERP"], 0)

------------------------------------------------------------------------------
(* The names of the libraries of the debugged process: read from their files when  *)
(* the client stops at an event, and given to it.                                  *)
(*                                                                              *)
(* The input layer is external: open_linput, qlread and lreadbytes of this build   *)
(* are stubs (pro.cpp, diskio.cpp), and with them no file is ever opened. Here a   *)
(* file opens or does not, and reads up to its end.                                *)

CONSTANTS Files,      \* id -> abstract file, with what they really hold (see Truth)
          Addresses,  \* where libraries are loaded
          MaxSteps    \* bound: what the server is asked to do

\* Truth: a file's field "truth" is what its maker wrote: exports, a set of pairs of an
\* offset in the library and a name; soname; interp; whole, when nothing is missing.

VARIABLES imagebase,    \* global of symelf.cpp
          dlls,         \* address -> id of its file
          toImport,     \* dlls_to_import
          client,       \* names the client was sent
          interp, complained,
          answer,       \* the last soname or interpreter found: << >> or a record
          steps

vars == <<imagebase, dlls, toImport, client, interp, complained, answer, steps>>

Step == steps < MaxSteps /\ steps' = steps + 1

\* What is read of each file, whenever it is.
Parsed == [id \in DOMAIN Files |-> Parse(Files[id])]

\* load_elf_symbols: -1 when the file does not open; the visitor is then shown nothing.
Opened == BOOLEAN

\* get_soname; add_dll takes the answer for the name of the image.
GetSoname(l, opened) == IF ~opened \/ l.failed THEN "" ELSE Soname(l)

AddDll ==
    /\ Step
    /\ \E base \in Addresses \ DOMAIN dlls, file \in DOMAIN Files, opened \in Opened :
          /\ dlls' = dlls @@ (base :> file)
          /\ toImport' = toImport \cup {base}
          /\ answer' = <<[file |-> file, soname |-> GetSoname(Parsed[file], opened), opened |-> opened]>>
          /\ imagebase' = IF opened THEN Imagebase(Parsed[file], imagebase) ELSE imagebase
    /\ UNCHANGED <<client, interp, complained>>

\* A library is unloaded before its names were asked for, or after.
DelDll ==
    /\ Step
    /\ \E base \in DOMAIN dlls : dlls' = [b \in DOMAIN dlls \ {base} |-> dlls[b]]
    /\ client' = [b \in DOMAIN client \cap DOMAIN dlls' |-> client[b]]
    /\ UNCHANGED <<imagebase, toImport, interp, complained, answer>>

\* What the file l, read with the image base at, adds to the names of s.
Imported(s, base, l, at) ==
    [opens |-> Tail(s.opens), imagebase |-> at,
     names |-> FoldLeft(LAMBDA ns, sym : Append(ns, [base |-> base, ea |-> base + sym.ea, name |-> sym.name]),
                        s.names, IF l.failed THEN << >> ELSE Symbols(l, at))]

\* import_dll, for one base after the other: the names go behind what is there.
ImportDll(s, base) ==
    IF base \notin DOMAIN dlls THEN [s EXCEPT !.opens = Tail(@)]
    ELSE IF ~Head(s.opens) THEN [s EXCEPT !.opens = Tail(@)]
    ELSE Imported(s, base, Parsed[dlls[base]], Imagebase(Parsed[dlls[base]], s.imagebase))

\* enum_names, of all libraries in the order of their addresses.
EnumNames(opens) ==
    FoldLeft(ImportDll, [opens |-> opens, imagebase |-> imagebase, names |-> << >>], SetToSortSeq(toImport, <))

\* dbg_stopped_at_debug_event, and the client takes the names: pending_names is empty
\* again. Of libpthread all names ever read are sent once more (nptl_names).
StoppedAtDebugEvent ==
    /\ Step
    /\ \E opens \in [1 .. Cardinality(toImport) -> Opened] : \E s \in {EnumNames(opens)} :
          LET told == [b \in toImport \cap DOMAIN dlls |-> SelectSeq(s.names, LAMBDA n : n.base = b)]
              at(b) == Cardinality({c \in toImport : c <= b})
          IN  /\ imagebase' = s.imagebase
              /\ client' = [b \in DOMAIN told |-> [names |-> told[b], opened |-> opens[at(b)]]] @@ client
    /\ toImport' = {}
    /\ UNCHANGED <<dlls, interp, complained, answer>>

\* add_shlib_bpt: the interpreter is asked of the program; on Android nothing comes of it.
AddShlibBpt ==
    /\ Step /\ interp = ""
    /\ \E exe \in DOMAIN Files, opened \in Opened : \E l \in {Parsed[exe]} :
          /\ interp' = IF ~opened \/ l.failed THEN "" ELSE Interp(l)
          /\ complained' = (complained \/ (opened /\ ~l.failed /\ l.wks["INTERP"] = 0))
          /\ imagebase' = IF opened THEN Imagebase(l, imagebase) ELSE imagebase
          /\ answer' = <<[file |-> exe, interp |-> interp', opened |-> opened]>>
    /\ UNCHANGED <<dlls, toImport, client>>

Cleanup ==
    /\ Step
    /\ dlls' = << >> /\ toImport' = {} /\ interp' = "" /\ complained' = FALSE
    /\ client' = << >> /\ UNCHANGED <<imagebase, answer>>

------------------------------------------------------------------------------
Init ==
    /\ imagebase = 0 /\ dlls = << >> /\ toImport = {} /\ client = << >>
    /\ interp = "" /\ complained = FALSE /\ answer = << >> /\ steps = 0

Next == AddDll \/ DelDll \/ StoppedAtDebugEvent \/ AddShlibBpt \/ Cleanup

Spec == Init /\ [][Next]_vars

------------------------------------------------------------------------------
\* What the client was told of a library is what its file holds, at the place where it is
\* loaded: all of it when nothing of the file is missing, nothing else in any case (but
\* for names that are missing with the end of the file); however the program is linked,
\* stripped, or read before and after others. Files without program headers are left
\* out: they are placed by the file read before them (_load_elf_symbols, import_dll).
NamesAreRight ==
    \A b \in DOMAIN client \cap DOMAIN dlls :
        LET t == Files[dlls[b]].truth
            told == {[offset |-> n.ea - b, name |-> n.name] : n \in Range(client[b].names)}
        IN  Files[dlls[b]].ehdr.phnum # 0 /\ client[b].opened =>
              IF t.whole THEN told = t.exports
              ELSE \A n \in told : \E e \in t.exports : e.offset = n.offset /\ n.name \in {e.name, ""}

\* The name a library calls itself, and the interpreter a program asks for, are told when
\* the file is whole; the interpreter is looked for among the sections (get_soname,
\* add_shlib_bpt).
AnswersAreRight ==
    \A a \in Range(answer) :
        LET f == Files[a.file]
        IN  a.opened /\ f.truth.whole =>
              IF "soname" \in DOMAIN a THEN a.soname = f.truth.soname
              ELSE f.ehdr.shnum # 0 => a.interp = f.truth.interp

ElfHolds == NamesAreRight /\ AnswersAreRight
=============================================================================
