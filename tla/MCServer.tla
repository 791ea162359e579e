-------------------- MODULE MCServer --------------------
(* The parts of the server beside its thread engine and its sessions, in one     *)
(* run: each behaviour is about one of them, chosen in the initial state, and    *)
(* the variables of the others stay 0.  The parts of the debugger module come     *)
(* first; the packets, the remote files, the names of libraries and the           *)
(* containers everything is built on follow.                                     *)
EXTENDS Breakpoints, HwBpts, Appcall, RemoteFiles, TLC

\* Processors and programs for Breakpoints.  x86: one-byte trap code, reported behind
\* it; ARM: trap codes of one (Thumb) and two halfwords, reported at the instruction.
X86 == [threads |-> {1, 2}, advance |-> 1, trap |-> <<1, 1>>,
        insns |-> (0 :> 1) @@ (1 :> 2) @@ (3 :> 1), drops |-> "never"]
ARM == [threads |-> {1, 2}, advance |-> 0, trap |-> <<1, 2>>,
        insns |-> (0 :> 1) @@ (1 :> 2) @@ (3 :> 1), drops |-> "never"]
BrokenX86 == [X86 EXCEPT !.threads = {1}, !.drops = "held"]
BrokenARM == [ARM EXCEPT !.drops = "anytime"]
MCMachines == {X86, ARM, BrokenX86, BrokenARM}

\* Double words for Packing, [high, low] halves: the edges of its four forms.
MCDwords == {<<0, 0>>, <<0, 127>>, <<0, 128>>, <<0, 16382>>, <<0, 16383>>, <<0, 16384>>,
             <<0, 65535>>, <<8191, 65535>>, <<8192, 0>>, <<65535, 65535>>}

\* Command lines and hosts for Listening: no option, a name that is no address, a port
\* of more than sixteen bits, an address that is not of this machine, a broken list.
Opt(s, a) == [sw |-> s, arg |-> a]
MCCmdLines == {<< >>, <<Opt("i", "lo")>>, <<Opt("p", 89482), Opt("i", "bad"), Opt("v", "")>>,
               <<Opt("i", "lan"), Opt("p", 80), Opt("i", "lo"), Opt("x", ""), Opt("P", "pw"), Opt("k", "")>>,
               <<Opt("p", 80), Opt("", "p"), Opt("p", 81)>>, <<Opt("i", "far")>>}
MCHosts == [a |-> <<"lan", "lo">>, b |-> <<"far", "lo">>]

\* One structure of each kind for Codec.
Ev(id, rest) == [what |-> "event", eid |-> id, pid |-> 1, tid |-> 2, ea |-> 3, handled |-> 1, tail |-> rest]
IntV(n) == [rvtype |-> -1, v |-> n]
Ros == <<[regidx |-> 1, relocate |-> 1, value |-> <<7,8>>], [regidx |-> 2, relocate |-> 0, value |-> <<>>]>>
MCStructures ==
  {Ev("THREAD_START", <<>>), Ev("LIBRARY_LOAD", <<"lib", 1, 2, 3>>), Ev("THREAD_EXIT", <<5>>), Ev("BREAKPOINT", <<1, 2>>),
   Ev("EXCEPTION", <<1, 0, 5, "info">>), Ev("LIBRARY_UNLOAD", <<"lib">>),
   [what |-> "memory", sbase |-> 1, start |-> 40, size |-> 9, perm |-> 5, bitness |-> 1, name |-> "n", sclass |-> "c"],
   [what |-> "process", vals |-> <<3, "p">>], [what |-> "attrs", vals |-> <<4, "linux">>],
   [what |-> "stack", frames |-> <<<<1,2,3,0>>, <<4,5,6,1>>>>],
   [what |-> "exceptions", table |-> <<<<1,2,"a","b">>>>], [what |-> "exceptions", table |-> <<>>],
   [what |-> "appcall", manual |-> TRUE, regargs |-> Ros, stkargs |-> [data |-> <<>>, base |-> 4, ri |-> <<1>>], retregs |-> <<>>],
   [what |-> "appcall", manual |-> FALSE, regargs |-> <<>>, stkargs |-> [data |-> <<1,2>>, base |-> 4, ri |-> <<>>], retregs |-> Ros],
   [what |-> "regs", regmap |-> {1, 3}, values |-> <<IntV(4), IntV(5), [rvtype |-> -2, v |-> <<1, 2>>]>>],
   [what |-> "regs", regmap |-> {2, 3}, values |-> <<IntV(4), [rvtype |-> 0, v |-> <<>>], [rvtype |-> 0, v |-> <<9>>]>>],
   [what |-> "bpts", adds |-> <<[ea |-> 5, size |-> 1, type |-> 4], [ea |-> 9, size |-> 1, type |-> 4]>>, dels |-> <<[ea |-> 7, orgbytes |-> <<1>>, type |-> 4], [ea |-> 8, orgbytes |-> <<>>, type |-> 3]>>]}
\* Tables of names that share their beginnings.
Letters == {<<"a">>, <<"a","b">>, <<"a","b","c">>, <<"b">>}
MCNames == {<<>>} \cup UNION {[1 .. n -> {[ea |-> e, name |-> l] : e \in {3, 5, 1}, l \in Letters}] : n \in 1 .. 2}
 \cup {<<[ea|->4,name|-><<"a","b">>],[ea|->2,name|-><<"a","b","c">>],[ea|->2,name|-><<"a">>],[ea|->9,name|-><<"a","c">>]>>}
\* Libraries for ElfNames, written the way a linker lays them out, one cell for every
\* record of the file.  A library is written by its maker as a record of choices:
\*   bytes: its byte order and class as the ident says, and as they are;
\*   pht, sht, named: program headers, section headers, section names are there;
\*   syms, hash: the order of the dynamic tables; base: what it is linked for; cut: its length
Sym(n, shndx, type, v) == [k |-> "sym", name |-> n, shndx |-> shndx, type |-> type, value |-> v]
Str(s) == [k |-> "str", s |-> s]
Dyn(t, u) == [k |-> "dyn", tag |-> t, un |-> u]
Sh(n, t, o, z, l) == [k |-> "sh", name |-> n, type |-> t, offset |-> o, size |-> z, link |-> l, entsize |-> 1]
Ph(t, o, v, z) == [k |-> "ph", type |-> t, offset |-> o, vaddr |-> v, filesz |-> z, memsz |-> z]
\* 0-1 header, 2-3 program headers, 4-7 .dynsym, 8 .hash or .dynstr, ...
DynSyms(b) == <<Sym(0, "UNDEF", "NOTYPE", 0), Sym(1, "1", "FUNC", b + 4), Sym(2, "UNDEF", "FUNC", 0), Sym(3, "2", "OBJECT", b + 5)>>
Syms(b) == <<Sym(0, "UNDEF", "NOTYPE", 0), Sym(1, "1", "FUNC", b + 6), Sym(2, "ABS", "OBJECT", b + 1)>>
File(em, fields, actual, pht, sht, named, symtab, b, cut) ==
    LET dynsym == DynSyms(b)
        dynstr == <<Str(""), Str("f"), Str("g"), Str("v"), Str("lib")>>
        dyn == <<Dyn("SONAME", 4), Dyn("STRTAB", b + 9), Dyn("STRSZ", 5), Dyn("SYMTAB", b + 4), Dyn("HASH", b + 8), Dyn("NULL", 0)>>
        strtab == <<Str(""), Str("s"), Str("a")>>
        shstr == <<Str(""), Str(".interp"), Str(".strtab"), Str(".dynstr"), Str("x")>>
        sh == <<Sh(0, "NULL", 0, 0, 0), Sh(4, "DYNSYM", 4, 4, 2), Sh(3, "STRTAB", 9, 5, 0), Sh(4, "DYNAMIC", 14, 6, 2),
                Sh(1, "PROGBITS", 20, 1, 0)>> \o
              (IF symtab THEN <<Sh(4, "SYMTAB", 21, 3, 6), Sh(2, "STRTAB", 24, 3, 0)>> ELSE <<>>) \o <<Sh(4, "STRTAB", 27, 5, 0)>>
        body == <<Ph("LOAD", 0, b, 21), Ph("DYNAMIC", 14, b + 14, 6)>> \o dynsym \o <<Str("hash")>> \o dynstr \o dyn
                \o <<Str("/ld")>> \o Syms(b) \o strtab \o shstr \o sh
        at == [p \in 2 .. Len(body) + 1 |-> body[p - 1]]
        size == IF sht THEN 32 + Len(sh) ELSE 21
        exports == {[offset |-> 4, name |-> "f"], [offset |-> 5, name |-> "v"]}
                   \cup (IF sht /\ symtab THEN {[offset |-> 6, name |-> "s"]} ELSE {})
    IN  [size |-> IF cut < size THEN cut ELSE size, msb |-> actual.msb, is64 |-> actual.is64, at |-> at,
         ehdr |-> [magic |-> TRUE, class |-> fields.class, bytesex |-> fields.bytesex, machine |-> em, type |-> "DYN",
                   phoff |-> IF pht THEN 2 ELSE 0, phnum |-> IF pht THEN 2 ELSE 0, phentsize |-> 1,
                   shoff |-> IF sht THEN 32 ELSE 0, shnum |-> IF sht THEN Len(sh) ELSE 0, shentsize |-> 1,
                   shstrndx |-> IF ~sht THEN 0 ELSE IF named THEN Len(sh) - 1 ELSE 60],
         truth |-> [exports |-> exports, soname |-> "lib", interp |-> IF named THEN "/ld" ELSE "", whole |-> cut >= size]]
Arm == [class |-> "32", bytesex |-> "LSB"]
Little == [msb |-> FALSE, is64 |-> FALSE]

\* Libraries: as usual; linked for an address and stripped; with the names of the sections
\* missing; without sections; with an ident that says nothing true of the file (a library
\* of an i386 device); big-endian; without program headers; and cut in a table of
\* segments, of dynamic symbols or of sections.
MCFiles ==
    <<File("ARM", Arm, Little, TRUE, TRUE, TRUE, TRUE, 0, 100),
      File("ARM", Arm, Little, TRUE, TRUE, TRUE, FALSE, 3, 100),
      File("ARM", Arm, Little, TRUE, TRUE, FALSE, TRUE, 3, 100),
      File("ARM", Arm, Little, TRUE, FALSE, FALSE, FALSE, 3, 100),
      File("386", [class |-> "64", bytesex |-> "MSB"], Little, TRUE, TRUE, TRUE, TRUE, 0, 100),
      File("ARM", [Arm EXCEPT !.bytesex = "MSB"], [Little EXCEPT !.msb = TRUE], TRUE, TRUE, TRUE, TRUE, 3, 100),
      File("ARM", Arm, Little, FALSE, TRUE, TRUE, TRUE, 0, 100),
      File("ARM", Arm, Little, TRUE, TRUE, TRUE, TRUE, 3, 3),
      File("ARM", Arm, Little, TRUE, FALSE, FALSE, FALSE, 3, 6),
      File("ARM", Arm, Little, TRUE, FALSE, FALSE, FALSE, 3, 16),
      File("ARM", Arm, Little, TRUE, TRUE, TRUE, TRUE, 3, 39)>>

\* Tables for ElfInput: up to three buffers of two entries; every width, byte order and
\* kind of table; addends and offsets with something in each word, and a type that is too
\* long for a byte.
Narrow(k) == [offset |-> <<k, 0>>, sym |-> k, type |-> 7, addend |-> IF k = 2 THEN <<-2, -1>> ELSE <<k, 0>>]
Wide(k) == [offset |-> <<k, 9>>, sym |-> k, type |-> 258, addend |-> <<k, -2>>]
Items(is64, n) == [k \in 1 .. n |-> IF is64 THEN Wide(k) ELSE Narrow(k)]
Relocs(odd, beyond, plt) ==
    {[kind |-> kind, plt |-> plt, is64 |-> is64, msb |-> msb, odd |-> odd, beyond |-> beyond, items |-> Items(is64, n)]
       : kind \in {"rel", "rela"}, is64 \in BOOLEAN, msb \in BOOLEAN, n \in {0, 2, 3, 5}}
SymbolTables ==
    {[kind |-> "sym", plt |-> FALSE, is64 |-> is64, msb |-> is64, odd |-> FALSE, beyond |-> beyond,
      items |-> [k \in 1 .. n |-> [value |-> k, name |-> IF k = 1 THEN "" ELSE "n"]]]
       : is64 \in BOOLEAN, beyond \in BOOLEAN, n \in {0, 1, 4, 5}}
MCTables == SymbolTables \cup Relocs(FALSE, FALSE, FALSE) \cup Relocs(FALSE, FALSE, TRUE)
            \cup Relocs(TRUE, FALSE, FALSE) \cup Relocs(FALSE, TRUE, FALSE)

\* Code for ElfSymbols: Thumb before ARM with data between them, ARM before Thumb, another
\* section; functions marked in every way, some in two, as in files linked together.
Fn(sec, ea, mark, bind) == [sec |-> sec, ea |-> ea, mark |-> mark, bind |-> bind]
MCLayouts ==
    {[code |-> [A |-> (0 :> "thumb") @@ (2 :> "data") @@ (4 :> "arm"), B |-> (2 :> "arm")],
      functions |-> {Fn("A", 0, "bare", "GLOBAL"), Fn("A", 0, "bit", "14"), Fn("A", 4, "bit", "GLOBAL"),
                     Fn("B", 2, "bare", "WEAK")}],
     [code |-> [A |-> (0 :> "arm") @@ (2 :> "arm") @@ (4 :> "thumb")],
      functions |-> {Fn("A", 0, "16bit", "GLOBAL"), Fn("A", 2, "bare", "GLOBAL"), Fn("A", 4, "tfunc", "LOCAL"),
                     Fn("A", 4, "16bit", "5")}]}


VARIABLES part,
          maps, started, dll_dlls, events, holding, dll_last, view, oldcfg, cfg,
          loads, asked,
          thread, saved, batch, reg_steps,
          procs, dirinfo, pt, found, proclist, listing, seen, listings, changes,
          pk_sent, packet, cut, ptr, pk_got,
          cd_sent, wire, cd_got, names,
          imagebase, elf_dlls, toImport, elf_client, interp, complained, answer,
          elf_steps,
          ei_table, read, cur, end, buffer, served, done,
          layout, tracking, slice, has_mapsym, isa_ranges, storage, dynsym_index,
          inOrder,
          kind, vec, qv_promised,
          body, qs_promised,
          step, flag, status, child, second, kernel, kills, tf_failed,
          server, li_client, sockets, backlog, peer,
          rvtype, data, heap, known, rv_ops,
          list, ql_promised

breakpointsVars == <<machine, mem, own, bpts, removed, table, pc, halt, event, last, may_run, only,
    over, conn, ops>>
hwbptsVars == <<hwbpt, dr7, regs, life, reached, held, failed, touched, hea>>
appcallVars == <<cpu, calls, open, loop, outer, eid, write, skip, broken>>
librariesVars == <<maps, started, dll_dlls, events, holding, dll_last, view, oldcfg, cfg, loads,
    asked>>
registersVars == <<thread, saved, batch, reg_steps>>
processesVars == <<procs, dirinfo, pt, found, proclist, listing, seen, listings, changes>>
integersVars == <<pk_sent, packet, cut, ptr, pk_got>>
structuresVars == <<cd_sent, wire, cd_got, names>>
filesVars == <<disk, channels, handles, reply, lost, requests>>
elfVars == <<imagebase, elf_dlls, toImport, elf_client, interp, complained, answer, elf_steps>>
tablesVars == <<ei_table, read, cur, end, buffer, served, done>>
symbolsVars == <<layout, tracking, slice, has_mapsym, isa_ranges, storage, dynsym_index, inOrder>>
qvectorVars == <<kind, vec, qv_promised>>
qstringVars == <<body, qs_promised>>
forktestVars == <<step, flag, status, child, second, kernel, kills, tf_failed>>
listeningVars == <<server, li_client, sockets, backlog, peer>>
regvalsVars == <<rvtype, data, heap, known, rv_ops>>
qlistVars == <<list, ql_promised>>
serverVars == <<part, breakpointsVars, hwbptsVars, appcallVars, librariesVars, registersVars, processesVars, integersVars, structuresVars, filesVars, elfVars, tablesVars, symbolsVars, qvectorVars, qstringVars, forktestVars, listeningVars, regvalsVars, qlistVars>>

Dll == INSTANCE DllEvents WITH
    Libs <- {"a", "b"}, Bases <- {2, 4}, MaxLoads <- 3, MaxEvents <- 3,
    dlls <- dll_dlls, last <- dll_last
Reg == INSTANCE Registers WITH
    Values <- {0, 1}, MaxBatch <- 2, MaxSteps <- 3, steps <- reg_steps
Pl == INSTANCE ProcessList WITH
    Pids <- {1, 3}, MyPid <- 2, MaxListings <- 2, MaxChanges <- 2
Pk == INSTANCE Packing WITH
    Dwords <- MCDwords, MaxFields <- 2, sent <- pk_sent, got <- pk_got
Cd == INSTANCE Codec WITH
    Structures <- MCStructures, NameLists <- MCNames, PacketSize <- 6,
    MaxStructs <- 2, sent <- cd_sent, got <- cd_got
Elf == INSTANCE ElfReader WITH
    Files <- MCFiles, Addresses <- {100, 200}, MaxSteps <- 3, dlls <- elf_dlls,
    client <- elf_client, steps <- elf_steps
Ei == INSTANCE ElfInput WITH
    Tables <- MCTables, Buffer <- 2, table <- ei_table
Es == INSTANCE ElfSymbols WITH
    Layouts <- MCLayouts, Bias <- 8, MaxSyms <- 3
Qv == INSTANCE Qvector WITH
    Values <- {1, 2}, MaxLen <- 3, promised <- qv_promised
Qs == INSTANCE Qstring WITH
    Chars <- {1, 2}, Blank <- 2, MaxLen <- 4, promised <- qs_promised
Tf == INSTANCE Tracefork WITH
    Kernels <- {"reports", "refuses", "ignores"}, MaxKills <- 1, failed <- tf_failed
Li == INSTANCE Listening WITH
    CmdLines <- MCCmdLines, Hosts <- MCHosts, Here <- {"lo", "lan"},
    Parsable <- {"lo", "lan", "far"}, MaxConnects <- 2, client <- li_client
Rv == INSTANCE RegVals WITH
    Regs <- {1, 2}, Ints <- {3, 4}, Contents <- {<<1>>, <<1, 2>>, <<2>>},
    MaxOps <- 4, ops <- rv_ops
Ql == INSTANCE Qlist WITH
    Values <- {1, 2}, MaxLen <- 3, promised <- ql_promised

\* The variables of the parts a behaviour is not about.
breakpointsIdle == Init /\ machine = X86
hwbptsIdle == HwInit
appcallIdle == AppInit /\ cpu.sp = 3 /\ eid = "OTHER" /\ skip = 0
librariesIdle ==
    /\ maps = 0 /\ started = 0 /\ dll_dlls = 0 /\ events = 0 /\ holding = 0 /\ dll_last = 0
    /\ view = 0 /\ oldcfg = 0 /\ cfg = 0 /\ loads = 0 /\ asked = 0
registersIdle ==
    /\ thread = 0 /\ saved = 0 /\ batch = 0 /\ reg_steps = 0
processesIdle ==
    /\ procs = 0 /\ dirinfo = 0 /\ pt = 0 /\ found = 0 /\ proclist = 0 /\ listing = 0
    /\ seen = 0 /\ listings = 0 /\ changes = 0
integersIdle ==
    /\ pk_sent = 0 /\ packet = 0 /\ cut = 0 /\ ptr = 0 /\ pk_got = 0
structuresIdle ==
    /\ cd_sent = 0 /\ wire = 0 /\ cd_got = 0 /\ names = 0
filesIdle == FilesInit /\ disk = [f \in Files |-> [data |-> <<>>, exec |-> FALSE]]
elfIdle ==
    /\ imagebase = 0 /\ elf_dlls = 0 /\ toImport = 0 /\ elf_client = 0 /\ interp = 0 /\ complained = 0
    /\ answer = 0 /\ elf_steps = 0
tablesIdle ==
    /\ ei_table = 0 /\ read = 0 /\ cur = 0 /\ end = 0 /\ buffer = 0 /\ served = 0
    /\ done = 0
symbolsIdle ==
    /\ layout = 0 /\ tracking = 0 /\ slice = 0 /\ has_mapsym = 0 /\ isa_ranges = 0 /\ storage = 0
    /\ dynsym_index = 0 /\ inOrder = 0
qvectorIdle ==
    /\ kind = 0 /\ vec = 0 /\ qv_promised = 0
qstringIdle ==
    /\ body = 0 /\ qs_promised = 0
forktestIdle ==
    /\ step = 0 /\ flag = 0 /\ status = 0 /\ child = 0 /\ second = 0 /\ kernel = 0
    /\ kills = 0 /\ tf_failed = 0
listeningIdle ==
    /\ server = 0 /\ li_client = 0 /\ sockets = 0 /\ backlog = 0 /\ peer = 0
regvalsIdle ==
    /\ rvtype = 0 /\ data = 0 /\ heap = 0 /\ known = 0 /\ rv_ops = 0
qlistIdle ==
    /\ list = 0 /\ ql_promised = 0

ServerInit ==
    \/ /\ part = "breakpoints" /\ Init
       /\ hwbptsIdle /\ appcallIdle /\ librariesIdle /\ registersIdle /\ processesIdle /\ integersIdle /\ structuresIdle /\ filesIdle /\ elfIdle /\ tablesIdle /\ symbolsIdle /\ qvectorIdle /\ qstringIdle /\ forktestIdle /\ listeningIdle /\ regvalsIdle /\ qlistIdle
    \/ /\ part = "hwbpts" /\ HwInit
       /\ breakpointsIdle /\ appcallIdle /\ librariesIdle /\ registersIdle /\ processesIdle /\ integersIdle /\ structuresIdle /\ filesIdle /\ elfIdle /\ tablesIdle /\ symbolsIdle /\ qvectorIdle /\ qstringIdle /\ forktestIdle /\ listeningIdle /\ regvalsIdle /\ qlistIdle
    \/ /\ part = "appcall" /\ AppInit
       /\ breakpointsIdle /\ hwbptsIdle /\ librariesIdle /\ registersIdle /\ processesIdle /\ integersIdle /\ structuresIdle /\ filesIdle /\ elfIdle /\ tablesIdle /\ symbolsIdle /\ qvectorIdle /\ qstringIdle /\ forktestIdle /\ listeningIdle /\ regvalsIdle /\ qlistIdle
    \/ /\ part = "libraries" /\ Dll!Init
       /\ breakpointsIdle /\ hwbptsIdle /\ appcallIdle /\ registersIdle /\ processesIdle /\ integersIdle /\ structuresIdle /\ filesIdle /\ elfIdle /\ tablesIdle /\ symbolsIdle /\ qvectorIdle /\ qstringIdle /\ forktestIdle /\ listeningIdle /\ regvalsIdle /\ qlistIdle
    \/ /\ part = "registers" /\ Reg!Init
       /\ breakpointsIdle /\ hwbptsIdle /\ appcallIdle /\ librariesIdle /\ processesIdle /\ integersIdle /\ structuresIdle /\ filesIdle /\ elfIdle /\ tablesIdle /\ symbolsIdle /\ qvectorIdle /\ qstringIdle /\ forktestIdle /\ listeningIdle /\ regvalsIdle /\ qlistIdle
    \/ /\ part = "processes" /\ Pl!Init
       /\ breakpointsIdle /\ hwbptsIdle /\ appcallIdle /\ librariesIdle /\ registersIdle /\ integersIdle /\ structuresIdle /\ filesIdle /\ elfIdle /\ tablesIdle /\ symbolsIdle /\ qvectorIdle /\ qstringIdle /\ forktestIdle /\ listeningIdle /\ regvalsIdle /\ qlistIdle
    \/ /\ part = "integers" /\ Pk!Init
       /\ breakpointsIdle /\ hwbptsIdle /\ appcallIdle /\ librariesIdle /\ registersIdle /\ processesIdle /\ structuresIdle /\ filesIdle /\ elfIdle /\ tablesIdle /\ symbolsIdle /\ qvectorIdle /\ qstringIdle /\ forktestIdle /\ listeningIdle /\ regvalsIdle /\ qlistIdle
    \/ /\ part = "structures" /\ Cd!Init
       /\ breakpointsIdle /\ hwbptsIdle /\ appcallIdle /\ librariesIdle /\ registersIdle /\ processesIdle /\ integersIdle /\ filesIdle /\ elfIdle /\ tablesIdle /\ symbolsIdle /\ qvectorIdle /\ qstringIdle /\ forktestIdle /\ listeningIdle /\ regvalsIdle /\ qlistIdle
    \/ /\ part = "files" /\ FilesInit
       /\ breakpointsIdle /\ hwbptsIdle /\ appcallIdle /\ librariesIdle /\ registersIdle /\ processesIdle /\ integersIdle /\ structuresIdle /\ elfIdle /\ tablesIdle /\ symbolsIdle /\ qvectorIdle /\ qstringIdle /\ forktestIdle /\ listeningIdle /\ regvalsIdle /\ qlistIdle
    \/ /\ part = "elf" /\ Elf!Init
       /\ breakpointsIdle /\ hwbptsIdle /\ appcallIdle /\ librariesIdle /\ registersIdle /\ processesIdle /\ integersIdle /\ structuresIdle /\ filesIdle /\ tablesIdle /\ symbolsIdle /\ qvectorIdle /\ qstringIdle /\ forktestIdle /\ listeningIdle /\ regvalsIdle /\ qlistIdle
    \/ /\ part = "tables" /\ Ei!Init
       /\ breakpointsIdle /\ hwbptsIdle /\ appcallIdle /\ librariesIdle /\ registersIdle /\ processesIdle /\ integersIdle /\ structuresIdle /\ filesIdle /\ elfIdle /\ symbolsIdle /\ qvectorIdle /\ qstringIdle /\ forktestIdle /\ listeningIdle /\ regvalsIdle /\ qlistIdle
    \/ /\ part = "symbols" /\ Es!Init
       /\ breakpointsIdle /\ hwbptsIdle /\ appcallIdle /\ librariesIdle /\ registersIdle /\ processesIdle /\ integersIdle /\ structuresIdle /\ filesIdle /\ elfIdle /\ tablesIdle /\ qvectorIdle /\ qstringIdle /\ forktestIdle /\ listeningIdle /\ regvalsIdle /\ qlistIdle
    \/ /\ part = "qvector" /\ Qv!Init
       /\ breakpointsIdle /\ hwbptsIdle /\ appcallIdle /\ librariesIdle /\ registersIdle /\ processesIdle /\ integersIdle /\ structuresIdle /\ filesIdle /\ elfIdle /\ tablesIdle /\ symbolsIdle /\ qstringIdle /\ forktestIdle /\ listeningIdle /\ regvalsIdle /\ qlistIdle
    \/ /\ part = "qstring" /\ Qs!Init
       /\ breakpointsIdle /\ hwbptsIdle /\ appcallIdle /\ librariesIdle /\ registersIdle /\ processesIdle /\ integersIdle /\ structuresIdle /\ filesIdle /\ elfIdle /\ tablesIdle /\ symbolsIdle /\ qvectorIdle /\ forktestIdle /\ listeningIdle /\ regvalsIdle /\ qlistIdle
    \/ /\ part = "forktest" /\ Tf!Init
       /\ breakpointsIdle /\ hwbptsIdle /\ appcallIdle /\ librariesIdle /\ registersIdle /\ processesIdle /\ integersIdle /\ structuresIdle /\ filesIdle /\ elfIdle /\ tablesIdle /\ symbolsIdle /\ qvectorIdle /\ qstringIdle /\ listeningIdle /\ regvalsIdle /\ qlistIdle
    \/ /\ part = "listening" /\ Li!Init
       /\ breakpointsIdle /\ hwbptsIdle /\ appcallIdle /\ librariesIdle /\ registersIdle /\ processesIdle /\ integersIdle /\ structuresIdle /\ filesIdle /\ elfIdle /\ tablesIdle /\ symbolsIdle /\ qvectorIdle /\ qstringIdle /\ forktestIdle /\ regvalsIdle /\ qlistIdle
    \/ /\ part = "regvals" /\ Rv!Init
       /\ breakpointsIdle /\ hwbptsIdle /\ appcallIdle /\ librariesIdle /\ registersIdle /\ processesIdle /\ integersIdle /\ structuresIdle /\ filesIdle /\ elfIdle /\ tablesIdle /\ symbolsIdle /\ qvectorIdle /\ qstringIdle /\ forktestIdle /\ listeningIdle /\ qlistIdle
    \/ /\ part = "qlist" /\ Ql!Init
       /\ breakpointsIdle /\ hwbptsIdle /\ appcallIdle /\ librariesIdle /\ registersIdle /\ processesIdle /\ integersIdle /\ structuresIdle /\ filesIdle /\ elfIdle /\ tablesIdle /\ symbolsIdle /\ qvectorIdle /\ qstringIdle /\ forktestIdle /\ listeningIdle /\ regvalsIdle

ServerNext ==
    \/ /\ part = "breakpoints" /\ Next
       /\ UNCHANGED <<part, hwbptsVars, appcallVars, librariesVars, registersVars, processesVars, integersVars, structuresVars, filesVars, elfVars, tablesVars, symbolsVars, qvectorVars, qstringVars, forktestVars, listeningVars, regvalsVars, qlistVars>>
    \/ /\ part = "hwbpts" /\ HwNext
       /\ UNCHANGED <<part, breakpointsVars, appcallVars, librariesVars, registersVars, processesVars, integersVars, structuresVars, filesVars, elfVars, tablesVars, symbolsVars, qvectorVars, qstringVars, forktestVars, listeningVars, regvalsVars, qlistVars>>
    \/ /\ part = "appcall" /\ AppNext
       /\ UNCHANGED <<part, breakpointsVars, hwbptsVars, librariesVars, registersVars, processesVars, integersVars, structuresVars, filesVars, elfVars, tablesVars, symbolsVars, qvectorVars, qstringVars, forktestVars, listeningVars, regvalsVars, qlistVars>>
    \/ /\ part = "libraries" /\ Dll!Next
       /\ UNCHANGED <<part, breakpointsVars, hwbptsVars, appcallVars, registersVars, processesVars, integersVars, structuresVars, filesVars, elfVars, tablesVars, symbolsVars, qvectorVars, qstringVars, forktestVars, listeningVars, regvalsVars, qlistVars>>
    \/ /\ part = "registers" /\ Reg!Next
       /\ UNCHANGED <<part, breakpointsVars, hwbptsVars, appcallVars, librariesVars, processesVars, integersVars, structuresVars, filesVars, elfVars, tablesVars, symbolsVars, qvectorVars, qstringVars, forktestVars, listeningVars, regvalsVars, qlistVars>>
    \/ /\ part = "processes" /\ Pl!Next
       /\ UNCHANGED <<part, breakpointsVars, hwbptsVars, appcallVars, librariesVars, registersVars, integersVars, structuresVars, filesVars, elfVars, tablesVars, symbolsVars, qvectorVars, qstringVars, forktestVars, listeningVars, regvalsVars, qlistVars>>
    \/ /\ part = "integers" /\ Pk!Next
       /\ UNCHANGED <<part, breakpointsVars, hwbptsVars, appcallVars, librariesVars, registersVars, processesVars, structuresVars, filesVars, elfVars, tablesVars, symbolsVars, qvectorVars, qstringVars, forktestVars, listeningVars, regvalsVars, qlistVars>>
    \/ /\ part = "structures" /\ Cd!Next
       /\ UNCHANGED <<part, breakpointsVars, hwbptsVars, appcallVars, librariesVars, registersVars, processesVars, integersVars, filesVars, elfVars, tablesVars, symbolsVars, qvectorVars, qstringVars, forktestVars, listeningVars, regvalsVars, qlistVars>>
    \/ /\ part = "files" /\ FilesNext
       /\ UNCHANGED <<part, breakpointsVars, hwbptsVars, appcallVars, librariesVars, registersVars, processesVars, integersVars, structuresVars, elfVars, tablesVars, symbolsVars, qvectorVars, qstringVars, forktestVars, listeningVars, regvalsVars, qlistVars>>
    \/ /\ part = "elf" /\ Elf!Next
       /\ UNCHANGED <<part, breakpointsVars, hwbptsVars, appcallVars, librariesVars, registersVars, processesVars, integersVars, structuresVars, filesVars, tablesVars, symbolsVars, qvectorVars, qstringVars, forktestVars, listeningVars, regvalsVars, qlistVars>>
    \/ /\ part = "tables" /\ Ei!Next
       /\ UNCHANGED <<part, breakpointsVars, hwbptsVars, appcallVars, librariesVars, registersVars, processesVars, integersVars, structuresVars, filesVars, elfVars, symbolsVars, qvectorVars, qstringVars, forktestVars, listeningVars, regvalsVars, qlistVars>>
    \/ /\ part = "symbols" /\ Es!Next
       /\ UNCHANGED <<part, breakpointsVars, hwbptsVars, appcallVars, librariesVars, registersVars, processesVars, integersVars, structuresVars, filesVars, elfVars, tablesVars, qvectorVars, qstringVars, forktestVars, listeningVars, regvalsVars, qlistVars>>
    \/ /\ part = "qvector" /\ Qv!Next
       /\ UNCHANGED <<part, breakpointsVars, hwbptsVars, appcallVars, librariesVars, registersVars, processesVars, integersVars, structuresVars, filesVars, elfVars, tablesVars, symbolsVars, qstringVars, forktestVars, listeningVars, regvalsVars, qlistVars>>
    \/ /\ part = "qstring" /\ Qs!Next
       /\ UNCHANGED <<part, breakpointsVars, hwbptsVars, appcallVars, librariesVars, registersVars, processesVars, integersVars, structuresVars, filesVars, elfVars, tablesVars, symbolsVars, qvectorVars, forktestVars, listeningVars, regvalsVars, qlistVars>>
    \/ /\ part = "forktest" /\ Tf!Next
       /\ UNCHANGED <<part, breakpointsVars, hwbptsVars, appcallVars, librariesVars, registersVars, processesVars, integersVars, structuresVars, filesVars, elfVars, tablesVars, symbolsVars, qvectorVars, qstringVars, listeningVars, regvalsVars, qlistVars>>
    \/ /\ part = "listening" /\ Li!Next
       /\ UNCHANGED <<part, breakpointsVars, hwbptsVars, appcallVars, librariesVars, registersVars, processesVars, integersVars, structuresVars, filesVars, elfVars, tablesVars, symbolsVars, qvectorVars, qstringVars, forktestVars, regvalsVars, qlistVars>>
    \/ /\ part = "regvals" /\ Rv!Next
       /\ UNCHANGED <<part, breakpointsVars, hwbptsVars, appcallVars, librariesVars, registersVars, processesVars, integersVars, structuresVars, filesVars, elfVars, tablesVars, symbolsVars, qvectorVars, qstringVars, forktestVars, listeningVars, qlistVars>>
    \/ /\ part = "qlist" /\ Ql!Next
       /\ UNCHANGED <<part, breakpointsVars, hwbptsVars, appcallVars, librariesVars, registersVars, processesVars, integersVars, structuresVars, filesVars, elfVars, tablesVars, symbolsVars, qvectorVars, qstringVars, forktestVars, listeningVars, regvalsVars>>

ServerSpec == ServerInit /\ [][ServerNext]_serverVars

-----------------------------------------------------------------------------
\* The client knows the libraries when a breakpoint is reported, each is announced once,
\* and the layout it asks for is the real one (handle_dll_movements, dbg_get_memory_info).
LibrariesKnown == part = "libraries" => Dll!LibrariesKnown

\* Before a process is debugged: the server listens where its command line says and
\* nowhere else, and takes packets that have arrived (main, init_client_irs, irs_ready);
\* a listing has every process that ran all through it, none more often than there were
\* listings (get_process_list, prodir.cpp); and the test whether the kernel reports new
\* processes says what it does and leaves none behind (linux_test_for_tracefork).
StartsRight ==
    /\ part = "listening" => Li!ConnectionsHold
    /\ part = "processes" => Pl!ProcessesListed
    /\ part = "forktest" => Tf!TestHolds

\* What is packed is read as it was written, integers that fit a short form, structures
\* and tables of names over any number of packets, and nothing is read from behind the
\* end of a packet (append_dd, unpack_dd, rpc_hlp.cpp, rpc_update_bpts,
\* send_debug_names_to_ida).
PacketsArrive ==
    /\ part = "integers" => Pk!PackedApart /\ Pk!SmallArrive /\ Pk!InsidePacket
    /\ part = "structures" => Cd!ReadAsWritten /\ Cd!NamesArrive

\* A library's names are the ones its maker exported, at its address, and its own name
\* and its loader's are what the file says, for libraries of every kind and cut short
\* anywhere (reader.cpp, symelf.cpp, enum_names, get_soname, add_shlib_bpt); the entries of
\* a table are read as they are, whatever the edges of the buffer (buffered_input_t); and
\* Thumb functions are told from ARM ones, and the symbols kept (arm_arch_specific_t,
\* symrel_cache_t).
NamesAreRight ==
    /\ part = "elf" => Elf!ElfHolds
    /\ part = "tables" => Ei!InputHolds
    /\ part = "symbols" => Es!SymbolsHold

\* What everything is built from: vectors, strings and lists hold what was put into them,
\* every element is made and destroyed once however the elements are moved (pro.h), and a
\* register value owns its bytes and is what was last put into it (idd.hpp).
DataTypesHold ==
    /\ part = "qvector" => Qv!VectorHolds
    /\ part = "qstring" => Qs!StringHolds
    /\ part = "qlist" => Ql!ListHolds
    /\ part = "regvals" => Rv!RegValsHold

\* What single steps of the module may do: a write changes the registers it names and
\* no other (write_registers), the address reported is the one whose access stopped the
\* thread (handle_hwbpt), functions start with an aligned stack (dbg_appcall), and a
\* pointer to a symbol stays one to it (symrel_cache_t::get_ptr).
StepIsExact ==
    /\ part = "registers" => Reg!WritesExactly
    /\ part = "hwbpts" => ReportsWhereTouched
    /\ part = "appcall" => StartsAligned
    /\ part = "symbols" => Es!PointersStay
StepsAreExact == [][StepIsExact]_serverVars
=============================================================================
