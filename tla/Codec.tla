-------------------------------- MODULE Codec --------------------------------
(* The structures of the debugger protocol as they are written to and read     *)
(* from a packet: rpc_hlp.cpp, and the packets that rpc_server.cpp builds and   *)
(* takes apart itself (names, breakpoints). A packet is a sequence of tokens    *)
(* <<kind, value>>: "dd" and "ea" are the integers of Packing, "str" a string,  *)
(* "mem" raw bytes. append_db of this tree is a stub and writes no token.       *)
EXTENDS Integers, Sequences, SequencesExt, FiniteSets

CONSTANTS Structures,   \* the structures that are sent
          NameLists,    \* tables of debug names: sequences of [ea, name]
          PacketSize,   \* bound: tokens after which a packet of names is closed
          MaxStructs    \* bound: structures in a packet

VARIABLES sent,         \* what was written to the packet
          wire,         \* what is left of the packet
          got,          \* what was read back
          names         \* names of the process: table, packets sent, table received

vars == <<sent, wire, got, names>>

Garbled == "garbled"

------------------------------------------------------------------------------
(* Fixed fields *)

Write(kinds, vals) == [i \in DOMAIN kinds |-> <<kinds[i], vals[i]>>]

Read(kinds, s) ==
    [vals |-> [i \in DOMAIN kinds |->
                  IF i \in DOMAIN s /\ s[i][1] = kinds[i] THEN s[i][2] ELSE Garbled],
     rest |-> SubSeq(s, Len(kinds) + 1, Len(s))]

\* Raw bytes leave no token when there are none.
Mem(bytes) == IF bytes = <<>> THEN <<>> ELSE <<<<"mem", bytes>>>>
ReadMem(n, s) ==
    IF n = 0 THEN [vals |-> <<>>, rest |-> s]
    ELSE IF s # <<>> /\ s[1][1] = "mem" /\ Len(s[1][2]) = n
         THEN [vals |-> s[1][2], rest |-> Tail(s)]
         ELSE [vals |-> Garbled, rest |-> s]

MemoryInfo == <<"ea", "ea", "ea", "dd", "str", "str">>
ProcessInfo == <<"dd", "str">>
ModuleInfo == <<"str", "ea", "ea", "ea">>
Exception == <<"dd", "dd", "ea", "str">>
CallFrame == <<"ea", "ea", "ea", "dd">>
ExceptionInfo == <<"dd", "dd", "str", "str">>
DebappAttrs == <<"dd", "str">>

\* Segment base, offset, size; the bitness shares an integer with the permissions.
AppendMemoryInfo(m) ==
    Write(MemoryInfo, <<m.sbase, m.start - 16 * m.sbase, m.size, m.perm + 16 * m.bitness, m.name, m.sclass>>)
\* perm takes the whole byte, bitness included.
ExtractMemoryInfo(s) ==
    LET r == Read(MemoryInfo, s)
        v == r.vals
    IN  [got |-> [what |-> "memory", sbase |-> v[1], start |-> 16 * v[1] + v[2], size |-> v[3],
                  perm |-> v[4] % 256, bitness |-> (v[4] \div 16) % 16, name |-> v[5], sclass |-> v[6]],
         rest |-> r.rest]

------------------------------------------------------------------------------
(* Debug events: a common part, then what the kind of the event calls for. *)

AppendTail(eid) ==
    CASE eid \in {"PROCESS_START", "PROCESS_ATTACH", "LIBRARY_LOAD"} -> ModuleInfo
      [] eid \in {"PROCESS_EXIT", "THREAD_EXIT"} -> <<"dd">>
      [] eid = "BREAKPOINT" -> <<"ea", "ea">>
      [] eid = "EXCEPTION" -> Exception
      [] eid \in {"LIBRARY_UNLOAD", "INFORMATION"} -> <<"str">>
      [] OTHER -> <<>>

ExtractTail(eid) ==
    CASE eid \in {"PROCESS_START", "PROCESS_ATTACH", "LIBRARY_LOAD"} -> ModuleInfo
      [] eid \in {"PROCESS_EXIT", "THREAD_EXIT"} -> <<"dd">>
      [] eid = "BREAKPOINT" -> <<"ea", "ea">>
      [] eid = "EXCEPTION" -> Exception
      [] eid \in {"LIBRARY_UNLOAD", "INFORMATION"} -> <<"str">>
      [] OTHER -> <<>>

EventHead == <<"dd", "dd", "dd", "ea", "dd">>

AppendDebugEvent(e) ==
    Write(EventHead, <<e.eid, e.pid, e.tid, e.ea, e.handled>>) \o Write(AppendTail(e.eid), e.tail)

ExtractDebugEvent(s) ==
    LET head == Read(EventHead, s)
        tail == Read(ExtractTail(head.vals[1]), head.rest)
    IN  [got |-> [what |-> "event", eid |-> head.vals[1], pid |-> head.vals[2], tid |-> head.vals[3],
                  ea |-> head.vals[4], handled |-> head.vals[5], tail |-> tail.vals],
         rest |-> tail.rest]

------------------------------------------------------------------------------
(* Lists *)

\* n structures one after the other; one(s) reads a structure.
ReadMany(one(_), n, s) ==
    FoldLeft(LAMBDA acc, i : LET r == one(acc.rest)
                             IN  [vals |-> Append(acc.vals, r.vals), rest |-> r.rest],
             [vals |-> <<>>, rest |-> s], [i \in 1 .. n |-> i])

Count(s) == IF s # <<>> /\ s[1][1] = "dd" THEN s[1][2] ELSE 0

AppendCallStack(frames) ==
    <<<<"dd", Len(frames)>>>> \o FlattenSeq([i \in DOMAIN frames |-> Write(CallFrame, frames[i])])
ExtractCallStack(s) ==
    LET r == ReadMany(LAMBDA t : Read(CallFrame, t), Count(s), Tail(s))
    IN  [got |-> [what |-> "stack", frames |-> r.vals], rest |-> r.rest]

\* RPC_SET_EXCEPTION_INFO: the number of entries, then the entries.
AppendExceptionInfo(table) ==
    <<<<"dd", Len(table)>>>> \o FlattenSeq([i \in DOMAIN table |-> Write(ExceptionInfo, table[i])])
ExtractExceptionInfo(s) ==
    LET r == ReadMany(LAMBDA t : Read(ExceptionInfo, t), Count(s), Tail(s))
    IN  [got |-> [what |-> "exceptions", table |-> r.vals], rest |-> r.rest]

\* A register argument: its index, the size of its value and, if wanted, the value.
AppendRegobj(ro, withValues) ==
    <<<<"dd", ro.regidx>>, <<"dd", Len(ro.value)>>>>
    \o (IF withValues THEN <<<<"dd", ro.relocate>>>> \o Mem(ro.value) ELSE <<>>)
AppendRegobjs(ros, withValues) ==
    <<<<"dd", Len(ros)>>>> \o FlattenSeq([i \in DOMAIN ros |-> AppendRegobj(ros[i], withValues)])

\* Without values only the sizes arrive, and the values are zeroes.
ExtractRegobj(s, withValues) ==
    LET head == Read(<<"dd", "dd">>, s)
        n == head.vals[2]
        rel == Read(<<"dd">>, head.rest)
        mem == ReadMem(n, rel.rest)
    IN  IF withValues
        THEN [vals |-> [regidx |-> head.vals[1], relocate |-> rel.vals[1], value |-> mem.vals],
              rest |-> mem.rest]
        ELSE [vals |-> [regidx |-> head.vals[1], relocate |-> 0, value |-> [i \in 1 .. n |-> 0]],
              rest |-> head.rest]
ExtractRegobjs(s, withValues) ==
    ReadMany(LAMBDA t : ExtractRegobj(t, withValues), Count(s), Tail(s))

AppendRelobj(o) ==
    <<<<"dd", Len(o.data)>>>> \o Mem(o.data) \o <<<<"ea", o.base>>, <<"dd", Len(o.ri)>>>> \o Mem(o.ri)
ExtractRelobj(s) ==
    LET data == ReadMem(Count(s), Tail(s))
        mid == Read(<<"ea", "dd">>, data.rest)
        ri == ReadMem(mid.vals[2], mid.rest)
    IN  [vals |-> [data |-> data.vals, base |-> mid.vals[1], ri |-> ri.vals], rest |-> ri.rest]

\* A manual appcall says nothing of the registers of the result.
AppendAppcall(a) ==
    AppendRegobjs(a.regargs, TRUE) \o AppendRelobj(a.stkargs)
    \o (IF a.manual THEN <<>> ELSE AppendRegobjs(a.retregs, FALSE))
ExtractAppcall(s, manual) ==
    LET regargs == ExtractRegobjs(s, TRUE)
        stkargs == ExtractRelobj(regargs.rest)
        retregs == ExtractRegobjs(stkargs.rest, FALSE)
        a == [what |-> "appcall", manual |-> manual, regargs |-> regargs.vals,
              stkargs |-> stkargs.vals, retregs |-> <<>>]
    IN  IF manual THEN [got |-> a, rest |-> stkargs.rest]
        ELSE [got |-> [a EXCEPT !.retregs = retregs.vals], rest |-> retregs.rest]

------------------------------------------------------------------------------
(* Register values: integers, floating point numbers and raw bytes. *)

RVT_INT == -1
RVT_FLOAT == -2
Default == [rvtype |-> RVT_INT, v |-> -1]     \* of the constructor: ~0

AppendRegval(r) ==
    <<<<"dd", r.rvtype + 2>>>>
    \o (CASE r.rvtype = RVT_INT -> <<<<"ea", r.v + 1>>>>
          [] r.rvtype = RVT_FLOAT -> Mem(r.v)
          [] OTHER -> <<<<"dd", Len(r.v)>>>> \o Mem(r.v))

FloatSize == 2
ExtractRegval(s) ==
    LET rvtype == s[1][2] - 2
        body == Tail(s)
        int == Read(<<"ea">>, body)
        float == ReadMem(FloatSize, body)
        bytes == ReadMem(Count(body), Tail(body))
    IN  CASE rvtype = RVT_INT -> [vals |-> [rvtype |-> rvtype, v |-> int.vals[1] - 1], rest |-> int.rest]
          [] rvtype = RVT_FLOAT -> [vals |-> [rvtype |-> rvtype, v |-> float.vals], rest |-> float.rest]
          [] OTHER -> [vals |-> [rvtype |-> 0, v |-> bytes.vals], rest |-> bytes.rest]

\* Only the registers of the map are written.
AppendRegvals(values, regmap) ==
    FlattenSeq([i \in DOMAIN values |-> IF i \in regmap THEN AppendRegval(values[i]) ELSE <<>>])

ExtractRegvals(n, regmap, s) ==
    FoldLeft(LAMBDA acc, i :
                IF acc.rest # <<>> /\ i \in regmap
                THEN LET r == ExtractRegval(acc.rest)
                     IN  [vals |-> Append(acc.vals, r.vals), rest |-> r.rest]
                ELSE [acc EXCEPT !.vals = Append(@, Default)],
             [vals |-> <<>>, rest |-> s], [i \in 1 .. n |-> i])

------------------------------------------------------------------------------
(* RPC_UPDATE_BPTS: the addresses of each of the two lists are differences to   *)
(* the address before; the client, which is not in the repository, writes them. *)

Deltas(eas) == [i \in DOMAIN eas |-> IF i = 1 THEN eas[1] ELSE eas[i] - eas[i - 1]]

BptRequest(adds, dels) ==
    <<<<"dd", Len(adds)>>, <<"dd", Len(dels)>>>>
    \o FlattenSeq([i \in DOMAIN adds |->
           <<<<"ea", Deltas([j \in DOMAIN adds |-> adds[j].ea])[i]>>,
             <<"dd", adds[i].size>>, <<"dd", adds[i].type>>>>])
    \o FlattenSeq([i \in DOMAIN dels |->
           <<<<"ea", Deltas([j \in DOMAIN dels |-> dels[j].ea])[i]>>, <<"db", Len(dels[i].orgbytes)>>>>
           \o Mem(dels[i].orgbytes) \o <<<<"dd", dels[i].type>>>>])

ExtractAdd(acc) ==
    LET r == Read(<<"ea", "dd", "dd">>, acc.rest)
        ea == acc.ea + r.vals[1]
    IN  [ea |-> ea, rest |-> r.rest,
         vals |-> Append(acc.vals, [ea |-> ea, size |-> r.vals[2], type |-> r.vals[3]])]

ExtractDel(acc) ==
    LET r == Read(<<"ea", "db">>, acc.rest)
        mem == ReadMem(r.vals[2], r.rest)
        type == Read(<<"dd">>, mem.rest)
        ea == acc.ea + r.vals[1]
    IN  [ea |-> ea, rest |-> type.rest,
         vals |-> Append(acc.vals, [ea |-> ea, orgbytes |-> mem.vals, type |-> type.vals[1]])]

\* Seeded bug: the deletions go on from the last address added.
DelsFrom(adds) == adds.ea
\* The running address starts again at zero for the deletions.
DelsBase(adds) == 0

RpcUpdateBpts(s) ==
    LET nadd == s[1][2]
        ndel == s[2][2]
        adds == FoldLeft(LAMBDA acc, i : ExtractAdd(acc),
                         [vals |-> <<>>, ea |-> 0, rest |-> Tail(Tail(s))], [i \in 1 .. nadd |-> i])
        dels == FoldLeft(LAMBDA acc, i : ExtractDel(acc),
                         [vals |-> <<>>, ea |-> DelsBase(adds), rest |-> adds.rest], [i \in 1 .. ndel |-> i])
    IN  [got |-> [what |-> "bpts", adds |-> adds.vals, dels |-> dels.vals], rest |-> dels.rest]

------------------------------------------------------------------------------
(* RPC_SET_DEBUG_NAMES: signed differences of addresses, and of each name only  *)
(* what differs from the one before it; both start afresh in every packet.      *)

Common(table, i, first) == IF i = first THEN <<>> ELSE LongestCommonPrefix({table[i - 1].name, table[i].name})

NameTokens(table, i, first) ==
    LET diff == table[i].ea - (IF i = first THEN 0 ELSE table[i - 1].ea)
        len == Len(Common(table, i, first))
    IN  <<<<"ea", IF diff < 0 THEN -diff ELSE diff>>, <<"dd", IF diff < 0 THEN 1 ELSE 0>>,
          <<"dd", len>>, <<"str", SubSeq(table[i].name, len + 1, Len(table[i].name))>>>>

\* How many names go into the packet that begins with the first: it is closed by
\* the first name that takes it past the limit.
InPacket(table, first) ==
    LET size(n) == FoldLeft(LAMBDA a, i : a + 3 + Len(NameTokens(table, i, first)[4][2]), 0,
                            [k \in 1 .. n |-> first + k - 1])
        left == Len(table) - first + 1
        full == {n \in 1 .. left : size(n) > PacketSize}
    IN  IF full = {} THEN left ELSE CHOOSE n \in full : \A k \in full : n <= k

\* The client (not in the repository) puts the names together again.
Rebuilt(tokens) ==
    FoldLeft(LAMBDA acc, i :
                LET t == SubSeq(tokens, 4 * i - 3, 4 * i)
                    old == IF acc = <<>> THEN [ea |-> 0, name |-> <<>>] ELSE Last(acc)
                IN  Append(acc, [ea |-> old.ea + (IF t[2][2] = 1 THEN -t[1][2] ELSE t[1][2]),
                                 name |-> SubSeq(old.name, 1, t[3][2]) \o t[4][2]]),
             <<>>, [i \in 1 .. Len(tokens) \div 4 |-> i])

NoNames == [table |-> <<>>, sent |-> 0, received |-> <<>>, status |-> "none"]

StoppedAtDebugEvent(table) ==
    /\ names.status = "none" /\ sent = <<>>
    /\ names' = [NoNames EXCEPT !.table = table, !.status = IF table = <<>> THEN "done" ELSE "sending"]
    /\ UNCHANGED <<sent, wire, got>>

\* One round of the loop; an answer with another number ends it.
SendNames ==
    /\ names.status = "sending"
    /\ LET first == names.sent + 1
           n == InPacket(names.table, first)
           tokens == FlattenSeq([k \in 1 .. n |-> NameTokens(names.table, first + k - 1, first)])
       IN  \/ names' = [names EXCEPT
                  !.sent = @ + n,
                  !.received = @ \o Rebuilt(tokens),
                  !.status = IF names.sent + n = Len(names.table) THEN "done" ELSE "sending"]
           \/ names' = [names EXCEPT !.sent = @ + n, !.status = "failed"]
    /\ UNCHANGED <<sent, wire, got>>

------------------------------------------------------------------------------
AppendStructure(x) ==
    CASE x.what = "event" -> AppendDebugEvent(x)
      [] x.what = "memory" -> AppendMemoryInfo(x)
      [] x.what = "process" -> Write(ProcessInfo, x.vals)
      [] x.what = "attrs" -> Write(DebappAttrs, x.vals)
      [] x.what = "stack" -> AppendCallStack(x.frames)
      [] x.what = "exceptions" -> AppendExceptionInfo(x.table)
      [] x.what = "appcall" -> AppendAppcall(x)
      [] x.what = "regs" -> AppendRegvals(x.values, x.regmap)
      [] x.what = "bpts" -> BptRequest(x.adds, x.dels)

\* The reader knows what it asked for: the kind, and the registers of a map.
ExtractStructure(x, s) ==
    CASE x.what = "event" -> ExtractDebugEvent(s)
      [] x.what = "memory" -> ExtractMemoryInfo(s)
      [] x.what = "process" -> LET r == Read(ProcessInfo, s)
                               IN  [got |-> [what |-> "process", vals |-> r.vals], rest |-> r.rest]
      [] x.what = "attrs" -> LET r == Read(DebappAttrs, s)
                             IN  [got |-> [what |-> "attrs", vals |-> r.vals], rest |-> r.rest]
      [] x.what = "stack" -> ExtractCallStack(s)
      [] x.what = "exceptions" -> ExtractExceptionInfo(s)
      [] x.what = "appcall" -> ExtractAppcall(s, x.manual)
      [] x.what = "regs" -> LET r == ExtractRegvals(Len(x.values), x.regmap, s)
                            IN  [got |-> [what |-> "regs", values |-> r.vals, regmap |-> x.regmap],
                                 rest |-> r.rest]
      [] x.what = "bpts" -> RpcUpdateBpts(s)

Init == sent = <<>> /\ wire = <<>> /\ got = <<>> /\ names = NoNames

AppendOne(x) ==
    /\ got = <<>> /\ Len(sent) < MaxStructs /\ names.status = "none"
    /\ sent' = Append(sent, x)
    /\ wire' = wire \o AppendStructure(x)
    /\ UNCHANGED <<got, names>>

ExtractOne ==
    /\ Len(got) < Len(sent)
    /\ LET r == ExtractStructure(sent[Len(got) + 1], wire)
       IN  got' = Append(got, r.got) /\ wire' = r.rest
    /\ UNCHANGED <<sent, names>>

Next ==
    \/ \E x \in Structures : AppendOne(x)
    \/ ExtractOne
    \/ \E table \in NameLists : StoppedAtDebugEvent(table)
    \/ SendNames

Spec == Init /\ [][Next]_vars

------------------------------------------------------------------------------
\* What a reader of this code may expect: a register outside the map keeps the
\* value it was constructed with, and the permissions of memory come with the
\* bitness on top.
Expected(x) ==
    CASE x.what = "regs" ->
            [x EXCEPT !.values = [i \in DOMAIN @ |-> IF i \in x.regmap THEN @[i] ELSE Default]]
      [] x.what = "memory" -> [x EXCEPT !.perm = (@ + 16 * x.bitness) % 256]
      [] x.what = "appcall" ->
            [x EXCEPT !.retregs = IF x.manual THEN <<>>
                                  ELSE [i \in DOMAIN @ |-> [@[i] EXCEPT !.relocate = 0,
                                           !.value = [j \in DOMAIN @ |-> 0]]]]
      [] OTHER -> x

\* Whatever structures share a packet, each is read back as it was written and
\* the reader ends at the end of the packet (append_* and extract_* of rpc_hlp.cpp).
ReadAsWritten ==
    /\ \A i \in DOMAIN got : got[i] = Expected(sent[i])
    /\ Len(got) = Len(sent) => wire = <<>>

\* However the table of debug names is cut into packets, the client has the names
\* sent so far, and all of them when the server reports success.
NamesArrive ==
    /\ names.received = SubSeq(names.table, 1, Len(names.received))
    /\ names.status = "done" => names.received = names.table
==============================================================================
