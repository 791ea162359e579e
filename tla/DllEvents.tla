------------------------------ MODULE DllEvents ------------------------------
(***************************************************************************)
(* Library events: the module compares /proc/<pid>/maps with the list of   *)
(* libraries it has reported (dlls) and queues an event for each           *)
(* difference.  An area is identified by its start; a library is a text    *)
(* and a data area of the same name.                                       *)
(*                                                                         *)
(* open_linput of this build never opens a file (pro.cpp looks for a slot  *)
(* of its pool that is in use), so no ELF file is read: the name of the    *)
(* interpreter stays unknown, add_shlib_bpt fails at once, and no names    *)
(* are imported.                                                           *)
(***************************************************************************)
EXTENDS Integers, Sequences, FiniteSets, SequencesExt, TLC

CONSTANTS Libs,        \* library file names
          Bases,       \* where libraries are loaded, ascending from 2 in steps of 2
          MaxLoads,    \* bound on loads and unloads
          MaxEvents    \* bound on the events that wait when the client asks for the layout

Exe == "exe"           \* input_file_path; it has area 0
Linker == "ld-"        \* a file whose name begins with ld-; it has area 1 if at all
NoName == ""           \* an anonymous mapping; one of them is always at area 1000

VARIABLES maps,        \* areas of the process: start, name, whether an ELF header is there
          started,     \* handle_process_start has been called
          dlls,        \* base -> name
          events,      \* event queue
          holding,     \* the client holds the event it was given last
          last,        \* that event
          view,        \* libraries the client knows: name and base
          oldcfg, cfg, \* memory configuration the server saved; the client's copy
          loads,
          asked        \* history: the client asked for the layout since maps last changed

vars == <<maps, started, dlls, events, holding, last, view, oldcfg, cfg, loads, asked>>
client == <<holding, last, view, cfg, asked>>

Event(eid, name, base) == [eid |-> eid, name |-> name, base |-> base]
Area(start, name, elf) == [start |-> start, name |-> name, elf |-> elf]

ByStart(a, b) == a.start < b.start
Restricted(f, ks) == [k \in ks |-> f[k]]

-----------------------------------------------------------------------------
(* handle_dll_movements, as operators on a record of dlls and events *)

\* Memory areas merged by module: the lowest area of each name.
Merged(m) == {a \in m : \A b \in m : b.name = a.name => a.start <= b.start}

\* del_pending_event: the first event that matches is removed.
PendingLoads(evs, name) == {i \in DOMAIN evs : evs[i].eid = "LIBRARY_LOAD" /\ evs[i].name = name}
FirstOf(s) == CHOOSE i \in s : \A j \in s : i <= j

Unload(s, base) ==
    LET name == s.dlls[base]
        at == PendingLoads(s.events, name)
    IN [s EXCEPT !.dlls = Restricted(@, DOMAIN @ \ {base}),
                 !.events = IF at # {} THEN RemoveAt(@, FirstOf(at))
                            ELSE <<Event("LIBRARY_UNLOAD", name, -1)>> \o @]

\* add_dll: the event goes in front, also for a library that is in the list.
AddDll(s, base, name) ==
    [s EXCEPT !.events = <<Event("LIBRARY_LOAD", name, base)>> \o @,
              !.dlls = @ @@ (base :> name)]

Load(s, a) ==
    IF a.name \in {NoName, Exe} \/ a.start \in DOMAIN s.dlls \/ ~a.elf THEN s
    ELSE AddDll(s, a.start, a.name)

HandleDllMovements(s) ==
    LET missing == {b \in DOMAIN s.dlls : s.dlls[b] \notin {a.name : a \in maps}}
    IN FoldLeft(Load, FoldLeft(Unload, s, SetToSortSeq(missing, <)), SetToSortSeq(Merged(maps), ByStart))

\* get_memory_info: each time it meets a file that may be the interpreter it tries to
\* put the breakpoint of the libraries there, and adds the file before that fails.
MemoryInfo(s) ==
    IF \E a \in maps : a.name = Linker THEN AddDll(s, 1, Linker) ELSE s

GenLibraryEvents(s) == HandleDllMovements(MemoryInfo(s))

State == [dlls |-> dlls, events |-> events]
SetState(s) == dlls' = s.dlls /\ events' = s.events

-----------------------------------------------------------------------------
(* The module *)

\* Seeded bug: the breakpoint is put before the events of the libraries.
BptInFront(evs, e) == <<e>> \o evs

Queued(evs, e) == Append(evs, e)

\* handle_process_start, and the rest of dbg_attach_process.  The events of the process
\* come behind those of its libraries.
ProcessStart(attaching) ==
    /\ ~started /\ started' = TRUE
    /\ LET s == MemoryInfo(State)
           t == [s EXCEPT !.events = Queued(@, Event("PROCESS_START", Exe, 0))]
       IN SetState(IF attaching
                   THEN GenLibraryEvents([t EXCEPT !.events = Queued(@, Event("PROCESS_ATTACH", Exe, 0))])
                   ELSE t)
    /\ UNCHANGED <<maps, client, oldcfg, loads>>

Running == started /\ events = << >> /\ ~holding

\* get_debug_event: a thread ran into a breakpoint.  Libraries are looked for first.
BptEvent ==
    /\ Running
    /\ LET s == GenLibraryEvents(State)
       IN SetState([s EXCEPT !.events = Queued(s.events, Event("BREAKPOINT", NoName, -1))])
    /\ UNCHANGED <<maps, started, client, oldcfg, loads>>

\* dbg_get_debug_event, and what the client makes of the event.
GetDebugEvent ==
    /\ ~holding /\ events # << >>
    /\ LET e == Head(events)
       IN /\ last' = e.eid
          /\ view' = CASE e.eid = "LIBRARY_LOAD" -> view \cup {[name |-> e.name, base |-> e.base]}
                       [] e.eid = "LIBRARY_UNLOAD" -> {v \in view : v.name # e.name}
                       [] OTHER -> view
    /\ events' = Tail(events) /\ holding' = TRUE
    /\ UNCHANGED <<maps, started, dlls, oldcfg, cfg, loads, asked>>

Resume ==
    /\ holding /\ holding' = FALSE
    /\ UNCHANGED <<maps, started, dlls, events, last, view, oldcfg, cfg, loads, asked>>

\* Seeded bug: configurations of the same size count as equal.
SameSize(m) == Cardinality(m) = Cardinality(oldcfg)

\* same_as_oldmemcfg
SameAsOldmemcfg(m) == m = oldcfg

\* dbg_get_memory_info; -2 tells the client that nothing has changed.
GetMemoryInfo ==
    /\ started /\ Len(events) < MaxEvents
    /\ SetState(MemoryInfo(State))
    /\ cfg' = IF SameAsOldmemcfg(maps) THEN cfg ELSE maps
    /\ oldcfg' = IF SameAsOldmemcfg(maps) THEN oldcfg ELSE maps
    /\ asked' = TRUE
    /\ UNCHANGED <<maps, started, holding, last, view, loads>>

-----------------------------------------------------------------------------
(* The process; it runs when the module has nothing to report *)

Free(base) == ~\E a \in maps : a.start \in {base, base + 1}

\* A library is mapped, possibly while its header cannot be read yet.
Dlopen(lib, base, elf) ==
    /\ Running /\ loads < MaxLoads /\ Free(base)
    /\ maps' = maps \cup {Area(base, lib, elf), Area(base + 1, lib, FALSE)}
    /\ loads' = loads + 1 /\ asked' = FALSE
    /\ UNCHANGED <<started, dlls, events, holding, last, view, cfg, oldcfg>>

Dlclose(base) ==
    /\ Running /\ loads < MaxLoads /\ ~Free(base)
    /\ maps' = {a \in maps : a.start \notin {base, base + 1}}
    /\ loads' = loads + 1 /\ asked' = FALSE
    /\ UNCHANGED <<started, dlls, events, holding, last, view, cfg, oldcfg>>

-----------------------------------------------------------------------------
Init ==
    /\ \E linked \in SUBSET {Area(1, Linker, TRUE)} :
          maps = {Area(0, Exe, TRUE), Area(1000, NoName, FALSE)} \cup linked
    /\ started = FALSE /\ dlls = << >>
    /\ events = << >> /\ holding = FALSE /\ last = NoName /\ view = {}
    /\ oldcfg = {} /\ cfg = {} /\ loads = 0 /\ asked = FALSE

Next ==
    \/ \E attaching \in BOOLEAN : ProcessStart(attaching)
    \/ BptEvent \/ GetDebugEvent \/ Resume \/ GetMemoryInfo
    \/ \E lib \in Libs, base \in Bases, elf \in BOOLEAN : Dlopen(lib, base, elf)
    \/ \E base \in Bases : Dlclose(base)

Spec == Init /\ [][Next]_vars

-----------------------------------------------------------------------------
(* Properties *)

\* Every variable has its type.
TypeOK ==
    /\ \A a \in maps : a.name \in Libs \cup {Exe, Linker, NoName}
    /\ started \in BOOLEAN /\ DOMAIN dlls \subseteq Bases \cup {1}
    /\ holding \in BOOLEAN /\ loads \in 0 .. MaxLoads

\* Modules the client should know when it has been told everything: where the lowest
\* area of a library is one the module looks at.  A base that still stands in dlls for
\* a library that has moved is never looked at again: dlls.find(base) succeeds.
Present == {[name |-> a.name, base |-> a.start] :
              a \in {x \in Merged(maps) : x.name \in Libs /\ x.elf}}
Moved(name, base) ==
    base \in DOMAIN dlls /\ dlls[base] # name /\ \E a \in maps : a.name = dlls[base]

\* When a breakpoint is reported the client already knows every library that is
\* loaded, where it is loaded (unless its base is that of a library that has moved),
\* and none whose file is no longer mapped (handle_dll_movements).
LibrariesBeforeBreakpoint ==
    last = "BREAKPOINT" /\ holding =>
        /\ \A p \in Present : p \in view \/ Moved(p.name, p.base)
        /\ {v.name : v \in view} \subseteq {a.name : a \in maps}

\* No library but the interpreter is announced to a client that knows it already
\* (dlls.find in handle_dll_movements).
AnnouncedOnce ==
    \A i \in DOMAIN events :
        LET e == events[i]
        IN e.eid = "LIBRARY_LOAD" /\ e.name # Linker =>
             /\ [name |-> e.name, base |-> e.base] \notin view
             /\ \A j \in DOMAIN events : events[j] = e => j = i

\* A client that has asked for the memory layout has the real one, although the
\* server sends it only when it differs from the one it saved (dbg_get_memory_info).
LayoutIsCurrent == asked => cfg = maps

LibrariesKnown == LibrariesBeforeBreakpoint /\ AnnouncedOnce /\ LayoutIsCurrent
=============================================================================
