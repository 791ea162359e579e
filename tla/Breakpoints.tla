---------------------------- MODULE Breakpoints ----------------------------
(***************************************************************************)
(* Software breakpoints: the trap codes written over the instructions of   *)
(* the debugged program, the table of the debugger module (bpts), the      *)
(* breakpoints deleted since the last resumption (removed_bpts), and the   *)
(* client that adds, deletes and steps over them.                          *)
(*                                                                         *)
(* Memory is a loop of instructions; an address is one unit of it (a byte  *)
(* of x86, a halfword of ARM).  The byte at a is a (as compiled) or        *)
(* a + Size (as patched by the client); the i-th unit of a trap code is    *)
(* -i.  A memory access freezes the program first (DebugThreads), so it is *)
(* one step here.                                                          *)
(***************************************************************************)
EXTENDS Integers, Sequences, FiniteSets, Functions, SequencesExt

CONSTANTS Machines,    \* processor and program of a behaviour, see Machine
          MaxOps       \* bound on the client's changes of memory

\* A machine is a record.  threads: the threads of the program; advance: by how much
\* a trap moves the instruction pointer; trap: length of the trap code for an
\* instruction of a length; insns: where the instructions start (one of them at 0)
\* and how long they are; drops: what the connection may do ("never", "held": only
\* while the client holds an event, "anytime").

\* The instructions follow one another from address 0 to the last, and a trap code has
\* one or two units and lies within its instruction.
WellFormed(m) ==
    /\ 1 \in m.threads /\ 0 \notin m.threads /\ m.advance \in {0, 1}
    /\ m.drops \in {"never", "held", "anytime"}
    /\ 0 \in DOMAIN m.insns /\ DOMAIN m.insns \subseteq Nat
    /\ \A a \in DOMAIN m.insns :
          /\ m.insns[a] \in Nat /\ m.trap[m.insns[a]] \in {1, 2}
          /\ m.trap[m.insns[a]] <= m.insns[a]
          /\ \A b \in DOMAIN m.insns : a < b =>
                a + m.insns[a] <= b /\ a + m.insns[a] \in DOMAIN m.insns
    /\ \E z \in DOMAIN m.insns : \A a \in DOMAIN m.insns : a <= z
ASSUME MachineAssumption == \A m \in Machines : WellFormed(m)

ASSUME OpsAssumption == MaxOps \in Nat

VARIABLES machine,   \* the element of Machines this behaviour is about
          mem, own,  \* bytes in memory, and without the breakpoints
          bpts,      \* debmod_t::bpts: address -> saved bytes
          removed,   \* linux_debmod_t::removed_bpts
          table,     \* breakpoints of the client: address -> orgbytes it was given
          pc, halt,  \* per thread: instruction pointer; why it is stopped
          event,     \* debug event the client holds
          last,      \* last_event
          may_run,   \* whether the module lets threads go on
          only,      \* the thread being single stepped, 0: none
          over,      \* breakpoint being stepped over
          conn,      \* connection
          ops        \* changes made so far

vars == <<machine, mem, own, bpts, removed, table, pc, halt, event, last,
          may_run, only, over, conn, ops>>
memory == <<mem, own, bpts, removed, table>>
threads == <<pc, halt>>

None == -1
NoEvent == [eid |-> "NO_EVENT", tid |-> 0, ea |-> None]
Crash == -7                       \* where a thread is that executed something else

Insns == DOMAIN machine.insns
Size == Max({a + machine.insns[a] : a \in Insns})
Addrs == 0 .. Size - 1
Succ(a) == IF a \notin Insns THEN Crash
           ELSE IF a + machine.insns[a] = Size THEN 0 ELSE a + machine.insns[a]
TrapCode(n) == [i \in 1 .. n |-> -i]
TrapLen(ea) == machine.trap[machine.insns[ea]]

-----------------------------------------------------------------------------
(* Memory accesses of linux_debmod_t; the addresses are those of the program *)

ReadMemory(m, ea, n) == [i \in 1 .. n |-> m[ea + i - 1]]
WriteMemory(m, ea, bytes) ==
    [a \in DOMAIN m |-> IF a - ea + 1 \in DOMAIN bytes THEN bytes[a - ea + 1] ELSE m[a]]

-----------------------------------------------------------------------------
(* The table: s is a record of mem, bpts, removed and table *)

Without(f, ks) == Restrict(f, DOMAIN f \ ks)
With(f, k, v) == [x \in DOMAIN f \cup {k} |-> IF x = k THEN v ELSE f[x]]
Tables == [mem |-> mem, bpts |-> bpts, removed |-> removed, table |-> table]

\* debmod_bpt_t::saved as dbg_add_bpt fills it.
Save(m, ea, n) == ReadMemory(m, ea, n)

\* Seeded bug: a breakpoint added again stays in removed_bpts.
AddedStale(s, ea, n) ==
    [s EXCEPT !.mem = WriteMemory(s.mem, ea, TrapCode(n)),
              !.bpts = With(@, ea, Save(s.mem, ea, n))]

Added(s, ea, n) ==
    [s EXCEPT !.mem = WriteMemory(s.mem, ea, TrapCode(n)),
              !.bpts = With(@, ea, Save(s.mem, ea, n)),
              !.removed = @ \ {ea}]

\* read_bpt_orgbytes for the client, then dbg_add_bpt.
AddBpt(s, ea) ==
    LET n == TrapLen(ea)
    IN [Added(s, ea, n) EXCEPT !.table = With(@, ea, ReadMemory(s.mem, ea, n))]

\* Seeded bug: the entry is erased at once, while other threads may still have
\* run into the breakpoint.
DeletedAtOnce(s, ea, bytes) ==
    [s EXCEPT !.mem = WriteMemory(s.mem, ea, bytes), !.bpts = Without(@, {ea})]

\* dbg_del_bpt: the entry stays in bpts until the program is resumed.
Deleted(s, ea, bytes) ==
    [s EXCEPT !.mem = WriteMemory(s.mem, ea, bytes), !.removed = @ \cup {ea}]

DelBpt(s, ea) == [Deleted(s, ea, s.table[ea]) EXCEPT !.table = Without(@, {ea})]

SetTables(s) == mem' = s.mem /\ bpts' = s.bpts /\ removed' = s.removed /\ table' = s.table

-----------------------------------------------------------------------------
(* The client; it changes breakpoints while it holds an event *)

Holding == conn = "up" /\ event # NoEvent
Clean == event.eid = "BREAKPOINT" => pc[event.tid] = event.ea

\* The additions are made first.
UpdateBpts(adds, dels) ==
    /\ Holding /\ ops < MaxOps
    /\ Range(adds) \cap DOMAIN table = {} /\ Range(adds) \subseteq Insns
    /\ Range(dels) \subseteq DOMAIN table
    /\ IsInjective(adds) /\ IsInjective(dels) /\ adds \o dels # << >>
    /\ SetTables(FoldLeft(DelBpt, FoldLeft(AddBpt, Tables, adds), dels))
    /\ over' = IF over \in Range(adds) THEN None ELSE over
    /\ ops' = ops + 1
    /\ UNCHANGED <<machine, own, pc, halt, event, last, may_run, only, conn>>

\* The client patches an instruction under which it has no breakpoint.
Patch(a) ==
    /\ Holding /\ ops < MaxOps /\ own[a] = a
    /\ \A ea \in DOMAIN table : a \notin ea .. ea + Len(table[ea]) - 1
    /\ mem' = WriteMemory(mem, a, <<a + Size>>) /\ own' = [own EXCEPT ![a] = a + Size]
    /\ ops' = ops + 1
    /\ UNCHANGED <<machine, bpts, removed, table, pc, halt, event, last, may_run,
                   only, over, conn>>

\* The client sets the instruction pointer back to the breakpoint.
WriteIp ==
    /\ Holding /\ ~Clean
    /\ pc' = [pc EXCEPT ![event.tid] = event.ea]
    /\ halt' = [halt EXCEPT ![event.tid] = "ready"]
    /\ UNCHANGED <<machine, memory, event, last, may_run, only, over, conn, ops>>

Stopped == {"trap", "step"}

\* A thread whose stored status will be reported: the client has not suspended it.
Retrievable(t, stepped) == halt[t] \in Stopped /\ stepped \in {0, t}

\* resume_app: deleted breakpoints are forgotten when the program really runs.
ResumeApp(stepped) ==
    /\ may_run' = ~\E t \in machine.threads \ {event.tid} : Retrievable(t, stepped)
    /\ bpts' = IF may_run' THEN Without(bpts, removed) ELSE bpts
    /\ removed' = IF may_run' THEN {} ELSE removed
    /\ halt' = [halt EXCEPT ![event.tid] = "run"]

\* The client resumes when every thread stands on an instruction; stepping over a
\* breakpoint ends with putting it back.
Continue ==
    /\ Holding /\ Clean /\ over = None
    /\ ResumeApp(0)
    /\ event' = NoEvent /\ only' = 0
    /\ UNCHANGED <<machine, mem, own, table, pc, last, over, conn, ops>>

\* One thread makes a single step without its breakpoint, the others are suspended.
\* No other breakpoint is deleted in between: the suspended threads may have run
\* into it, and resume_app forgets it all the same.
StepOver ==
    /\ Holding /\ Clean /\ event.eid = "BREAKPOINT" /\ over = None
    /\ event.ea \notin DOMAIN table /\ removed = {event.ea}
    /\ ResumeApp(event.tid)
    /\ event' = NoEvent /\ only' = event.tid /\ over' = event.ea
    /\ UNCHANGED <<machine, mem, own, table, pc, last, conn, ops>>

-----------------------------------------------------------------------------
(* The debugged program *)

Running(t) == event = NoEvent /\ may_run /\ halt[t] = "run" /\ only \in {0, t} /\ conn # "over"

Intact(a) == \A i \in a .. a + machine.insns[a] - 1 : mem[i] = own[i]

Execute(t) ==
    /\ Running(t) /\ pc[t] \in Addrs
    /\ IF mem[pc[t]] = -1
       THEN /\ halt' = [halt EXCEPT ![t] = "trap"]
            /\ pc' = [pc EXCEPT ![t] = @ + machine.advance]
       ELSE /\ halt' = [halt EXCEPT ![t] = IF only = t THEN "step" ELSE "run"]
            /\ pc' = [pc EXCEPT ![t] = IF @ \in Insns /\ Intact(@) THEN Succ(@) ELSE Crash]
    /\ UNCHANGED <<machine, memory, event, last, may_run, only, over, conn, ops>>

-----------------------------------------------------------------------------
(* Events *)

\* Where the trap that stopped t is: calc_bpt_event_ea.
ProcIp(t) == pc[t] - machine.advance

EventOf(t) ==
    IF ProcIp(t) \in DOMAIN bpts
    THEN [eid |-> "BREAKPOINT", tid |-> t, ea |-> ProcIp(t)]
    ELSE [eid |-> IF halt[t] = "step" THEN "STEP" ELSE "EXCEPTION", tid |-> t, ea |-> pc[t]]

GetDebugEvent(t) ==
    /\ conn = "up" /\ event = NoEvent /\ Retrievable(t, only)
    /\ event' = EventOf(t) /\ last' = EventOf(t)
    /\ UNCHANGED <<machine, memory, pc, halt, may_run, only, over, conn, ops>>

-----------------------------------------------------------------------------
(* A connection that breaks *)

Drop ==
    /\ conn = "up" /\ machine.drops # "never"
    /\ machine.drops = "held" => event # NoEvent
    /\ conn' = "broken"
    /\ UNCHANGED <<machine, memory, threads, event, last, may_run, only, over, ops>>

\* Seeded bug: only the first unit of a trap code is written back.
RestoreFirst(m) == [a \in DOMAIN m |-> IF a \in DOMAIN bpts THEN bpts[a][1] ELSE m[a]]

\* restore_broken_breakpoints: every saved original is written, in the order of the
\* map, so that a byte of several is left as the last of them has it.
Restore(m) ==
    [a \in DOMAIN m |->
        LET over_a == {ea \in DOMAIN bpts : a \in ea .. ea + Len(bpts[ea]) - 1}
        IN IF over_a = {} THEN m[a] ELSE bpts[Max(over_a)][a - Max(over_a) + 1]]

\* fix_instruction_pointer; without an effect on ARM.
FixPointer ==
    IF machine.advance = 1 /\ last.eid = "BREAKPOINT" /\ pc[last.tid] = last.ea + 1
    THEN /\ pc' = [pc EXCEPT ![last.tid] = last.ea]
         /\ halt' = [halt EXCEPT ![last.tid] = "ready"]
    ELSE UNCHANGED threads

\* dbg_continue_broken_connection: what it does to the program.  The instance is
\* deleted right after it (Sessions), so nothing follows.
Reconnect ==
    /\ conn = "broken"
    /\ mem' = Restore(mem) /\ bpts' = << >>
    /\ FixPointer
    /\ conn' = "over" /\ table' = << >>
    /\ UNCHANGED <<machine, own, removed, event, last, may_run, only, over, ops>>

-----------------------------------------------------------------------------
\* The client starts with the event of the process start.
Init ==
    /\ machine \in Machines
    /\ mem = [a \in Addrs |-> a] /\ own = mem
    /\ bpts = << >> /\ removed = {} /\ table = << >>
    /\ pc = [t \in machine.threads |-> 0] /\ halt = [t \in machine.threads |-> "run"]
    /\ event = [eid |-> "PROCESS_START", tid |-> 1, ea |-> None] /\ last = event
    /\ may_run = FALSE /\ only = 0 /\ over = None /\ conn = "up" /\ ops = 0

Requests == {<< >>} \cup {<<a>> : a \in Insns} \cup {<<a, b>> : a, b \in Insns}
Next ==
    \/ \E adds, dels \in Requests : UpdateBpts(adds, dels)
    \/ \E a \in Addrs : Patch(a)
    \/ WriteIp \/ Continue \/ StepOver
    \/ \E t \in machine.threads : Execute(t) \/ GetDebugEvent(t)
    \/ Drop \/ Reconnect

Spec == Init /\ [][Next]_vars

-----------------------------------------------------------------------------
(* Properties *)

\* Every variable has its type.
TypeOK ==
    /\ machine \in Machines /\ may_run \in BOOLEAN
    /\ DOMAIN mem = Addrs /\ DOMAIN own = Addrs
    /\ DOMAIN bpts \subseteq Insns /\ removed \subseteq Insns /\ DOMAIN table \subseteq Insns
    /\ DOMAIN halt = machine.threads /\ Range(halt) \subseteq {"run", "ready"} \cup Stopped
    /\ conn \in {"up", "broken", "over"} /\ only \in machine.threads \cup {0}
    /\ over \in Insns \cup {None} /\ ops \in 0 .. MaxOps
    /\ event.eid \in {"NO_EVENT", "PROCESS_START", "BREAKPOINT", "STEP", "EXCEPTION"}

\* While the client is there, memory is the program with the client's breakpoints
\* written over it, and nothing else.
MemoryIsWhatTheClientKnows ==
    conn = "up" =>
      \A a \in Addrs :
        mem[a] = IF \E ea \in DOMAIN table : a \in ea .. ea + Len(table[ea]) - 1
                 THEN LET ea == CHOOSE e \in DOMAIN table : a \in e .. e + Len(table[e]) - 1
                      IN ea - a - 1
                 ELSE own[a]

\* A thread that runs into a trap code of the debugger is reported with a breakpoint
\* event, also when the breakpoint was deleted while its status was stored: an
\* exception would be passed on to the program, which knows nothing of it.
TrapsAreBreakpoints == event.eid # "EXCEPTION"

\* When a broken session is taken up, the program is given back as it was: what
\* differs is a breakpoint the client had deleted and patched since.
GivenBackExactly ==
    conn = "broken" /\ conn' = "over" =>
       \A a \in Addrs : mem'[a] # own'[a] =>
          \E ea \in removed : a \in ea .. ea + 1 /\ own[a] # a
RestoresExactly == [][GivenBackExactly]_vars

\* The instruction thread t executes next.
Logical(t) == IF halt[t] = "trap" THEN pc[t] - machine.advance ELSE pc[t]

\* No thread is given back in the middle of an instruction.
HandedBackClean == conn = "over" => \A t \in machine.threads : pc[t] = Logical(t)

\* Breakpoints do not change what the program does: every thread executes its
\* instructions one after the other, each of them once and as it is in the program.
Follows == [a \in Insns |-> Succ(a)]
At == [t \in machine.threads |-> Logical(t)]
Undisturbed == INSTANCE Program WITH follows <- Follows, at <- At
RunsUndisturbed == Undisturbed!ProgramSpec

\* Breakpoints are kept apart from the program: what is in memory, what the client is
\* told of a trap, and where the threads are left when the session is given up.
BreakpointsKept == MemoryIsWhatTheClientKnows /\ TrapsAreBreakpoints /\ HandedBackClean

=============================================================================
