------------------------------- MODULE Appcall -------------------------------
(***************************************************************************)
(* Appcalls: the client has a stopped thread call a function.  The module  *)
(* saves the registers in a stack of contexts, builds the arguments below  *)
(* the stack pointer, puts a control breakpoint behind them, and restores  *)
(* the registers in the end.  Calls nest: the client drives a manual one   *)
(* itself, or makes one while it handles an event that the event loop of   *)
(* another told it of.  RpcSession models the traffic of the event loop.   *)
(***************************************************************************)
EXTENDS Integers, Sequences

CONSTANTS AddrSpace,   \* 2^w, a multiple of 16
          Sps,         \* stack pointers the thread may start with
          Sizes,       \* sizes of the stack arguments to try
          Skips,       \* what finalize_appcall_stack returns: 0 on x86, addrsize on ARM
          MaxCalls     \* bound on nested appcalls

\* Arguments are far smaller than the address space: they came in a packet.
ASSUME AppcallAssumption ==
    /\ AddrSpace \in Nat /\ Sps \subseteq 0 .. AddrSpace - 1 /\ MaxCalls \in Nat
    /\ \A size \in Sizes : size \in Nat /\ size + 32 <= AddrSpace
    /\ Skips \subseteq {0, 4}

addrsize == 4          \* debapp_attrs.addrsize
NoEa == AddrSpace - 1  \* BADADDR
NoCall == [saved |-> [sp |-> 0, code |-> 0], org |-> 0, ctrl_ea |-> NoEa, spoiled |-> FALSE]

VARIABLES cpu,       \* stack pointer and the code the thread is in; 0: the program's own
          calls,     \* appcalls[tid]: a stack of contexts
          open,      \* the registers at the start of each call in progress
          loop,      \* the event loop of dbg_appcall runs; err so far: E_OK or E_TIMEOUT
          outer,     \* the loops whose event the client handles, and the calls open then
          eid,       \* last_event.eid: "EXCEPTION" or "OTHER"
          write,     \* the addresses written for the last appcall
          skip,      \* this processor's element of Skips
          broken     \* a thread could not be given its registers back, or is gone

appVars == <<cpu, calls, open, loop, outer, eid, write, skip, broken>>

Top(s) == s[Len(s)]
Pop(s) == SubSeq(s, 1, Len(s) - 1)

\* Addresses have w bits.
Sub(a, n) == (a - n) % AddrSpace
AlignUp(n, a) == ((n + a - 1) \div a) * a

-----------------------------------------------------------------------------
(* Cleanup *)

\* The registers after write_registers; of the flags the module clears the one that
\* would single step the thread (preprocess_appcall_cleanup).
Restored(ctx) == IF ctx.spoiled THEN ctx.saved ELSE cpu

\* dbg_cleanup_appcall: when the registers cannot be written the context stays.
Cleanup(ctxs) ==
    \/ cpu' = Restored(Top(ctxs)) /\ calls' = Pop(ctxs) /\ UNCHANGED broken
    \/ Top(ctxs).spoiled /\ calls' = ctxs /\ broken' = TRUE /\ UNCHANGED cpu

\* Seeded bug: a failed call leaves its context on the stack.
FailKeeping(ctxs) == calls' = ctxs /\ UNCHANGED <<cpu, broken>>

\* The error path of dbg_appcall.
Fail(ctxs) == Cleanup(ctxs)

-----------------------------------------------------------------------------
(* Setting up a call *)

\* args_sp: below the control address, on a boundary of 16 bytes.
ArgsSp(org, size) ==
    LET a == Sub(Sub(org, addrsize), AlignUp(size, addrsize)) IN a - (a % 16)

CtrlEa(org, size) == (ArgsSp(org, size) + AlignUp(size, addrsize)) % AddrSpace
CallSp(org, size) == Sub(ArgsSp(org, size), addrsize)

\* Addresses of the return address, the arguments and the control code.
Image(org, size) ==
    (CallSp(org, size) + skip) .. (CtrlEa(org, size) + 3)

Context(org, size) == [saved |-> cpu, org |-> org, ctrl_ea |-> CtrlEa(org, size), spoiled |-> FALSE]

\* "underflow?"
Fits(org, size) == CallSp(org, size) < org

\* The registers of the thread when the function starts.
CallRegs(org, size) == [sp |-> CallSp(org, size) + skip, code |-> Len(calls) + 1]

\* A call that fails before it writes anything: after an exception, or the registers
\* cannot be read, or there is no stack, or the arguments cannot be relocated.
AppcallRefused(size) ==
    /\ loop = "none" /\ Len(calls) < MaxCalls
    /\ IF eid = "EXCEPTION" THEN Fail(Append(calls, NoCall))
       ELSE \/ Fail(Append(calls, [NoCall EXCEPT !.saved = cpu]))
            \/ Fail(Append(calls, Context(cpu.sp, size)))
    /\ write' = {}
    /\ UNCHANGED <<open, loop, outer, eid, skip>>

\* The stack cannot be written, an argument is in a reserved register, or a register
\* cannot be written, possibly after others were; or the thread cannot be resumed.
AppcallFails(size) ==
    /\ loop = "none" /\ Len(calls) < MaxCalls /\ eid # "EXCEPTION" /\ Fits(cpu.sp, size)
    /\ \E spoiled \in BOOLEAN :
          \/ ~spoiled /\ Fail(Append(calls, Context(cpu.sp, size)))
          \/ spoiled /\ \E r \in {Context(cpu.sp, size)} :
                \/ cpu' = r.saved /\ UNCHANGED <<calls, broken>>
                \/ /\ cpu' = CallRegs(cpu.sp, size) /\ broken' = TRUE
                   /\ calls' = Append(calls, [r EXCEPT !.spoiled = TRUE])
    /\ write' = Image(cpu.sp, size)
    /\ UNCHANGED <<open, loop, outer, eid, skip>>

\* A manual appcall returns at once; otherwise the event loop starts.  The client, which
\* would have to let the thread run, begins no manual one while it handles an event.
AppcallStarts(size, manual) ==
    /\ loop = "none" /\ Len(calls) < MaxCalls /\ eid # "EXCEPTION" /\ Fits(cpu.sp, size)
    /\ calls' = Append(calls, [Context(cpu.sp, size) EXCEPT !.spoiled = TRUE])
    /\ cpu' = CallRegs(cpu.sp, size)
    /\ write' = Image(cpu.sp, size)
    /\ manual => outer = << >>
    /\ open' = Append(open, cpu)
    /\ loop' = IF manual THEN "none" ELSE "E_OK"
    /\ UNCHANGED <<outer, eid, skip, broken>>

-----------------------------------------------------------------------------
(* The event loop *)

\* The function runs and moves the stack pointer.
Runs ==
    /\ calls # << >> /\ cpu.code = Len(calls) /\ ~broken
    /\ loop # "none" \/ outer = << >>
    /\ \E sp \in {CallSp(Top(calls).org, 0), 16} : cpu' = [cpu EXCEPT !.sp = sp]
    /\ loop = "none" => eid' \in {"EXCEPTION", "OTHER"}
    /\ loop # "none" => UNCHANGED eid
    /\ UNCHANGED <<calls, open, loop, outer, write, skip, broken>>

\* The arguments are read back and the registers given to the client, or one of the two
\* fails.
ReadBack ==
    \/ UNCHANGED <<cpu, calls, open, broken>>
    \/ Fail(calls) /\ open' = Pop(open)

\* The control breakpoint was reached (should_stop_appcall).  Which address that is, the
\* loop reads through a reference to its context, and a call made meanwhile may have
\* moved the contexts: any event may be taken for it, and it may be missed.
Returns ==
    /\ loop = "E_OK"
    /\ eid' = "OTHER" /\ loop' = "none"
    /\ ReadBack
    /\ UNCHANGED <<outer, write, skip>>

\* An exception, an error of the event loop, or no way to stop the process after the
\* timeout.  The exception is not given to the program.
Interrupted ==
    /\ loop # "none"
    /\ eid' = "OTHER" /\ loop' = "none"
    /\ Fail(calls) /\ open' = Pop(open)
    /\ UNCHANGED <<outer, write, skip>>

TimesOut ==
    /\ loop = "E_OK" /\ loop' = "E_TIMEOUT"
    /\ UNCHANGED <<cpu, calls, open, outer, eid, write, skip, broken>>

\* PROCESS_EXIT leaves the loop without an error: no cleanup.
ProcessExits ==
    /\ loop # "none"
    /\ loop' = "none" /\ broken' = TRUE /\ open' = Pop(open)
    /\ UNCHANGED <<cpu, calls, outer, eid, write, skip>>

\* Any other event, and after the timeout any event, goes to the client
\* (send_debug_event_to_ida), which makes requests of its own before it answers.
Told ==
    /\ loop # "none"
    /\ outer' = Append(outer, [err |-> loop, depth |-> Len(open)]) /\ loop' = "none"
    /\ eid' \in {"OTHER"} \cup {e \in {"EXCEPTION"} : loop = "E_TIMEOUT"}
    /\ UNCHANGED <<cpu, calls, open, write, skip, broken>>

\* The client answers, its own calls ended: the program goes on, unless the client
\* refuses the event or the time was up.
Answered ==
    /\ loop = "none" /\ outer # << >> /\ Len(open) = Top(outer).depth
    /\ outer' = Pop(outer)
    /\ \/ /\ Top(outer).err = "E_OK" /\ loop' = "E_OK"
          /\ UNCHANGED <<cpu, calls, open, eid, broken>>
       \/ /\ Fail(calls) /\ open' = Pop(open) /\ eid' = "OTHER" /\ UNCHANGED loop
    /\ UNCHANGED <<write, skip>>

\* The client ends a call that succeeded.
CleanupAppcall ==
    /\ loop = "none" /\ open # << >> /\ calls # << >>
    /\ outer # << >> => Len(open) > Top(outer).depth
    /\ Cleanup(calls)
    /\ open' = IF calls' = calls THEN open ELSE Pop(open)
    /\ UNCHANGED <<loop, outer, eid, write, skip>>

\* The client resumes and gets another event for the thread.
NextEvent ==
    /\ loop = "none" /\ calls = << >>
    /\ eid' = "OTHER" /\ eid' # eid
    /\ UNCHANGED <<cpu, calls, open, loop, outer, write, skip, broken>>

-----------------------------------------------------------------------------
AppInit ==
    /\ \E sp \in Sps : cpu = [sp |-> sp, code |-> 0]
    /\ calls = << >> /\ open = << >> /\ loop = "none" /\ outer = << >>
    /\ write = {} /\ broken = FALSE
    /\ eid \in {"EXCEPTION", "OTHER"} /\ skip \in Skips

AppNext ==
    \/ \E size \in Sizes :
          \/ AppcallRefused(size) \/ AppcallFails(size)
          \/ \E manual \in BOOLEAN : AppcallStarts(size, manual)
    \/ Runs \/ Returns \/ Interrupted \/ TimesOut \/ ProcessExits
    \/ Told \/ Answered \/ CleanupAppcall \/ NextEvent

AppSpec == AppInit /\ [][AppNext]_appVars

-----------------------------------------------------------------------------
(* Properties *)

\* Every variable has its type.
AppTypeOK ==
    /\ cpu \in [sp : 0 .. AddrSpace - 1, code : 0 .. MaxCalls]
    /\ Len(calls) <= MaxCalls /\ Len(open) <= MaxCalls
    /\ \A i \in 1 .. Len(outer) : outer[i] \in [err : {"E_OK", "E_TIMEOUT"}, depth : 1 .. MaxCalls]
    /\ loop \in {"none", "E_OK", "E_TIMEOUT"} /\ eid \in {"EXCEPTION", "OTHER"}
    /\ skip \in Skips /\ broken \in BOOLEAN

\* While the registers can be restored, the contexts are those of the calls in progress,
\* the client's and the ones whose loop runs or waits for the client's answer: no failed
\* call leaves one behind, and each cleanup gives back the registers of its own call.
ContextsAreCalls ==
    ~broken =>
      /\ Len(calls) = Len(open)
      /\ \A i \in 1 .. Len(open) : calls[i].saved = open[i]

\* With no call open the thread is back in the program, where it was.
BackInProgram == ~broken /\ calls = << >> => cpu.code = 0 /\ cpu.sp \in Sps

\* What an appcall writes lies below the stack of whoever was interrupted, whatever
\* the stack pointer and the size of the arguments.
StackIsKept ==
    /\ \A a \in write : a >= 0
    /\ loop # "none" \/ outer # << >> =>
          \A a \in write, i \in 1 .. Len(calls) : a < calls[i].saved.sp

\* Functions start with the stack aligned as gcc compiled programs require.
StartsAligned == Len(calls') > Len(calls) /\ loop' = "E_OK" =>
                     (cpu'.sp + addrsize - skip) % 16 = 0

\* Calls nest: contexts, registers and stack belong to the call they were saved for.
AppcallsNest == ContextsAreCalls /\ BackInProgram /\ StackIsKept

=============================================================================
