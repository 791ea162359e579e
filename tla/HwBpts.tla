------------------------------- MODULE HwBpts -------------------------------
(***************************************************************************)
(* Hardware breakpoints on x86: the table of pc_debmod_t, and the debug    *)
(* registers of every thread, which are written thread by thread when a    *)
(* breakpoint is added or deleted, and never when a thread is born.        *)
(***************************************************************************)
EXTENDS Integers, Sequences, FiniteSets

CONSTANTS MAX_BPT,   \* debug registers of the processor
          Tids,      \* threads, in the order of the map `threads'
          Eas,       \* addresses
          Types,     \* breakpoint types to try
          Lens       \* breakpoint lengths to try

ASSUME HwAssumption ==
    /\ MAX_BPT \in Nat /\ Tids \subseteq Nat /\ Eas \subseteq Nat
    /\ Types \subseteq {1, 2, 3, 4, 8} /\ Lens \subseteq Nat   \* the bpttype_t values

BPT_SOFT == 4
BPT_EXEC == 8
BADADDR == -1
Slots == 1 .. MAX_BPT

VARIABLES hwbpt,     \* hwbpt_ea and hwbpt_type
          dr7,       \* per slot: enable bit and the four bits of type and length
          regs,      \* debug registers of each thread
          life,      \* "none", "alive", or "zombie": still in the table, ptrace fails
          reached,   \* threads the last refresh wrote
          held,      \* breakpoints the client was told it has
          failed,    \* whether some refresh has failed
          touched,   \* address whose access stopped a thread, BADADDR: it runs
          hea        \* address reported with the last event

hwVars == <<hwbpt, dr7, regs, life, reached, held, failed, touched, hea>>

Free == [ea |-> BADADDR, type |-> BPT_EXEC]
Off == [on |-> FALSE, bits |-> 0]
Cleared == [dr |-> [i \in Slots |-> 0], ctl |-> [i \in Slots |-> Off], dr6 |-> {}]

\* The kernel writes an address of all ones as zero.
DrValue(ea) == IF ea = BADADDR THEN 0 ELSE ea

\* Encodings the kernel refuses to put in dr7.
Refused(bits) == bits \in {2, 4, 6, 8, 9, 10, 11, 12, 14}

-----------------------------------------------------------------------------

\* find_hwbpt_slot: the first empty slot, unless b is in one before it; 0: none.
FindSlot(b) ==
    LET stops == {i \in Slots : hwbpt[i] = b \/ hwbpt[i].ea = BADADDR}
        first == CHOOSE i \in stops : \A j \in stops : i <= j
    IN IF stops = {} \/ hwbpt[first] = b THEN 0 ELSE first

\* The type and length bits of a breakpoint; the type of exec breakpoints is 0.
TypeBits(type, len) ==
    (IF type = BPT_EXEC THEN 0 ELSE type)
      + (CASE len = 2 -> 4 [] len = 4 -> 12 [] OTHER -> 0)

\* The threads refresh_hwbpts writes: those before the first failure.
WrittenThreads(threads, ok) == {t \in threads : \A u \in threads : u <= t => ok[u]}

\* set_hwbpts.
Registers(table, ctl, old) ==
    [dr |-> [i \in Slots |-> DrValue(table[i].ea)], ctl |-> ctl, dr6 |-> {}]

\* refresh_hwbpts with set_hwbpts for each thread.  The address registers of the
\* thread that fails, and its dr6, are written before dr7 is refused.
Refresh(table, ctl) ==
    LET threads == {t \in Tids : life[t] # "none"}
        legal == \A i \in Slots : ~Refused(ctl[i].bits)
        ok == [t \in threads |-> life[t] = "alive" /\ legal]
        done == WrittenThreads(threads, ok)
    IN /\ regs' = [t \in Tids |->
                     IF t \in done THEN Registers(table, ctl, regs[t])
                     ELSE IF t \in threads /\ life[t] = "alive" /\ \A u \in threads : u < t => ok[u]
                     THEN Registers(table, regs[t].ctl, regs[t])
                     ELSE regs[t]]
       /\ reached' = done
       /\ failed' = (failed \/ done # threads)

Succeeded == reached' = {t \in Tids : life[t] # "none"}

-----------------------------------------------------------------------------
\* dbg_add_bpt for a hardware breakpoint.  A software breakpoint whose memory
\* cannot be read comes here as well, with its own type.
AddHwbpt(b, len) ==
    LET i == FindSlot(b)
    IN /\ b \notin held /\ i # 0
       /\ b.type = BPT_SOFT => len = 1
       /\ hwbpt' = [hwbpt EXCEPT ![i] = b]
       /\ dr7' = [dr7 EXCEPT ![i] = [on |-> TRUE, bits |-> TypeBits(b.type, len)]]
       /\ Refresh(hwbpt', dr7')
       /\ held' = IF Succeeded THEN held \cup {b} ELSE held
       /\ UNCHANGED <<life, touched, hea>>

\* Seeded bug: the enable bit is left set.
SlotDisabled(i) == [dr7 EXCEPT ![i].bits = 0]

SlotOff(i) == [dr7 EXCEPT ![i] = Off]

\* dbg_del_bpt without original bytes; 0 is answered when the refresh fails.
DelHwbpt(b) ==
    \E i \in Slots :
      /\ b \in held /\ hwbpt[i] = b /\ \A j \in Slots : hwbpt[j] = b => i <= j
      /\ hwbpt' = [hwbpt EXCEPT ![i].ea = BADADDR]
      /\ dr7' = SlotOff(i)
      /\ Refresh(hwbpt', dr7')
      /\ held' = held \ {b}
      /\ UNCHANGED <<life, touched, hea>>

\* dbg_term: the table only, when the process is gone.
CleanupHwbpts ==
    /\ \A t \in Tids : life[t] = "none"
    /\ hwbpt' = [i \in Slots |-> Free] /\ dr7' = [i \in Slots |-> Off]
    /\ held' = {} /\ failed' = FALSE /\ reached' = {} /\ hea' = BADADDR
    /\ life' = [life EXCEPT ![CHOOSE t \in Tids : \A u \in Tids : t <= u] = "alive"]
    /\ UNCHANGED <<regs, touched>>

-----------------------------------------------------------------------------
(* Threads; their registers are the kernel's *)

\* A new thread has the registers of its creator, or none, as the kernel likes.
Birth(t, u) ==
    /\ life[t] = "none" /\ life[u] = "alive"
    /\ life' = [life EXCEPT ![t] = "alive"]
    /\ \E r \in {Cleared, [regs[u] EXCEPT !.dr6 = {}]} : regs' = [regs EXCEPT ![t] = r]
    /\ UNCHANGED <<hwbpt, dr7, reached, held, failed, touched, hea>>

Dies(t) ==
    /\ life[t] = "alive"
    /\ life' = [life EXCEPT ![t] = "zombie"] /\ touched' = [touched EXCEPT ![t] = BADADDR]
    /\ UNCHANGED <<hwbpt, dr7, regs, reached, held, failed, hea>>

Reaped(t) ==
    /\ life[t] = "zombie"
    /\ life' = [life EXCEPT ![t] = "none"] /\ regs' = [regs EXCEPT ![t] = Cleared]
    /\ reached' = reached \ {t}
    /\ UNCHANGED <<hwbpt, dr7, held, failed, touched, hea>>

Armed(t) == {i \in Slots : regs[t].ctl[i].on}

\* An access stops the thread and sets bits in its dr6.
Touch(t, ea) ==
    LET hit == {i \in Armed(t) : regs[t].dr[i] = ea}
    IN /\ life[t] = "alive" /\ touched[t] = BADADDR /\ hit # {}
       /\ touched' = [touched EXCEPT ![t] = ea]
       /\ regs' = [regs EXCEPT ![t].dr6 = @ \cup hit]
       /\ UNCHANGED <<hwbpt, dr7, life, reached, held, failed, hea>>

Matches(t, i) == i \in regs[t].dr6 /\ hwbpt[i].ea = regs[t].dr[i]

\* handle_hwbpt, when the status of t is reported.  Without a match the SIGTRAP is
\* an exception.
HandleHwbpt(t) ==
    /\ life[t] = "alive" /\ touched[t] # BADADDR
    /\ LET hits == {i \in Slots : Matches(t, i)}
       IN IF hits = {} THEN hea' = BADADDR /\ UNCHANGED regs
          ELSE LET i == CHOOSE j \in hits : \A k \in hits : j <= k
               IN hea' = hwbpt[i].ea /\ regs' = [regs EXCEPT ![t].dr6 = {}]
    /\ touched' = [touched EXCEPT ![t] = BADADDR]
    /\ UNCHANGED <<hwbpt, dr7, life, reached, held, failed>>

-----------------------------------------------------------------------------
First == CHOOSE t \in Tids : \A u \in Tids : t <= u
HwInit ==
    /\ hwbpt = [i \in Slots |-> Free] /\ dr7 = [i \in Slots |-> Off]
    /\ regs = [t \in Tids |-> Cleared]
    /\ life = [t \in Tids |-> IF t = First THEN "alive" ELSE "none"]
    /\ reached = {} /\ held = {} /\ failed = FALSE
    /\ touched = [t \in Tids |-> BADADDR] /\ hea = BADADDR

HwNext ==
    \/ \E ea \in Eas, type \in Types, len \in Lens : AddHwbpt([ea |-> ea, type |-> type], len)
    \/ \E b \in held : DelHwbpt(b)
    \/ CleanupHwbpts
    \/ \E t, u \in Tids : Birth(t, u)
    \/ \E t \in Tids : Dies(t) \/ Reaped(t) \/ HandleHwbpt(t)
    \/ \E t \in Tids, ea \in Eas : Touch(t, ea)

HwSpec == HwInit /\ [][HwNext]_hwVars

-----------------------------------------------------------------------------
(* Properties *)

\* Every variable has its type.
HwTypeOK ==
    /\ hwbpt \in [Slots -> [ea : Eas \cup {BADADDR}, type : Types \cup {BPT_EXEC}]]
    /\ dr7 \in [Slots -> [on : BOOLEAN, bits : 0 .. 15]]
    /\ regs \in [Tids -> [dr : [Slots -> Eas \cup {0}], ctl : [Slots -> [on : BOOLEAN, bits : 0 .. 15]],
                          dr6 : SUBSET Slots]]
    /\ reached \subseteq Tids /\ failed \in BOOLEAN
    /\ held \subseteq [ea : Eas, type : Types]

\* A breakpoint the client was told it has stops every thread that was there when the
\* registers were last written; only later threads may miss it.
HeldAreArmed ==
    \A b \in held, t \in reached : life[t] = "alive" =>
        \E i \in Armed(t) : regs[t].dr[i] = b.ea /\ hwbpt[i] = b

\* As long as every refresh succeeds, the table has one slot for each breakpoint of
\* the client and no other, so a deleted one cannot fire and no slot is lost.
TableIsHeld ==
    ~failed => /\ {hwbpt[i] : i \in {j \in Slots : hwbpt[j].ea # BADADDR}} = held
               /\ \A i \in Slots : dr7[i].on <=> hwbpt[i].ea # BADADDR
               /\ \A b \in held : Cardinality({i \in Slots : hwbpt[i] = b}) = 1

\* The address reported with a breakpoint event is the one whose access stopped the
\* thread, although the slot may have been given to another breakpoint since.  (After
\* a failed refresh the dr6 of a thread may keep old bits.)
ReportsWhereTouched ==
    \A t \in Tids : ~failed /\ touched[t] # BADADDR /\ touched'[t] = BADADDR /\ life'[t] = "alive"
       => hea' \in {touched[t], BADADDR}

\* The table, the registers of the threads and the breakpoints of the client agree.
HardwareBreakpointsHold == HeldAreArmed /\ TableIsHeld

=============================================================================
