------------------------------ MODULE Registers ------------------------------
(***************************************************************************)
(* Registers of a stopped x86 thread: dbg_read_registers,                  *)
(* dbg_write_register and write_registers.  The kernel keeps three blocks; *)
(* the block with the XMM registers holds a copy of the FPU registers, and *)
(* an MMX register is the mantissa of an FPU register.                     *)
(***************************************************************************)
EXTENDS Integers, Sequences, SequencesExt

CONSTANTS Values,      \* values of a register or a part of one
          MaxBatch,    \* bound on the registers of one write_registers call
          MaxSteps     \* bound on reads, writes and instructions

\* One register of each kind, in the order of their indices.
RegNames == <<"st0", "ctrl", "cs", "eip", "xmm0", "mmx0">>
Regs == ToSet(RegNames)
Parts == {"mant", "exp", "ctrl", "cs", "eip", "xmm"}

\* get_x86_reg_class
Classes == {"FPU", "SEGMENTS", "GENERAL", "XMM", "MMX"}
ClassOf == [r \in Regs |-> CASE r \in {"st0", "ctrl"} -> "FPU" [] r = "cs" -> "SEGMENTS"
                             [] r = "eip" -> "GENERAL" [] r = "xmm0" -> "XMM"
                             [] r = "mmx0" -> "MMX"]
PartsOf == [r \in Regs |-> CASE r = "st0" -> {"mant", "exp"} [] r = "mmx0" -> {"mant"}
                             [] r = "xmm0" -> {"xmm"} [] OTHER -> {r}]
IntRegs == {"GENERAL", "SEGMENTS"}
StoredInFpregs == {"FPU", "MMX"}

\* What the ptrace requests transfer.
Block == [regs |-> {"cs", "eip"}, fpregs |-> {"mant", "exp", "ctrl"},
          fpxregs |-> {"mant", "exp", "ctrl", "xmm"}]

VARIABLES thread,      \* the kernel's registers of the thread: part -> value
          saved,       \* values the server read, by register
          batch,       \* history: what was written last, << >> after the thread ran
          steps

rvars == <<thread, saved, batch, steps>>

\* All parts of a value are alike; parts differ by where they came from.
ValuesOf(r) == {[p \in PartsOf[r] |-> v] : v \in Values}

\* dbg_read_registers: registers of the classes that were asked for.
ReadRegisters(clsmask) ==
    /\ saved' = [r \in {x \in Regs : ClassOf[x] \in clsmask} |-> [p \in PartsOf[r] |-> thread[p]]]
    /\ UNCHANGED <<thread, batch>>

\* patch_reg_context
Patched(image, r, value) == [p \in DOMAIN image |-> IF p \in PartsOf[r] THEN value[p] ELSE image[p]]

\* PTRACE_SETREGS, PTRACE_SETFPREGS, PTRACE_SETFPXREGS
Store(t, image) == [p \in Parts |-> IF p \in DOMAIN image THEN image[p] ELSE t[p]]

BlockFor(r) == CASE ClassOf[r] \in IntRegs -> "regs" [] ClassOf[r] \in StoredInFpregs -> "fpregs"
                 [] ClassOf[r] = "XMM" -> "fpxregs"

\* dbg_write_register: one block is read, patched and stored.
WriteRegister(r, value) ==
    /\ thread' = Store(thread, Patched([p \in Block[BlockFor(r)] |-> thread[p]], r, value))
    /\ batch' = <<[reg |-> r, value |-> value]>>
    /\ UNCHANGED saved

\* The blocks write_registers reads once, with all values of b patched in.
Image(b, block) ==
    LET mine == SelectSeq(b, LAMBDA e : BlockFor(e.reg) = block)
    IN FoldLeft(LAMBDA image, e : Patched(image, e.reg, e.value),
                [p \in IF mine = << >> THEN {} ELSE Block[block] |-> thread[p]], mine)

\* Seeded bug: the FPU registers are stored before the block that spoils them.
FpxLast(b) ==
    FoldLeft(Store, thread, <<Image(b, "regs"), Image(b, "fpregs"), Image(b, "fpxregs")>>)

Written(b) ==
    FoldLeft(Store, thread, <<Image(b, "regs"), Image(b, "fpxregs"), Image(b, "fpregs")>>)

WriteRegisters(b) == thread' = Written(b) /\ batch' = b /\ UNCHANGED saved

\* Registers that were read are written back, as at the end of an appcall.
RestoreRegisters ==
    /\ DOMAIN saved # {}
    /\ WriteRegisters([i \in DOMAIN SelectSeq(RegNames, LAMBDA r : r \in DOMAIN saved) |->
           LET r == SelectSeq(RegNames, LAMBDA x : x \in DOMAIN saved)[i]
           IN [reg |-> r, value |-> saved[r]]])

\* The thread executes an instruction.
Execute ==
    /\ \E p \in Parts, v \in Values : thread' = [thread EXCEPT ![p] = v]
    /\ batch' = << >> /\ UNCHANGED saved

Entries == UNION {{[reg |-> r, value |-> v] : v \in ValuesOf(r)} : r \in Regs}

\* Registers are written in the order of their indices (dbg_cleanup_appcall).
Batches == {b \in UNION {[1 .. n -> Entries] : n \in 1 .. MaxBatch} :
               \A i, j \in DOMAIN b : i < j =>
                   \E k, l \in DOMAIN RegNames :
                       k < l /\ RegNames[k] = b[i].reg /\ RegNames[l] = b[j].reg}

Init == /\ thread \in [Parts -> {CHOOSE v \in Values : TRUE}] /\ saved = << >> /\ batch = << >>
        /\ steps = 0

Next ==
    /\ steps < MaxSteps /\ steps' = steps + 1
    /\ \/ \E clsmask \in {Classes, {"FPU", "XMM"}, {"GENERAL"}} : ReadRegisters(clsmask)
       \/ \E e \in Entries : WriteRegister(e.reg, e.value)
       \/ \E b \in Batches : WriteRegisters(b)
       \/ RestoreRegisters \/ Execute

Spec == Init /\ [][Next]_rvars

\* A write changes the registers it names, the last value of each part of them
\* counting, and no other register, whatever blocks it has to store for that.
WritesExactly ==
    batch' # << >> =>
       \A p \in Parts :
          LET hits == {i \in DOMAIN batch' : p \in PartsOf[batch'[i].reg]}
          IN thread'[p] = IF hits = {} THEN thread[p]
                          ELSE batch'[CHOOSE i \in hits : \A j \in hits : j <= i].value[p]
=============================================================================
