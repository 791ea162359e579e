------------------------- MODULE Breakpoints_proofs -------------------------
(***************************************************************************)
(* Proofs about Breakpoints, for every program, every number of threads,   *)
(* every length of a trap code and every number of changes; and about      *)
(* HwBpts, for every number of debug registers, threads and breakpoints.   *)
(*                                                                         *)
(* Memory is the program with the client's trap codes over it because the  *)
(* three tables agree: a byte under a breakpoint of the client is saved as *)
(* it is in the program, a byte saved for a deleted breakpoint is as in    *)
(* the program or as it was compiled.  A trap is recognized because a      *)
(* thread that ran into one stands at an address that is still in bpts,    *)
(* or at the breakpoint another thread is being stepped over.              *)
(*                                                                         *)
(* Of hardware breakpoints: a thread that the last refresh reached has the *)
(* table in its registers, whatever became of the others.  As long as no   *)
(* refresh has failed, every thread has the table or nothing in its        *)
(* registers, so a bit in dr6 is about a breakpoint that is still there.   *)
(***************************************************************************)
EXTENDS Breakpoints, HwBpts, FiniteSetTheorems, WellFoundedInduction, TLAPS

-----------------------------------------------------------------------------
(* The machine: instructions, and the places of trap codes                   *)

Under(ea) == ea .. ea + TrapLen(ea) - 1
CodeOf(o, ea) == [i \in 1 .. TrapLen(ea) |-> o[ea + i - 1]]

\* The greatest element of a set of integers that has one.
LEMMA MaxIs ==
  ASSUME NEW S, S \subseteq Int, NEW m \in S, \A y \in S : y <= m
  PROVE  Max(S) = m
<1>1. PICK n : n = CHOOSE x \in S : \A y \in S : x >= y
  OBVIOUS
<1>2. n \in S /\ \A y \in S : n >= y
  BY <1>1
<1>3. n >= m /\ m >= n /\ m \in Int /\ n \in Int
  BY <1>2
<1> QED BY <1>1, <1>3 DEF Max

\* The instructions follow one another without a gap from 0 to Size.
LEMMA Geometry ==
  ASSUME machine \in Machines
  PROVE  /\ Insns \subseteq Nat /\ 0 \in Insns /\ Size \in Nat /\ Size > 0
         /\ \A a \in Insns : /\ machine.insns[a] \in Nat /\ TrapLen(a) \in {1, 2}
                             /\ TrapLen(a) <= machine.insns[a]
                             /\ a + machine.insns[a] <= Size
         /\ \A a, b \in Insns : a < b => a + machine.insns[a] <= b
         /\ machine.advance \in {0, 1} /\ 1 \in machine.threads /\ 0 \notin machine.threads
<1>1. WellFormed(machine)
  BY MachineAssumption
<1>2. Insns \subseteq Nat /\ 0 \in Insns
  BY <1>1 DEF WellFormed, Insns
<1>3. \A a \in Insns : /\ machine.insns[a] \in Nat /\ TrapLen(a) \in {1, 2}
                       /\ TrapLen(a) <= machine.insns[a]
  BY <1>1 DEF WellFormed, Insns, TrapLen
<1>4. \A a, b \in Insns : a < b => a + machine.insns[a] <= b
  BY <1>1 DEF WellFormed, Insns
<1>5. PICK z \in Insns : \A a \in Insns : a <= z
  BY <1>1 DEF WellFormed, Insns
<1>6. \A a \in Insns : a + machine.insns[a] <= z + machine.insns[z]
  <2>1. SUFFICES ASSUME NEW a \in Insns PROVE a + machine.insns[a] <= z + machine.insns[z]
    OBVIOUS
  <2>2. a = z \/ a < z
    BY <1>2, <1>5
  <2>3. a < z => a + machine.insns[a] <= z
    BY <1>4
  <2> QED BY <2>2, <2>3, <1>2, <1>3
<1>7. Size = z + machine.insns[z]
  <2> DEFINE S == {a + machine.insns[a] : a \in Insns}
  <2>1. S \subseteq Int /\ z + machine.insns[z] \in S
    BY <1>2, <1>3
  <2>2. \A y \in S : y <= z + machine.insns[z]
    BY <1>6
  <2>3. Max(S) = z + machine.insns[z]
    <3> HIDE DEF S
    <3> QED BY <2>1, <2>2, MaxIs
  <2> QED BY <2>3 DEF Size
<1>8. Size \in Nat /\ Size > 0
  BY <1>7, <1>3, <1>2
<1>9. machine.advance \in {0, 1} /\ 1 \in machine.threads /\ 0 \notin machine.threads
  BY <1>1 DEF WellFormed
<1> QED BY <1>2, <1>3, <1>4, <1>6, <1>7, <1>8, <1>9

\* After an instruction comes an instruction.
LEMMA SuccIsInsn ==
  ASSUME machine \in Machines, NEW a \in Insns
  PROVE  /\ Succ(a) \in Insns
         /\ Succ(a) = 0 \/ Succ(a) = a + machine.insns[a]
<1>1. WellFormed(machine)
  BY MachineAssumption
<1>2. \A x, y \in Insns : x < y => x + machine.insns[x] \in Insns
  BY <1>1 DEF WellFormed, Insns
<1>3. PICK z \in Insns : \A x \in Insns : x <= z
  BY <1>1 DEF WellFormed, Insns
<1>4. a = z => a + machine.insns[a] = Size
  <2>1. SUFFICES ASSUME a = z PROVE a + machine.insns[a] = Size
    OBVIOUS
  <2> DEFINE S == {x + machine.insns[x] : x \in Insns}
  <2>2. S \subseteq Int /\ z + machine.insns[z] \in S
    BY Geometry
  <2>3. \A y \in S : y <= z + machine.insns[z]
    <3>1. SUFFICES ASSUME NEW x \in Insns PROVE x + machine.insns[x] <= z + machine.insns[z]
      OBVIOUS
    <3>2. x = z \/ (x < z /\ x + machine.insns[x] <= z)
      BY <1>3, Geometry
    <3> QED BY <3>2, Geometry
  <2>4. Max(S) = z + machine.insns[z]
    <3> HIDE DEF S
    <3> QED BY <2>2, <2>3, MaxIs
  <2> QED BY <2>1, <2>4 DEF Size
<1>5. a + machine.insns[a] # Size => a + machine.insns[a] \in Insns
  <2>1. a # z => a < z
    BY <1>3, Geometry
  <2> QED BY <2>1, <1>2, <1>4
<1> QED BY <1>5, Geometry DEF Succ

\* Trap codes lie within memory, each within its instruction.
LEMMA Places ==
  ASSUME machine \in Machines, NEW a \in Insns
  PROVE  /\ Under(a) \subseteq Addrs /\ a \in Under(a) /\ a \in Addrs /\ a \in Nat
         /\ Under(a) \subseteq a .. a + machine.insns[a] - 1
         /\ a .. a + machine.insns[a] - 1 \subseteq Addrs
         /\ \A c \in Under(a) : c \in Int /\ c - a + 1 \in 1 .. TrapLen(a)
         /\ \A i \in 1 .. TrapLen(a) : a + i - 1 \in Under(a)
         /\ \A b \in Insns : b # a =>
               \A c \in a .. a + machine.insns[a] - 1 : c \notin Under(b) /\ c # b
BY Geometry DEF Under, Addrs


-----------------------------------------------------------------------------
(* The tables agree: o the program, m memory, b bpts, r removed, tb table    *)

Shaped(b, r, tb) ==
    DOMAIN b = DOMAIN tb \cup r /\ DOMAIN tb \cap r = {} /\ DOMAIN b \subseteq Insns
TableSaved(o, b, tb) ==
    \A ea \in DOMAIN tb : tb[ea] = CodeOf(o, ea) /\ b[ea] = CodeOf(o, ea)
SavedOf(o, x, ea) ==
    /\ x \in [1 .. TrapLen(ea) -> Int]
    /\ \A i \in 1 .. TrapLen(ea) : x[i] \in {o[ea + i - 1], ea + i - 1}
RemovedSaved(o, b, r) == \A ea \in r : SavedOf(o, b[ea], ea)
Covered(m, tb) == \A ea \in DOMAIN tb : \A a \in Under(ea) : m[a] = ea - a - 1
Bare(o, m, tb) ==
    \A a \in Addrs : (\A ea \in DOMAIN tb : a \notin Under(ea)) => m[a] = o[a]
TablesAgree(o, m, b, r, tb) ==
    /\ Shaped(b, r, tb) /\ TableSaved(o, b, tb) /\ RemovedSaved(o, b, r)
    /\ m \in [Addrs -> Int] /\ Covered(m, tb) /\ Bare(o, m, tb)

OwnBytes(o) == o \in [Addrs -> Int] /\ \A a \in Addrs : o[a] \in {a, a + Size}

LEMMA WithoutIs ==
  ASSUME NEW f, NEW ks
  PROVE  /\ DOMAIN Without(f, ks) = DOMAIN f \ ks
         /\ \A x \in DOMAIN f \ ks : Without(f, ks)[x] = f[x]
BY DEF Without, Restrict

\* A write changes the bytes under it and no other.
LEMMA Written ==
  ASSUME machine \in Machines, NEW a \in Insns, NEW m \in [Addrs -> Int],
         NEW x \in [1 .. TrapLen(a) -> Int]
  PROVE  /\ WriteMemory(m, a, x) \in [Addrs -> Int]
         /\ \A c \in Under(a) : WriteMemory(m, a, x)[c] = x[c - a + 1]
         /\ \A c \in Addrs : c \notin Under(a) => WriteMemory(m, a, x)[c] = m[c]
<1>1. DOMAIN x = 1 .. TrapLen(a) /\ DOMAIN m = Addrs
  OBVIOUS
<1>2. \A c \in Addrs : c - a + 1 \in 1 .. TrapLen(a) <=> c \in Under(a)
  BY Geometry, Places DEF Under, Addrs
<1> QED BY <1>1, <1>2, Places DEF WriteMemory

LEMMA CodeIs ==
  ASSUME machine \in Machines, NEW a \in Insns, NEW o \in [Addrs -> Int]
  PROVE  /\ CodeOf(o, a) \in [1 .. TrapLen(a) -> Int] /\ SavedOf(o, CodeOf(o, a), a)
         /\ \A c \in Under(a) : CodeOf(o, a)[c - a + 1] = o[c]
<1>1. \A i \in 1 .. TrapLen(a) : a + i - 1 \in Addrs /\ i \in Int /\ a \in Int
  BY Geometry, Places
<1>2. CodeOf(o, a) \in [1 .. TrapLen(a) -> Int]
  BY <1>1 DEF CodeOf
<1>3. \A c \in Under(a) : c - a + 1 \in 1 .. TrapLen(a) /\ a + (c - a + 1) - 1 = c
  BY <1>1, Places
<1>4. \A c \in Under(a) : CodeOf(o, a)[c - a + 1] = o[c]
  BY <1>3 DEF CodeOf
<1>5. \A i \in 1 .. TrapLen(a) : CodeOf(o, a)[i] = o[a + i - 1]
  BY DEF CodeOf
<1> QED BY <1>2, <1>4, <1>5 DEF SavedOf

\* The tables after one breakpoint was added.
LEMMA AddFields ==
  ASSUME NEW m, NEW b, NEW r, NEW tb, NEW ea, NEW s, s = [mem |-> m, bpts |-> b, removed |-> r, table |-> tb]
  PROVE  AddBpt(s, ea) =
            [mem |-> WriteMemory(m, ea, TrapCode(TrapLen(ea))),
             bpts |-> With(b, ea, ReadMemory(m, ea, TrapLen(ea))),
             removed |-> r \ {ea},
             table |-> With(tb, ea, ReadMemory(m, ea, TrapLen(ea)))]
<1> DEFINE n == TrapLen(ea)
           m2 == WriteMemory(m, ea, TrapCode(n))
           c == ReadMemory(m, ea, n)
           b2 == With(b, ea, c)
           t2 == With(tb, ea, c)
<1>1. s.mem = m /\ s.bpts = b /\ s.removed = r /\ s.table = tb
  OBVIOUS
<1>2. Added(s, ea, n) = [s EXCEPT !.mem = m2, !.bpts = b2, !.removed = r \ {ea}]
  BY <1>1 DEF Added, Save
<1> HIDE DEF m2, b2
<1>3. Added(s, ea, n) = [mem |-> m2, bpts |-> b2, removed |-> r \ {ea}, table |-> tb]
  BY <1>1, <1>2
<1>4. AddBpt(s, ea) = [Added(s, ea, n) EXCEPT !.table = With(@, ea, c)]
  BY <1>1 DEF AddBpt
<1>5. AddBpt(s, ea) = [Added(s, ea, n) EXCEPT !.table = t2]
  BY <1>3, <1>4
<1> HIDE DEF t2
<1>6. AddBpt(s, ea) = [mem |-> m2, bpts |-> b2, removed |-> r \ {ea}, table |-> t2]
  BY <1>3, <1>5
<1> QED BY <1>6 DEF m2, b2, t2

Agrees(s) ==
    /\ s = [mem |-> s.mem, bpts |-> s.bpts, removed |-> s.removed, table |-> s.table]
    /\ TablesAgree(own, s.mem, s.bpts, s.removed, s.table)

\* A breakpoint is added where there is none of the client's: what it saves is the program.
LEMMA AddKeeps ==
  ASSUME machine \in Machines, OwnBytes(own), NEW s, Agrees(s),
         NEW ea \in Insns, ea \notin DOMAIN s.table
  PROVE  /\ Agrees(AddBpt(s, ea))
         /\ DOMAIN AddBpt(s, ea).table = DOMAIN s.table \cup {ea}
         /\ DOMAIN AddBpt(s, ea).bpts = DOMAIN s.bpts \cup {ea}
<1> DEFINE n == TrapLen(ea)
           m2 == WriteMemory(s.mem, ea, TrapCode(n))
           b2 == With(s.bpts, ea, ReadMemory(s.mem, ea, n))
           t2 == With(s.table, ea, ReadMemory(s.mem, ea, n))
           r2 == s.removed \ {ea}
<1>1. AddBpt(s, ea) = [mem |-> m2, bpts |-> b2, removed |-> r2, table |-> t2]
  <2> DEFINE m == s.mem
             b == s.bpts
             r == s.removed
             tb == s.table
  <2>1. s = [mem |-> m, bpts |-> b, removed |-> r, table |-> tb]
    BY DEF Agrees
  <2> HIDE DEF m, b, r, tb
  <2> QED BY <2>1, AddFields DEF m, b, r, tb
<1>2. /\ Shaped(s.bpts, s.removed, s.table) /\ TableSaved(own, s.bpts, s.table)
      /\ RemovedSaved(own, s.bpts, s.removed) /\ s.mem \in [Addrs -> Int]
      /\ Covered(s.mem, s.table) /\ Bare(own, s.mem, s.table)
  BY DEF Agrees, TablesAgree
<1>3. own \in [Addrs -> Int]
  BY DEF OwnBytes
<1>4. DOMAIN s.table \subseteq Insns
  BY <1>2 DEF Shaped
<1>5. \A c \in Under(ea) : c \in Addrs /\ \A x \in DOMAIN s.table : c \notin Under(x)
  BY <1>4, Places
<1>6. \A c \in Under(ea) : s.mem[c] = own[c]
  BY <1>2, <1>5 DEF Bare
<1>7. ReadMemory(s.mem, ea, n) = CodeOf(own, ea)
  <2>1. \A i \in 1 .. n : s.mem[ea + i - 1] = own[ea + i - 1]
    BY <1>6, Places
  <2> QED BY <2>1 DEF ReadMemory, CodeOf
<1>8. TrapCode(n) \in [1 .. n -> Int] /\ \A i \in 1 .. n : TrapCode(n)[i] = -i
  BY DEF TrapCode
<1>9. /\ m2 \in [Addrs -> Int]
      /\ \A c \in Under(ea) : m2[c] = TrapCode(n)[c - ea + 1]
      /\ \A c \in Addrs : c \notin Under(ea) => m2[c] = s.mem[c]
  BY <1>2, <1>8, Written
<1>10. \A c \in Under(ea) : m2[c] = ea - c - 1
  <2>1. \A c \in Under(ea) : c \in Int /\ ea \in Int /\ c - ea + 1 \in 1 .. n
    BY Places
  <2>2. \A c \in Under(ea) : m2[c] = -(c - ea + 1)
    BY <1>8, <1>9, <2>1
  <2> QED BY <2>1, <2>2
<1>11. /\ DOMAIN t2 = DOMAIN s.table \cup {ea} /\ t2[ea] = CodeOf(own, ea)
       /\ \A x \in DOMAIN s.table : t2[x] = s.table[x]
  <2> DEFINE f == s.table
             c == CodeOf(own, ea)
  <2>1. t2 = With(f, ea, c) /\ ea \notin DOMAIN f
    BY <1>7
  <2> HIDE DEF t2, f, c
  <2>2. DOMAIN t2 = DOMAIN f \cup {ea} /\ t2[ea] = c /\ \A x \in DOMAIN f : x # ea => t2[x] = f[x]
    BY <2>1 DEF With
  <2>3. DOMAIN t2 = DOMAIN f \cup {ea} /\ t2[ea] = c /\ \A x \in DOMAIN f : t2[x] = f[x]
    BY <2>1, <2>2
  <2> QED BY <2>3 DEF f, c
<1>12. /\ DOMAIN b2 = DOMAIN s.bpts \cup {ea} /\ b2[ea] = CodeOf(own, ea)
       /\ \A x \in DOMAIN s.bpts : x # ea => b2[x] = s.bpts[x]
  <2> DEFINE f == s.bpts
             c == CodeOf(own, ea)
  <2>1. b2 = With(f, ea, c)
    BY <1>7
  <2> HIDE DEF b2, f, c
  <2>2. DOMAIN b2 = DOMAIN f \cup {ea} /\ b2[ea] = c /\ \A x \in DOMAIN f : x # ea => b2[x] = f[x]
    BY <2>1 DEF With
  <2> QED BY <2>2 DEF f, c
<1> HIDE DEF m2, b2, t2, n
<1>13. Shaped(b2, r2, t2)
  BY <1>2, <1>11, <1>12 DEF Shaped
<1>14. TableSaved(own, b2, t2)
  BY <1>2, <1>11, <1>12 DEF TableSaved, Shaped
<1>15. RemovedSaved(own, b2, r2)
  BY <1>2, <1>12 DEF RemovedSaved, Shaped
<1>16. Covered(m2, t2)
  <2>1. SUFFICES ASSUME NEW x \in DOMAIN s.table, NEW a \in Under(x) PROVE m2[a] = x - a - 1
    BY <1>10, <1>11 DEF Covered
  <2>2. a \in Addrs /\ a \notin Under(ea)
    BY <1>4, <1>5, Places
  <2> QED BY <2>2, <1>2, <1>9 DEF Covered
<1>17. Bare(own, m2, t2)
  <2>1. SUFFICES ASSUME NEW a \in Addrs, \A x \in DOMAIN t2 : a \notin Under(x) PROVE m2[a] = own[a]
    BY DEF Bare
  <2>2. a \notin Under(ea) /\ \A x \in DOMAIN s.table : a \notin Under(x)
    BY <2>1, <1>11
  <2> QED BY <2>2, <1>2, <1>9 DEF Bare
<1>18. TablesAgree(own, m2, b2, r2, t2)
  BY <1>9, <1>13, <1>14, <1>15, <1>16, <1>17 DEF TablesAgree
<1> QED BY <1>1, <1>11, <1>12, <1>18 DEF Agrees

\* A deleted breakpoint leaves the program in memory and its bytes in bpts.
LEMMA DelKeeps ==
  ASSUME machine \in Machines, OwnBytes(own), NEW s, Agrees(s), NEW ea \in DOMAIN s.table
  PROVE  /\ Agrees(DelBpt(s, ea))
         /\ DOMAIN DelBpt(s, ea).table = DOMAIN s.table \ {ea}
         /\ DOMAIN DelBpt(s, ea).bpts = DOMAIN s.bpts
<1> DEFINE m2 == WriteMemory(s.mem, ea, s.table[ea])
           t2 == Without(s.table, {ea})
           r2 == s.removed \cup {ea}
<1>1. DelBpt(s, ea) = [mem |-> m2, bpts |-> s.bpts, removed |-> r2, table |-> t2]
  <2> DEFINE m == s.mem
             b == s.bpts
             r == s.removed
             tb == s.table
  <2>1. s = [mem |-> m, bpts |-> b, removed |-> r, table |-> tb]
    BY DEF Agrees
  <2> HIDE DEF m, b, r, tb
  <2> DEFINE m3 == WriteMemory(m, ea, tb[ea])
             t3 == Without(tb, {ea})
             r3 == r \cup {ea}
  <2>2. s.mem = m /\ s.bpts = b /\ s.removed = r /\ s.table = tb
    BY DEF m, b, r, tb
  <2>3. Deleted(s, ea, tb[ea]) = [s EXCEPT !.mem = m3, !.removed = r3]
    BY <2>2 DEF Deleted
  <2> HIDE DEF m3, r3
  <2>4. Deleted(s, ea, tb[ea]) = [mem |-> m3, bpts |-> b, removed |-> r3, table |-> tb]
    BY <2>1, <2>3
  <2>5. DelBpt(s, ea) = [Deleted(s, ea, tb[ea]) EXCEPT !.table = Without(@, {ea})]
    BY <2>2 DEF DelBpt
  <2>6. DelBpt(s, ea) = [Deleted(s, ea, tb[ea]) EXCEPT !.table = t3]
    BY <2>4, <2>5
  <2> HIDE DEF t3
  <2>7. DelBpt(s, ea) = [mem |-> m3, bpts |-> b, removed |-> r3, table |-> t3]
    BY <2>4, <2>6
  <2>8. m3 = m2 /\ r3 = r2 /\ t3 = t2 /\ b = s.bpts
    BY DEF m3, r3, t3, m, b, r, tb
  <2> QED BY <2>7, <2>8
<1>2. /\ Shaped(s.bpts, s.removed, s.table) /\ TableSaved(own, s.bpts, s.table)
      /\ RemovedSaved(own, s.bpts, s.removed) /\ s.mem \in [Addrs -> Int]
      /\ Covered(s.mem, s.table) /\ Bare(own, s.mem, s.table)
  BY DEF Agrees, TablesAgree
<1>3. own \in [Addrs -> Int]
  BY DEF OwnBytes
<1>4. DOMAIN s.table \subseteq Insns /\ ea \in Insns
  BY <1>2 DEF Shaped
<1>5. /\ s.table[ea] = CodeOf(own, ea) /\ s.bpts[ea] = CodeOf(own, ea)
      /\ CodeOf(own, ea) \in [1 .. TrapLen(ea) -> Int] /\ SavedOf(own, CodeOf(own, ea), ea)
      /\ \A c \in Under(ea) : CodeOf(own, ea)[c - ea + 1] = own[c]
  BY <1>2, <1>3, <1>4, CodeIs DEF TableSaved
<1>6. /\ m2 \in [Addrs -> Int]
      /\ \A c \in Under(ea) : m2[c] = own[c]
      /\ \A c \in Addrs : c \notin Under(ea) => m2[c] = s.mem[c]
  <2> DEFINE x == s.table[ea]
             m == s.mem
  <2>1. x \in [1 .. TrapLen(ea) -> Int] /\ m \in [Addrs -> Int] /\ \A c \in Under(ea) : x[c - ea + 1] = own[c]
    BY <1>2, <1>5
  <2>2. m2 = WriteMemory(m, ea, x)
    OBVIOUS
  <2> HIDE DEF x, m, m2
  <2> QED BY <2>1, <2>2, <1>4, Written DEF m
<1>7. /\ DOMAIN t2 = DOMAIN s.table \ {ea}
      /\ \A x \in DOMAIN t2 : t2[x] = s.table[x]
  <2> DEFINE f == s.table
  <2>1. t2 = Without(f, {ea})
    OBVIOUS
  <2> HIDE DEF f, t2
  <2>2. DOMAIN t2 = DOMAIN f \ {ea} /\ \A x \in DOMAIN f \ {ea} : t2[x] = f[x]
    BY <2>1, WithoutIs
  <2> QED BY <2>2 DEF f
<1> HIDE DEF m2, t2
<1>8. Shaped(s.bpts, r2, t2)
  BY <1>2, <1>7 DEF Shaped
<1>9. TableSaved(own, s.bpts, t2)
  BY <1>2, <1>7 DEF TableSaved
<1>10. RemovedSaved(own, s.bpts, r2)
  BY <1>2, <1>5 DEF RemovedSaved
<1>11. Covered(m2, t2)
  <2>1. SUFFICES ASSUME NEW x \in DOMAIN t2, NEW a \in Under(x) PROVE m2[a] = x - a - 1
    BY DEF Covered
  <2>2. x \in DOMAIN s.table /\ x # ea /\ x \in Insns
    BY <1>4, <1>7
  <2>3. a \in Addrs /\ a \notin Under(ea)
    BY <2>2, <1>4, Places
  <2> QED BY <2>2, <2>3, <1>2, <1>6 DEF Covered
<1>12. Bare(own, m2, t2)
  <2>1. SUFFICES ASSUME NEW a \in Addrs, \A x \in DOMAIN t2 : a \notin Under(x) PROVE m2[a] = own[a]
    BY DEF Bare
  <2>2. a \in Under(ea) \/ \A x \in DOMAIN s.table : a \notin Under(x)
    BY <2>1, <1>7
  <2> QED BY <2>2, <1>2, <1>6 DEF Bare
<1>13. TablesAgree(own, m2, s.bpts, r2, t2)
  BY <1>2, <1>6, <1>8, <1>9, <1>10, <1>11, <1>12 DEF TablesAgree
<1> QED BY <1>1, <1>7, <1>13 DEF Agrees

-----------------------------------------------------------------------------
(* Several additions and deletions at once                                   *)

LEMMA MaxOfTwo == Max({1}) = 1 /\ Max({2}) = 2 /\ Max({1, 2}) = 2
<1>1. ASSUME NEW S \in SUBSET {1, 2}, NEW m \in S, \A y \in S : y <= m PROVE Max(S) = m
  <2>1. S \subseteq Int
    OBVIOUS
  <2> QED BY <1>1, <2>1, MaxIs
<1> QED BY <1>1

\* Folding AddBpt over at most two elements, from the left.
LEMMA FoldAdd ==
  ASSUME NEW s, NEW q, NEW D, D = DOMAIN q, D \in {{}, {1}, {1, 2}}
  PROVE  /\ D = {} => FoldLeft(AddBpt, s, q) = s
         /\ D = {1} => FoldLeft(AddBpt, s, q) = AddBpt(s, q[1])
         /\ D = {1, 2} => FoldLeft(AddBpt, s, q) = AddBpt(AddBpt(s, q[1]), q[2])
<1> DEFINE B(it) == [z \in SUBSET (DOMAIN q) |->
                       IF z = {} THEN s ELSE LET x == Max(z) IN AddBpt(it[z \ {x}], q[x])]
           G(z) == IF z = {} THEN s ELSE IF z = {1} THEN AddBpt(s, q[1])
                   ELSE IF z = {2} THEN AddBpt(s, q[2]) ELSE AddBpt(AddBpt(s, q[1]), q[2])
           g == [z \in SUBSET (DOMAIN q) |-> G(z)]
           iter == CHOOSE it : it = B(it)
<1>1. FoldLeft(AddBpt, s, q) = iter[DOMAIN q]
  BY DEF FoldLeft, MapThenFoldSet
<1>2. Max({1}) = 1 /\ Max({2}) = 2 /\ Max({1, 2}) = 2
  BY MaxOfTwo
<1>3. \A z \in SUBSET (DOMAIN q) : z \in {{}, {1}, {2}, {1, 2}}
  OBVIOUS
<1>4. {1} \ {1} = {} /\ {2} \ {2} = {} /\ {1, 2} \ {2} = {1} /\ {1} # {} /\ {2} # {} /\ {1, 2} # {}
      /\ {1} # {2} /\ {1, 2} # {1} /\ {1, 2} # {2}
  <2>1. 1 \in {1, 2} /\ 2 \in {1, 2} /\ 1 \notin {2} /\ 2 \notin {1} /\ 1 \in {1} /\ 2 \in {2}
    OBVIOUS
  <2>2. {1} # {2} /\ {1, 2} # {1} /\ {1, 2} # {2}
    BY <2>1
  <2>3. {1} \ {1} = {} /\ {2} \ {2} = {} /\ {1, 2} \ {2} = {1}
    OBVIOUS
  <2> QED BY <2>1, <2>2, <2>3
<1>5. g = B(g)
  <2>1. SUFFICES ASSUME NEW z \in SUBSET (DOMAIN q) PROVE g[z] = B(g)[z]
    OBVIOUS
  <2>2. CASE z = {}
    BY <2>2
  <2>3. CASE z = {1}
    <3>1. {} \in SUBSET (DOMAIN q)
      OBVIOUS
    <3> QED BY <2>3, <3>1, <1>2, <1>4
  <2>4. CASE z = {2}
    <3>1. {} \in SUBSET (DOMAIN q)
      OBVIOUS
    <3> QED BY <2>4, <3>1, <1>2, <1>4
  <2>5. CASE z = {1, 2}
    <3>1. {1} \in SUBSET (DOMAIN q)
      BY <2>5
    <3> QED BY <2>5, <3>1, <1>2, <1>4
  <2> QED BY <1>3, <2>2, <2>3, <2>4, <2>5
<1> HIDE DEF g
<1>6. iter = B(iter)
  BY <1>5
<1> HIDE DEF iter
<1>7. \A z \in SUBSET (DOMAIN q) : iter[z] = B(iter)[z]
  BY <1>6
<1>8. D = {} => iter[D] = s
  BY <1>7
<1>9. D = {1} => iter[D] = AddBpt(s, q[1])
  <2> SUFFICES ASSUME D = {1} PROVE iter[D] = AddBpt(s, q[1])
    OBVIOUS
  <2>1. iter[{}] = s
    BY <1>7
  <2>2. iter[{1}] = AddBpt(iter[{1} \ {1}], q[1])
    BY <1>7, <1>2, <1>4
  <2> QED BY <2>1, <2>2, <1>4
<1>10. D = {1, 2} => iter[D] = AddBpt(AddBpt(s, q[1]), q[2])
  <2> SUFFICES ASSUME D = {1, 2} PROVE iter[D] = AddBpt(AddBpt(s, q[1]), q[2])
    OBVIOUS
  <2>1. iter[{}] = s
    BY <1>7
  <2>2. iter[{1}] = AddBpt(iter[{1} \ {1}], q[1])
    <3>1. {1} \in SUBSET (DOMAIN q)
      OBVIOUS
    <3> QED BY <3>1, <1>7, <1>2, <1>4
  <2>3. iter[{1, 2}] = AddBpt(iter[{1, 2} \ {2}], q[2])
    BY <1>7, <1>2, <1>4
  <2> QED BY <2>1, <2>2, <2>3, <1>4
<1> QED BY <1>1, <1>8, <1>9, <1>10

\* Folding DelBpt over at most two elements, from the left.
LEMMA FoldDel ==
  ASSUME NEW s, NEW q, NEW D, D = DOMAIN q, D \in {{}, {1}, {1, 2}}
  PROVE  /\ D = {} => FoldLeft(DelBpt, s, q) = s
         /\ D = {1} => FoldLeft(DelBpt, s, q) = DelBpt(s, q[1])
         /\ D = {1, 2} => FoldLeft(DelBpt, s, q) = DelBpt(DelBpt(s, q[1]), q[2])
<1> DEFINE B(it) == [z \in SUBSET (DOMAIN q) |->
                       IF z = {} THEN s ELSE LET x == Max(z) IN DelBpt(it[z \ {x}], q[x])]
           G(z) == IF z = {} THEN s ELSE IF z = {1} THEN DelBpt(s, q[1])
                   ELSE IF z = {2} THEN DelBpt(s, q[2]) ELSE DelBpt(DelBpt(s, q[1]), q[2])
           g == [z \in SUBSET (DOMAIN q) |-> G(z)]
           iter == CHOOSE it : it = B(it)
<1>1. FoldLeft(DelBpt, s, q) = iter[DOMAIN q]
  BY DEF FoldLeft, MapThenFoldSet
<1>2. Max({1}) = 1 /\ Max({2}) = 2 /\ Max({1, 2}) = 2
  BY MaxOfTwo
<1>3. \A z \in SUBSET (DOMAIN q) : z \in {{}, {1}, {2}, {1, 2}}
  OBVIOUS
<1>4. {1} \ {1} = {} /\ {2} \ {2} = {} /\ {1, 2} \ {2} = {1} /\ {1} # {} /\ {2} # {} /\ {1, 2} # {}
      /\ {1} # {2} /\ {1, 2} # {1} /\ {1, 2} # {2}
  <2>1. 1 \in {1, 2} /\ 2 \in {1, 2} /\ 1 \notin {2} /\ 2 \notin {1} /\ 1 \in {1} /\ 2 \in {2}
    OBVIOUS
  <2>2. {1} # {2} /\ {1, 2} # {1} /\ {1, 2} # {2}
    BY <2>1
  <2>3. {1} \ {1} = {} /\ {2} \ {2} = {} /\ {1, 2} \ {2} = {1}
    OBVIOUS
  <2> QED BY <2>1, <2>2, <2>3
<1>5. g = B(g)
  <2>1. SUFFICES ASSUME NEW z \in SUBSET (DOMAIN q) PROVE g[z] = B(g)[z]
    OBVIOUS
  <2>2. CASE z = {}
    BY <2>2
  <2>3. CASE z = {1}
    <3>1. {} \in SUBSET (DOMAIN q)
      OBVIOUS
    <3> QED BY <2>3, <3>1, <1>2, <1>4
  <2>4. CASE z = {2}
    <3>1. {} \in SUBSET (DOMAIN q)
      OBVIOUS
    <3> QED BY <2>4, <3>1, <1>2, <1>4
  <2>5. CASE z = {1, 2}
    <3>1. {1} \in SUBSET (DOMAIN q)
      BY <2>5
    <3> QED BY <2>5, <3>1, <1>2, <1>4
  <2> QED BY <1>3, <2>2, <2>3, <2>4, <2>5
<1> HIDE DEF g
<1>6. iter = B(iter)
  BY <1>5
<1> HIDE DEF iter
<1>7. \A z \in SUBSET (DOMAIN q) : iter[z] = B(iter)[z]
  BY <1>6
<1>8. D = {} => iter[D] = s
  BY <1>7
<1>9. D = {1} => iter[D] = DelBpt(s, q[1])
  <2> SUFFICES ASSUME D = {1} PROVE iter[D] = DelBpt(s, q[1])
    OBVIOUS
  <2>1. iter[{}] = s
    BY <1>7
  <2>2. iter[{1}] = DelBpt(iter[{1} \ {1}], q[1])
    BY <1>7, <1>2, <1>4
  <2> QED BY <2>1, <2>2, <1>4
<1>10. D = {1, 2} => iter[D] = DelBpt(DelBpt(s, q[1]), q[2])
  <2> SUFFICES ASSUME D = {1, 2} PROVE iter[D] = DelBpt(DelBpt(s, q[1]), q[2])
    OBVIOUS
  <2>1. iter[{}] = s
    BY <1>7
  <2>2. iter[{1}] = DelBpt(iter[{1} \ {1}], q[1])
    <3>1. {1} \in SUBSET (DOMAIN q)
      OBVIOUS
    <3> QED BY <3>1, <1>7, <1>2, <1>4
  <2>3. iter[{1, 2}] = DelBpt(iter[{1, 2} \ {2}], q[2])
    BY <1>7, <1>2, <1>4
  <2> QED BY <2>1, <2>2, <2>3, <1>4
<1> QED BY <1>1, <1>8, <1>9, <1>10

\* The sequences of a request have at most two elements.
LEMMA RequestIs ==
  ASSUME NEW q \in Requests
  PROVE  /\ DOMAIN q \in {{}, {1}, {1, 2}}
         /\ DOMAIN q = {} => Range(q) = {}
         /\ DOMAIN q = {1} => Range(q) = {q[1]}
         /\ DOMAIN q = {1, 2} => Range(q) = {q[1], q[2]} /\ (IsInjective(q) => q[1] # q[2])
<1>1. CASE q = << >>
  <2>1. DOMAIN q = {}
    BY <1>1
  <2>2. {} # {1} /\ {} # {1, 2}
    OBVIOUS
  <2> QED BY <2>1, <2>2 DEF Range
<1>2. CASE \E a \in Insns : q = <<a>>
  <2>1. DOMAIN q = {1}
    BY <1>2
  <2>2. {1} # {} /\ {1} # {1, 2}
    <3>1. 1 \in {1} /\ 2 \notin {1} /\ 2 \in {1, 2}
      OBVIOUS
    <3> QED BY <3>1
  <2> QED BY <2>1, <2>2 DEF Range
<1>3. CASE \E a, b \in Insns : q = <<a, b>>
  <2>1. DOMAIN q = {1, 2}
    BY <1>3
  <2>2. {1, 2} # {} /\ {1} # {1, 2}
    <3>1. 1 \in {1} /\ 2 \notin {1} /\ 2 \in {1, 2}
      OBVIOUS
    <3> QED BY <3>1
  <2>3. Range(q) = {q[1], q[2]}
    BY <2>1 DEF Range
  <2>4. IsInjective(q) => q[1] # q[2]
    BY <2>1 DEF IsInjective
  <2> QED BY <2>1, <2>2, <2>3, <2>4
<1> QED BY <1>1, <1>2, <1>3 DEF Requests

LEMMA AddsKeep ==
  ASSUME machine \in Machines, OwnBytes(own), NEW s, Agrees(s), NEW q \in Requests,
         IsInjective(q), Range(q) \subseteq Insns, Range(q) \cap DOMAIN s.table = {}
  PROVE  /\ Agrees(FoldLeft(AddBpt, s, q))
         /\ DOMAIN FoldLeft(AddBpt, s, q).table = DOMAIN s.table \cup Range(q)
         /\ DOMAIN FoldLeft(AddBpt, s, q).bpts = DOMAIN s.bpts \cup Range(q)
<1> DEFINE D == DOMAIN q
           R == FoldLeft(AddBpt, s, q)
<1>1. /\ D \in {{}, {1}, {1, 2}}
      /\ D = {} => Range(q) = {}
      /\ D = {1} => Range(q) = {q[1]}
      /\ D = {1, 2} => Range(q) = {q[1], q[2]} /\ q[1] # q[2]
  BY RequestIs
<1>2. /\ D = {} => R = s
      /\ D = {1} => R = AddBpt(s, q[1])
      /\ D = {1, 2} => R = AddBpt(AddBpt(s, q[1]), q[2])
  BY <1>1, FoldAdd
<1> HIDE DEF D, R
<1>3. CASE D = {}
  BY <1>1, <1>2, <1>3 DEF R
<1>4. CASE D = {1}
  <2>1. q[1] \in Insns /\ q[1] \notin DOMAIN s.table /\ R = AddBpt(s, q[1]) /\ Range(q) = {q[1]}
    BY <1>1, <1>2, <1>4
  <2> QED BY <2>1, AddKeeps DEF R
<1>5. CASE D = {1, 2}
  <2>1. /\ q[1] \in Insns /\ q[1] \notin DOMAIN s.table /\ q[2] \in Insns /\ q[2] \notin DOMAIN s.table
        /\ R = AddBpt(AddBpt(s, q[1]), q[2]) /\ Range(q) = {q[1], q[2]} /\ q[1] # q[2]
    BY <1>1, <1>2, <1>5
  <2> DEFINE u == AddBpt(s, q[1])
  <2>2. /\ Agrees(u) /\ DOMAIN u.table = DOMAIN s.table \cup {q[1]}
        /\ DOMAIN u.bpts = DOMAIN s.bpts \cup {q[1]}
    BY <2>1, AddKeeps
  <2>3. R = AddBpt(u, q[2])
    BY <2>1
  <2> HIDE DEF u
  <2>4. q[2] \notin DOMAIN u.table
    BY <2>1, <2>2
  <2>5. /\ Agrees(R) /\ DOMAIN R.table = DOMAIN u.table \cup {q[2]}
        /\ DOMAIN R.bpts = DOMAIN u.bpts \cup {q[2]}
    BY <2>1, <2>2, <2>3, <2>4, AddKeeps
  <2> QED BY <2>1, <2>2, <2>5 DEF R
<1> QED BY <1>1, <1>3, <1>4, <1>5

LEMMA DelsKeep ==
  ASSUME machine \in Machines, OwnBytes(own), NEW s, Agrees(s), NEW q \in Requests,
         IsInjective(q), Range(q) \subseteq DOMAIN s.table
  PROVE  /\ Agrees(FoldLeft(DelBpt, s, q))
         /\ DOMAIN FoldLeft(DelBpt, s, q).bpts = DOMAIN s.bpts
<1> DEFINE D == DOMAIN q
           R == FoldLeft(DelBpt, s, q)
<1>1. /\ D \in {{}, {1}, {1, 2}}
      /\ D = {} => Range(q) = {}
      /\ D = {1} => Range(q) = {q[1]}
      /\ D = {1, 2} => Range(q) = {q[1], q[2]} /\ q[1] # q[2]
  BY RequestIs
<1>2. /\ D = {} => R = s
      /\ D = {1} => R = DelBpt(s, q[1])
      /\ D = {1, 2} => R = DelBpt(DelBpt(s, q[1]), q[2])
  BY <1>1, FoldDel
<1> HIDE DEF D, R
<1>3. CASE D = {}
  BY <1>1, <1>2, <1>3 DEF R
<1>4. CASE D = {1}
  <2>1. q[1] \in DOMAIN s.table /\ R = DelBpt(s, q[1])
    BY <1>1, <1>2, <1>4
  <2> QED BY <2>1, DelKeeps DEF R
<1>5. CASE D = {1, 2}
  <2>1. /\ q[1] \in DOMAIN s.table /\ q[2] \in DOMAIN s.table
        /\ R = DelBpt(DelBpt(s, q[1]), q[2]) /\ q[1] # q[2]
    BY <1>1, <1>2, <1>5
  <2> DEFINE u == DelBpt(s, q[1])
  <2>2. /\ Agrees(u) /\ DOMAIN u.table = DOMAIN s.table \ {q[1]} /\ DOMAIN u.bpts = DOMAIN s.bpts
    BY <2>1, DelKeeps
  <2>3. R = DelBpt(u, q[2])
    BY <2>1
  <2> HIDE DEF u
  <2>4. q[2] \in DOMAIN u.table
    BY <2>1, <2>2
  <2>5. Agrees(R) /\ DOMAIN R.bpts = DOMAIN u.bpts
    BY <2>2, <2>3, <2>4, DelKeeps
  <2> QED BY <2>2, <2>5 DEF R
<1> QED BY <1>1, <1>3, <1>4, <1>5


-----------------------------------------------------------------------------
(* A step keeps the machine, and with it what is defined by it               *)

LEMMA SameMachine ==
  ASSUME machine' = machine
  PROVE  /\ Insns' = Insns /\ Size' = Size /\ Addrs' = Addrs
         /\ \A a : Succ(a)' = Succ(a) /\ TrapLen(a)' = TrapLen(a)
<1>1. Insns' = Insns
  BY DEF Insns
<1>2. {a + machine.insns[a] : a \in Insns}' = {a + machine.insns[a] : a \in Insns}
  BY <1>1
<1>3. Size' = Size
  BY <1>2 DEF Size
<1>4. Addrs' = Addrs
  BY <1>3 DEF Addrs
<1>5. \A a : Succ(a)' = Succ(a) /\ TrapLen(a)' = TrapLen(a)
  BY <1>1, <1>3 DEF Succ, TrapLen
<1> QED BY <1>1, <1>3, <1>4, <1>5

LEMMA TablesNext ==
  ASSUME machine' = machine, TablesAgree(own', mem', bpts', removed', table')
  PROVE  TablesAgree(own, mem, bpts, removed, table)'
BY SameMachine DEF TablesAgree, Shaped, TableSaved, RemovedSaved, SavedOf, Covered, Bare, CodeOf, Under

-----------------------------------------------------------------------------
(* The inductive invariant                                                   *)

Typed ==
    /\ machine \in Machines /\ conn \in {"up", "broken", "over"} /\ may_run \in BOOLEAN
    /\ ops \in 0 .. MaxOps /\ DOMAIN mem = Addrs /\ OwnBytes(own)
    /\ DOMAIN bpts \subseteq Insns /\ removed \subseteq Insns /\ DOMAIN table \subseteq Insns
    /\ over \in Insns \cup {None} /\ only \in machine.threads \cup {0}

\* Every thread stands on an instruction, or in the trap over one.
ThreadsWell ==
    /\ DOMAIN pc = machine.threads /\ DOMAIN halt = machine.threads
    /\ \A t \in machine.threads :
          /\ halt[t] \in {"run", "ready", "trap", "step"} /\ pc[t] \in Int
          /\ Logical(t) \in Insns

\* The client is told of nothing but what the debugger caused.
EventsWell ==
    /\ last.tid \in machine.threads /\ last.eid \in {"PROCESS_START", "BREAKPOINT", "STEP"}
    /\ last.eid = "BREAKPOINT" => last.ea \in Insns
    /\ event # NoEvent => event = last

\* A thread in a trap stands at an entry, or where another one is stepping over.
Trapped == \A t \in machine.threads : halt[t] = "trap" => Logical(t) \in DOMAIN bpts \cup {over}

Waits ==
    \A t \in machine.threads :
        /\ halt[t] = "step" => IF event = NoEvent THEN only = t ELSE event.tid = t
        /\ halt[t] = "ready" => event # NoEvent /\ event.tid = t

\* While one thread steps over a breakpoint, that breakpoint is forgotten.
Steps ==
    event = NoEvent =>
        /\ only = 0 => over = None
        /\ only # 0 => \E a \in Insns :
              /\ a = over /\ a \notin DOMAIN bpts
              /\ \/ halt[only] = "run" /\ pc[only] = a
                 \/ halt[only] = "step" /\ pc[only] = Succ(a)

\* The thread of the event stands at the breakpoint or in its trap.
Held ==
    event # NoEvent =>
        /\ event.eid = "BREAKPOINT" =>
              \/ pc[event.tid] = event.ea
              \/ halt[event.tid] = "trap" /\ pc[event.tid] = event.ea + machine.advance
        /\ halt[event.tid] = "trap" =>
              event.eid = "BREAKPOINT" /\ pc[event.tid] = event.ea + machine.advance

Debugged ==
    /\ TablesAgree(own, mem, bpts, removed, table)
    /\ Trapped /\ Waits /\ Steps /\ Held

Dropped ==
    /\ conn # "up" => machine.drops # "never"
    /\ conn = "broken" /\ machine.drops = "held" => event # NoEvent

\* fix_instruction_pointer moves the thread of the last event back and no other one:
\* that is enough where a trap leaves the instruction pointer alone, and for a program
\* of one thread whose client leaves while it holds an event.
FixSuffices(m) ==
    m.advance = 1 => m.drops = "never" \/ (m.drops = "held" /\ m.threads = {1})

CleanIfFixed == conn = "over" /\ FixSuffices(machine) => HandedBackClean

IInv ==
    /\ Typed /\ ThreadsWell /\ EventsWell
    /\ conn # "over" => Debugged
    /\ Dropped /\ CleanIfFixed

-----------------------------------------------------------------------------

\* Nothing happens to the tables.
LEMMA TablesStay ==
  ASSUME TablesAgree(own, mem, bpts, removed, table), UNCHANGED <<machine, memory>>
  PROVE  TablesAgree(own, mem, bpts, removed, table)'
BY TablesNext DEF memory

\* A program just started.
LEMMA InitInv == Init => IInv
<1> SUFFICES ASSUME Init PROVE IInv
  OBVIOUS
<1>1. machine \in Machines
  BY DEF Init
<1>2. /\ Insns \subseteq Nat /\ 0 \in Insns /\ Size \in Nat /\ Size > 0
      /\ machine.advance \in {0, 1} /\ 1 \in machine.threads /\ 0 \notin machine.threads
  BY <1>1, Geometry
<1>3. Addrs \subseteq Int
  BY <1>2 DEF Addrs
<1>4. mem = [a \in Addrs |-> a] /\ own = mem /\ bpts = << >> /\ removed = {} /\ table = << >>
  BY DEF Init
<1>5. OwnBytes(own)
  BY <1>3, <1>4 DEF OwnBytes
<1>6. DOMAIN bpts = {} /\ DOMAIN table = {}
  BY <1>4
<1>7. Typed
  <2>1. DOMAIN mem = Addrs
    BY <1>4
  <2>2. removed = {} /\ conn = "up" /\ may_run = FALSE /\ ops = 0 /\ over = None /\ only = 0
    BY DEF Init
  <2>3. ops \in 0 .. MaxOps
    BY <2>2, OpsAssumption
  <2> QED BY <1>1, <1>5, <1>6, <2>1, <2>2, <2>3 DEF Typed
<1>8. /\ DOMAIN pc = machine.threads /\ DOMAIN halt = machine.threads
      /\ \A t \in machine.threads : pc[t] = 0 /\ halt[t] = "run"
  BY DEF Init
<1>9. ThreadsWell
  BY <1>2, <1>8 DEF ThreadsWell, Logical
<1>10. event = [eid |-> "PROCESS_START", tid |-> 1, ea |-> None] /\ last = event
  BY DEF Init
<1>11. event # NoEvent
  BY <1>10 DEF NoEvent
<1>12. EventsWell
  BY <1>2, <1>10 DEF EventsWell
<1>13. TablesAgree(own, mem, bpts, removed, table)
  BY <1>3, <1>4, <1>6 DEF TablesAgree, Shaped, TableSaved, RemovedSaved, Covered, Bare
<1>14. Trapped /\ Waits /\ Steps
  BY <1>8, <1>11 DEF Trapped, Waits, Steps
<1>15. Held
  BY <1>2, <1>8, <1>10 DEF Held
<1>16. Dropped /\ CleanIfFixed
  BY DEF Init, Dropped, CleanIfFixed
<1> QED BY <1>7, <1>9, <1>12, <1>13, <1>14, <1>15, <1>16 DEF IInv, Debugged

\* The client adds and deletes breakpoints.
LEMMA UpdateBptsInv ==
  ASSUME IInv, NEW adds \in Requests, NEW dels \in Requests, UpdateBpts(adds, dels)
  PROVE  IInv'
<1> DEFINE s1 == FoldLeft(AddBpt, Tables, adds)
           s2 == FoldLeft(DelBpt, s1, dels)
<1>1. /\ conn = "up" /\ event # NoEvent /\ ops < MaxOps
      /\ Range(adds) \cap DOMAIN table = {} /\ Range(adds) \subseteq Insns
      /\ Range(dels) \subseteq DOMAIN table /\ IsInjective(adds) /\ IsInjective(dels)
      /\ SetTables(s2) /\ over' = IF over \in Range(adds) THEN None ELSE over
      /\ ops' = ops + 1
      /\ UNCHANGED <<machine, own, pc, halt, event, last, may_run, only, conn>>
  BY DEF UpdateBpts, Holding
<1>2. Typed /\ ThreadsWell /\ EventsWell /\ Debugged /\ Dropped /\ CleanIfFixed
  BY <1>1 DEF IInv
<1>3. machine \in Machines /\ OwnBytes(own)
  BY <1>2 DEF Typed
<1>4. Agrees(Tables) /\ Tables.table = table /\ Tables.bpts = bpts
  BY <1>2 DEF Agrees, Tables, Debugged
<1>5. /\ Agrees(s1) /\ DOMAIN s1.table = DOMAIN table \cup Range(adds)
      /\ DOMAIN s1.bpts = DOMAIN bpts \cup Range(adds)
  BY <1>1, <1>3, <1>4, AddsKeep
<1> HIDE DEF s1
<1>6. Agrees(s2) /\ DOMAIN s2.bpts = DOMAIN s1.bpts
  BY <1>1, <1>3, <1>5, DelsKeep
<1> HIDE DEF s2
<1>7. TablesAgree(own', mem', bpts', removed', table')
  BY <1>1, <1>6 DEF Agrees, SetTables
<1>8. TablesAgree(own, mem, bpts, removed, table)'
  BY <1>1, <1>7, TablesNext
<1>9. DOMAIN bpts' = DOMAIN bpts \cup Range(adds)
  BY <1>1, <1>5, <1>6 DEF SetTables
<1>10. /\ Insns' = Insns /\ Size' = Size /\ Addrs' = Addrs
  BY <1>1, SameMachine
<1>11. Typed'
  <2>1. DOMAIN mem' = Addrs /\ DOMAIN bpts' \subseteq Insns /\ removed' \subseteq Insns
        /\ DOMAIN table' \subseteq Insns
    BY <1>7 DEF TablesAgree, Shaped
  <2>2. OwnBytes(own)'
    BY <1>1, <1>3, <1>10 DEF OwnBytes
  <2>3. ops' \in 0 .. MaxOps
    BY <1>1, <1>2, OpsAssumption DEF Typed
  <2>4. over' \in Insns \cup {None}
    BY <1>1, <1>2 DEF Typed
  <2> QED BY <2>1, <2>2, <2>3, <2>4, <1>1, <1>2, <1>10 DEF Typed, None
<1>12. ThreadsWell'
  BY <1>1, <1>2, <1>10 DEF ThreadsWell, Logical
<1>13. EventsWell'
  BY <1>1, <1>2, <1>10 DEF EventsWell, NoEvent
<1>14. Trapped'
  BY <1>1, <1>2, <1>9 DEF Debugged, Trapped, Logical
<1>15. Waits' /\ Steps' /\ Held'
  BY <1>1, <1>2 DEF Debugged, Waits, Steps, Held, NoEvent
<1>16. Dropped' /\ CleanIfFixed'
  BY <1>1, <1>2 DEF Dropped, CleanIfFixed, NoEvent
<1> QED BY <1>8, <1>11, <1>12, <1>13, <1>14, <1>15, <1>16 DEF IInv, Debugged

\* The client patches an instruction that has no breakpoint of its own.
LEMMA PatchInv ==
  ASSUME IInv, NEW p \in Addrs, Patch(p)
  PROVE  IInv'
<1>1. /\ conn = "up" /\ event # NoEvent /\ ops < MaxOps /\ own[p] = p
      /\ \A ea \in DOMAIN table : p \notin ea .. ea + Len(table[ea]) - 1
      /\ mem' = WriteMemory(mem, p, <<p + Size>>) /\ own' = [own EXCEPT ![p] = p + Size]
      /\ ops' = ops + 1
      /\ UNCHANGED <<machine, bpts, removed, table, pc, halt, event, last, may_run,
                     only, over, conn>>
  BY DEF Patch, Holding
<1>2. Typed /\ ThreadsWell /\ EventsWell /\ Debugged /\ Dropped /\ CleanIfFixed
  BY <1>1 DEF IInv
<1>3. machine \in Machines /\ own \in [Addrs -> Int] /\ \A a \in Addrs : own[a] \in {a, a + Size}
  BY <1>2 DEF Typed, OwnBytes
<1>4. /\ Shaped(bpts, removed, table) /\ TableSaved(own, bpts, table)
      /\ RemovedSaved(own, bpts, removed) /\ mem \in [Addrs -> Int]
      /\ Covered(mem, table) /\ Bare(own, mem, table)
  BY <1>2 DEF Debugged, TablesAgree
<1>5. /\ Insns' = Insns /\ Size' = Size /\ Addrs' = Addrs /\ Size \in Nat /\ Size > 0 /\ Addrs \subseteq Nat
  BY <1>1, <1>3, SameMachine, Geometry DEF Addrs
<1>6. /\ own' \in [Addrs -> Int] /\ own'[p] = p + Size
      /\ \A a \in Addrs : a # p => own'[a] = own[a]
  BY <1>1, <1>3, <1>5
<1>7. /\ mem' \in [Addrs -> Int] /\ mem'[p] = p + Size
      /\ \A a \in Addrs : a # p => mem'[a] = mem[a]
  <2>1. \A a \in Addrs : a - p + 1 \in DOMAIN <<p + Size>> <=> a = p
    BY <1>5
  <2>2. p - p + 1 = 1 /\ <<p + Size>>[1] = p + Size /\ p + Size \in Int
    BY <1>5
  <2>3. DOMAIN mem = Addrs
    BY <1>4
  <2>4. mem' = [a \in Addrs |-> IF a = p THEN p + Size ELSE mem[a]]
    BY <1>1, <2>1, <2>2, <2>3 DEF WriteMemory
  <2> QED BY <2>2, <2>4, <1>4
<1>8. \A ea \in DOMAIN table : ea \in Insns /\ p \notin Under(ea)
  <2>1. SUFFICES ASSUME NEW ea \in DOMAIN table PROVE ea \in Insns /\ p \notin Under(ea)
    OBVIOUS
  <2>2. ea \in Insns /\ table[ea] = CodeOf(own, ea)
    BY <1>4 DEF Shaped, TableSaved
  <2>3. Len(table[ea]) = TrapLen(ea)
    BY <2>2, <1>3, Geometry DEF CodeOf
  <2> QED BY <1>1, <2>2, <2>3 DEF Under
<1>9. \A ea \in DOMAIN table : CodeOf(own', ea) = CodeOf(own, ea)
  <2>1. SUFFICES ASSUME NEW ea \in DOMAIN table PROVE CodeOf(own', ea) = CodeOf(own, ea)
    OBVIOUS
  <2>2. \A i \in 1 .. TrapLen(ea) : ea + i - 1 \in Addrs /\ ea + i - 1 # p
    BY <1>3, <1>8, Places
  <2>3. \A i \in 1 .. TrapLen(ea) : own'[ea + i - 1] = own[ea + i - 1]
    BY <1>6, <2>2
  <2> QED BY <2>3 DEF CodeOf
<1>10. RemovedSaved(own', bpts, removed)
  <2>1. SUFFICES ASSUME NEW ea \in removed PROVE SavedOf(own', bpts[ea], ea)
    BY DEF RemovedSaved
  <2>2. SavedOf(own, bpts[ea], ea) /\ ea \in Insns
    BY <1>4 DEF RemovedSaved, Shaped
  <2>3. \A i \in 1 .. TrapLen(ea) : ea + i - 1 \in Addrs
    BY <1>3, <2>2, Places
  <2>4. \A i \in 1 .. TrapLen(ea) : bpts[ea][i] \in {own'[ea + i - 1], ea + i - 1}
    BY <1>1, <1>6, <2>2, <2>3 DEF SavedOf
  <2> QED BY <2>2, <2>4 DEF SavedOf
<1>11. Covered(mem', table)
  <2>1. SUFFICES ASSUME NEW ea \in DOMAIN table, NEW a \in Under(ea) PROVE mem'[a] = ea - a - 1
    BY DEF Covered
  <2>2. a \in Addrs /\ a # p
    BY <1>3, <1>8, Places
  <2> QED BY <2>2, <1>4, <1>7 DEF Covered
<1>12. Bare(own', mem', table)
  BY <1>4, <1>6, <1>7 DEF Bare
<1>13. TablesAgree(own', mem', bpts', removed', table')
  BY <1>1, <1>4, <1>7, <1>9, <1>10, <1>11, <1>12 DEF TablesAgree, TableSaved
<1>14. TablesAgree(own, mem, bpts, removed, table)'
  BY <1>1, <1>13, TablesNext
<1>15. Typed'
  <2>1. DOMAIN mem' = Addrs
    BY <1>7
  <2>2. OwnBytes(own)'
    BY <1>3, <1>5, <1>6 DEF OwnBytes
  <2>3. ops' \in 0 .. MaxOps
    BY <1>1, <1>2, OpsAssumption DEF Typed
  <2> QED BY <2>1, <2>2, <2>3, <1>1, <1>2, <1>5 DEF Typed
<1>16. ThreadsWell' /\ EventsWell'
  BY <1>1, <1>2, <1>5 DEF ThreadsWell, Logical, EventsWell, NoEvent
<1>17. Trapped' /\ Waits' /\ Held'
  BY <1>1, <1>2 DEF Debugged, Trapped, Logical, Waits, Held, NoEvent
<1>18. Steps' /\ Dropped' /\ CleanIfFixed'
  BY <1>1, <1>2 DEF Debugged, Steps, Dropped, CleanIfFixed, NoEvent
<1> QED BY <1>14, <1>15, <1>16, <1>17, <1>18 DEF IInv, Debugged

\* What every step needs of the invariant and of the machine it leaves alone.
LEMMA Stay ==
  ASSUME IInv, UNCHANGED <<machine, own>>
  PROVE  /\ machine \in Machines /\ Insns \subseteq Nat /\ Insns \subseteq Int
      /\ machine.advance \in {0, 1} /\ machine.advance \in Int /\ 0 \notin machine.threads
         /\ Insns' = Insns /\ Size' = Size /\ Addrs' = Addrs /\ OwnBytes(own)'
         /\ \A a : Succ(a)' = Succ(a)
<1>1. machine \in Machines /\ OwnBytes(own)
  BY DEF IInv, Typed
<1>2. Insns' = Insns /\ Size' = Size /\ Addrs' = Addrs /\ \A a : Succ(a)' = Succ(a)
  BY SameMachine
<1> QED BY <1>1, <1>2, Geometry DEF OwnBytes

\* The client puts the instruction pointer back to the breakpoint.
LEMMA WriteIpInv == ASSUME IInv, WriteIp PROVE IInv'
<1>1. /\ conn = "up" /\ event # NoEvent /\ event.eid = "BREAKPOINT" /\ pc[event.tid] # event.ea
      /\ pc' = [pc EXCEPT ![event.tid] = event.ea]
      /\ halt' = [halt EXCEPT ![event.tid] = "ready"]
      /\ UNCHANGED <<machine, memory, event, last, may_run, only, over, conn, ops>>
  BY DEF WriteIp, Holding, Clean
<1>2. Typed /\ ThreadsWell /\ EventsWell /\ Debugged /\ Dropped
  BY <1>1 DEF IInv
<1>3. UNCHANGED <<machine, own>>
  BY <1>1 DEF memory
<1>4. /\ machine \in Machines /\ Insns \subseteq Nat /\ Insns \subseteq Int
      /\ machine.advance \in {0, 1} /\ machine.advance \in Int /\ 0 \notin machine.threads
      /\ Insns' = Insns /\ Size' = Size /\ Addrs' = Addrs /\ OwnBytes(own)'
  BY <1>3, Stay
<1>5. TablesAgree(own, mem, bpts, removed, table)'
  BY <1>1, <1>2, TablesStay DEF Debugged
<1>6. event.tid \in machine.threads /\ event.ea \in Insns /\ event = last
  BY <1>1, <1>2 DEF EventsWell
<1>7. Typed'
  BY <1>1, <1>2, <1>4 DEF Typed, memory
<1>8. \A t \in machine.threads :
         /\ t = event.tid => pc'[t] = event.ea /\ halt'[t] = "ready"
         /\ t # event.tid => pc'[t] = pc[t] /\ halt'[t] = halt[t]
  BY <1>1, <1>2 DEF ThreadsWell
<1>9. ThreadsWell'
  <2>1. DOMAIN pc' = machine.threads /\ DOMAIN halt' = machine.threads
    BY <1>1, <1>2 DEF ThreadsWell
  <2>2. ASSUME NEW t \in machine.threads
        PROVE  halt'[t] \in {"run", "ready", "trap", "step"} /\ pc'[t] \in Int /\ Logical(t)' \in Insns
    <3>1. CASE t = event.tid
      <4>3. event.ea \in Insns /\ event.ea \in Int
        BY <1>4, <1>6
      <4>1. pc'[t] = event.ea /\ halt'[t] = "ready" /\ event.ea \in Insns /\ event.ea \in Int
        BY ONLY <3>1, <4>3, <1>8
      <4>2. Logical(t)' = pc'[t]
        BY <4>1 DEF Logical
      <4> QED BY <4>1, <4>2, <1>4
    <3>2. CASE t # event.tid
      BY <3>2, <1>1, <1>2, <1>8 DEF ThreadsWell, Logical
    <3> QED BY <3>1, <3>2
  <2> QED BY <2>1, <2>2, <1>1, <1>4 DEF ThreadsWell
<1>10. EventsWell'
  BY <1>1, <1>2, <1>4 DEF EventsWell, NoEvent
<1>11. Trapped' /\ Waits'
  BY <1>1, <1>2, <1>3, <1>8 DEF Debugged, Trapped, Logical, Waits, NoEvent, memory
<1>12. Steps' /\ Held' /\ Dropped' /\ CleanIfFixed'
  BY <1>1, <1>2, <1>6, <1>8 DEF Debugged, Steps, Held, NoEvent, Dropped, CleanIfFixed
<1> QED BY <1>5, <1>7, <1>9, <1>10, <1>11, <1>12 DEF IInv, Debugged

\* Removed entries may be forgotten.
LEMMA ForgetRemoved ==
  ASSUME TablesAgree(own, mem, bpts, removed, table)
  PROVE  /\ TablesAgree(own, mem, Without(bpts, removed), {}, table)
         /\ DOMAIN Without(bpts, removed) = DOMAIN bpts \ removed
<1> DEFINE b2 == Without(bpts, removed)
<1>1. /\ Shaped(bpts, removed, table) /\ TableSaved(own, bpts, table)
      /\ mem \in [Addrs -> Int] /\ Covered(mem, table) /\ Bare(own, mem, table)
  BY DEF TablesAgree
<1>2. DOMAIN b2 = DOMAIN bpts \ removed /\ \A x \in DOMAIN bpts \ removed : b2[x] = bpts[x]
  BY WithoutIs
<1> HIDE DEF b2
<1>3. Shaped(b2, {}, table) /\ TableSaved(own, b2, table) /\ RemovedSaved(own, b2, {})
  BY <1>1, <1>2 DEF Shaped, TableSaved, RemovedSaved
<1>4. TablesAgree(own, mem, b2, {}, table)
  BY <1>1, <1>3 DEF TablesAgree
<1> QED BY <1>2, <1>4 DEF b2

\* The thread of the event runs on.
LEMMA Resumed ==
  ASSUME Typed, ThreadsWell, EventsWell, Held, Clean, machine.advance \in {0, 1},
         event # NoEvent, UNCHANGED <<machine, pc>>,
         halt' = [halt EXCEPT ![event.tid] = "run"]
  PROVE  /\ event.tid \in machine.threads
         /\ \A t \in machine.threads :
               /\ halt'[t] = IF t = event.tid THEN "run" ELSE halt[t]
               /\ Logical(t)' = Logical(t)
         /\ halt'[event.tid] = "run" /\ Logical(event.tid) = pc[event.tid]
<1>1. event.tid \in machine.threads /\ event = last
  BY DEF EventsWell
<1>2. \A t \in machine.threads : halt'[t] = IF t = event.tid THEN "run" ELSE halt[t]
  BY DEF ThreadsWell
<1>3. Logical(event.tid) = pc[event.tid]
  <2>1. CASE halt[event.tid] = "trap"
    <3>1. event.eid = "BREAKPOINT" /\ pc[event.tid] = event.ea + machine.advance
      BY <2>1 DEF Held
    <3>2. pc[event.tid] = event.ea /\ event.ea \in Int
      BY <3>1, <1>1, Geometry DEF Clean, EventsWell, Typed
    <3> QED BY <3>1, <3>2, <2>1 DEF Logical
  <2> QED BY <2>1 DEF Logical
<1>4. ASSUME NEW t \in machine.threads PROVE Logical(t)' = Logical(t)
  <2>1. CASE t = event.tid
    BY <2>1, <1>2, <1>3 DEF Logical
  <2>2. CASE t # event.tid
    BY <2>2, <1>2 DEF Logical
  <2> QED BY <2>1, <2>2
<1> QED BY <1>1, <1>2, <1>3, <1>4

\* The client lets the program go on.
LEMMA ContinueInv == ASSUME IInv, Continue PROVE IInv'
<1>1. /\ conn = "up" /\ event # NoEvent /\ Clean /\ over = None /\ ResumeApp(0)
      /\ event' = NoEvent /\ only' = 0
      /\ UNCHANGED <<machine, mem, own, table, pc, last, over, conn, ops>>
  BY DEF Continue, Holding
<1>2. Typed /\ ThreadsWell /\ EventsWell /\ Debugged /\ Dropped
  BY <1>1 DEF IInv
<1>3. /\ machine \in Machines /\ Insns \subseteq Nat /\ Insns \subseteq Int
      /\ machine.advance \in {0, 1} /\ machine.advance \in Int /\ 0 \notin machine.threads
      /\ Insns' = Insns /\ Size' = Size /\ Addrs' = Addrs /\ OwnBytes(own)'
  BY <1>1, Stay
<1>4. /\ may_run' = ~\E t \in machine.threads \ {event.tid} : halt[t] \in Stopped
      /\ bpts' = IF may_run' THEN Without(bpts, removed) ELSE bpts
      /\ removed' = IF may_run' THEN {} ELSE removed
      /\ halt' = [halt EXCEPT ![event.tid] = "run"]
  BY <1>1 DEF ResumeApp, Retrievable
<1>5. TablesAgree(own, mem, bpts, removed, table)
  BY <1>2 DEF Debugged
<1>6. /\ event.tid \in machine.threads
      /\ \A t \in machine.threads :
               /\ halt'[t] = IF t = event.tid THEN "run" ELSE halt[t]
               /\ Logical(t)' = Logical(t)
      /\ halt'[event.tid] = "run"
  BY <1>1, <1>2, <1>3, <1>4, Resumed DEF Debugged
<1>7. /\ TablesAgree(own', mem', bpts', removed', table')
      /\ DOMAIN bpts' \subseteq DOMAIN bpts
      /\ \A t \in machine.threads : halt'[t] = "trap" => bpts' = bpts
  <2>1. CASE may_run'
    <3>1. bpts' = Without(bpts, removed) /\ removed' = {}
      BY <2>1, <1>4
    <3>2. \A t \in machine.threads : halt'[t] # "trap"
      BY <2>1, <1>4, <1>6 DEF Stopped
    <3> QED BY <3>1, <3>2, <1>1, <1>5, ForgetRemoved
  <2>2. CASE ~may_run'
    BY <2>2, <1>1, <1>4, <1>5
  <2> QED BY <2>1, <2>2
<1>8. TablesAgree(own, mem, bpts, removed, table)'
  BY <1>1, <1>7, TablesNext
<1>9. Typed'
  <2>1. may_run' \in BOOLEAN
    BY <1>4
  <2>2. DOMAIN mem' = Addrs /\ DOMAIN bpts' \subseteq Insns /\ removed' \subseteq Insns /\ DOMAIN table' \subseteq Insns
    BY <1>7 DEF TablesAgree, Shaped
  <2> QED BY <2>1, <2>2, <1>1, <1>2, <1>3 DEF Typed
<1>10. ThreadsWell'
  <2>1. DOMAIN pc' = machine.threads /\ DOMAIN halt' = machine.threads
    BY <1>1, <1>2, <1>4 DEF ThreadsWell
  <2> QED BY <2>1, <1>1, <1>2, <1>3, <1>6 DEF ThreadsWell
<1>11. EventsWell'
  BY <1>1, <1>2, <1>3 DEF EventsWell, NoEvent
<1>12. Trapped'
  BY <1>1, <1>2, <1>6, <1>7 DEF Debugged, Trapped
<1>13. Waits'
  BY <1>1, <1>2, <1>6 DEF Debugged, Waits
<1>14. Steps' /\ Held' /\ Dropped' /\ CleanIfFixed'
  BY <1>1, <1>2 DEF Steps, Held, Dropped, CleanIfFixed
<1> QED BY <1>8, <1>9, <1>10, <1>11, <1>12, <1>13, <1>14 DEF IInv, Debugged

\* The client lets one thread step over the breakpoint it has just deleted.
LEMMA StepOverInv == ASSUME IInv, StepOver PROVE IInv'
<1>1. /\ conn = "up" /\ event # NoEvent /\ Clean /\ event.eid = "BREAKPOINT" /\ over = None
      /\ event.ea \notin DOMAIN table /\ removed = {event.ea} /\ ResumeApp(event.tid)
      /\ event' = NoEvent /\ only' = event.tid /\ over' = event.ea
      /\ UNCHANGED <<machine, mem, own, table, pc, last, conn, ops>>
  BY DEF StepOver, Holding
<1>2. Typed /\ ThreadsWell /\ EventsWell /\ Debugged /\ Dropped
  BY <1>1 DEF IInv
<1>3. /\ machine \in Machines /\ Insns \subseteq Nat /\ Insns \subseteq Int
      /\ machine.advance \in {0, 1} /\ machine.advance \in Int /\ 0 \notin machine.threads
      /\ Insns' = Insns /\ Size' = Size /\ Addrs' = Addrs /\ OwnBytes(own)'
      /\ \A a : Succ(a)' = Succ(a)
  BY <1>1, Stay
<1>4. halt' = [halt EXCEPT ![event.tid] = "run"]
  BY <1>1 DEF ResumeApp
<1>5. TablesAgree(own, mem, bpts, removed, table)
  BY <1>2 DEF Debugged
<1>6. /\ event.tid \in machine.threads
      /\ \A t \in machine.threads :
               /\ halt'[t] = IF t = event.tid THEN "run" ELSE halt[t]
               /\ Logical(t)' = Logical(t)
      /\ halt'[event.tid] = "run"
  BY <1>1, <1>2, <1>3, <1>4, Resumed DEF Debugged
<1>7. may_run' = TRUE
  <2>1. \A t \in machine.threads \ {event.tid} : ~Retrievable(t, event.tid)
    BY <1>3, <1>6 DEF Retrievable
  <2> QED BY <2>1, <1>1 DEF ResumeApp
<1>8. bpts' = Without(bpts, removed) /\ removed' = {}
  BY <1>1, <1>7 DEF ResumeApp
<1>9. /\ TablesAgree(own', mem', bpts', removed', table')
      /\ DOMAIN bpts' = DOMAIN bpts \ {event.ea}
  BY <1>1, <1>5, <1>8, ForgetRemoved
<1>10. TablesAgree(own, mem, bpts, removed, table)'
  BY <1>1, <1>9, TablesNext
<1>11. event.ea \in Insns /\ pc[event.tid] = event.ea
  BY <1>1, <1>2 DEF EventsWell, Clean
<1>12. Typed'
  <2>1. DOMAIN mem' = Addrs /\ DOMAIN bpts' \subseteq Insns /\ removed' \subseteq Insns /\ DOMAIN table' \subseteq Insns
    BY <1>9 DEF TablesAgree, Shaped
  <2> QED BY <2>1, <1>1, <1>2, <1>3, <1>6, <1>7, <1>11 DEF Typed
<1>13. ThreadsWell'
  <2>1. DOMAIN pc' = machine.threads /\ DOMAIN halt' = machine.threads
    BY <1>1, <1>2, <1>4 DEF ThreadsWell
  <2> QED BY <2>1, <1>1, <1>2, <1>3, <1>6 DEF ThreadsWell
<1>14. EventsWell'
  BY <1>1, <1>2, <1>3 DEF EventsWell, NoEvent
<1>15. Trapped'
  <2>1. SUFFICES ASSUME NEW t \in machine.threads, halt'[t] = "trap"
                 PROVE  Logical(t)' \in DOMAIN bpts' \cup {over'}
    BY <1>1 DEF Trapped
  <2>2. halt[t] = "trap" /\ Logical(t)' = Logical(t)
    BY <2>1, <1>6
  <2>3. Logical(t) \in DOMAIN bpts
    <3>1. Logical(t) \in DOMAIN bpts \cup {None}
      BY <2>2, <1>1, <1>2 DEF Debugged, Trapped
    <3>2. Logical(t) \in Insns
      BY <1>2 DEF ThreadsWell
    <3>3. None \notin Nat
      BY DEF None
    <3> QED BY <3>1, <3>2, <3>3, <1>3
  <2> QED BY <2>2, <2>3, <1>1, <1>9
<1>16. Waits'
  BY <1>1, <1>2, <1>6 DEF Debugged, Waits
<1>17. Steps'
  <2>1. only' # 0
    BY <1>1, <1>3, <1>6
  <2>2. event.ea \in Insns' /\ event.ea = over' /\ event.ea \notin DOMAIN bpts'
        /\ halt'[only'] = "run" /\ pc'[only'] = event.ea
    BY <1>1, <1>3, <1>6, <1>9, <1>11
  <2> QED BY <2>1, <2>2 DEF Steps
<1>18. Held' /\ Dropped' /\ CleanIfFixed'
  BY <1>1, <1>2 DEF Held, Dropped, CleanIfFixed
<1> QED BY <1>10, <1>12, <1>13, <1>14, <1>15, <1>16, <1>17, <1>18 DEF IInv, Debugged

\* Memory under an instruction: a trap code of a breakpoint that is there, or the program.
LEMMA MemoryAt ==
  ASSUME machine \in Machines, OwnBytes(own), TablesAgree(own, mem, bpts, removed, table),
         NEW a \in Insns
  PROVE  /\ mem[a] = -1 => a \in DOMAIN bpts
         /\ mem[a] # -1 => Intact(a)
<1>1. /\ Shaped(bpts, removed, table) /\ Covered(mem, table) /\ Bare(own, mem, table)
  BY DEF TablesAgree
<1>2. DOMAIN table \subseteq Insns /\ DOMAIN table \subseteq DOMAIN bpts
  BY <1>1 DEF Shaped
<1>3. \A c \in a .. a + machine.insns[a] - 1 :
         c \in Addrs /\ \A ea \in DOMAIN table : ea # a => c \notin Under(ea)
  BY <1>2, Places
<1>4. a \in a .. a + machine.insns[a] - 1 /\ a \in Nat /\ a \in Addrs
  BY Geometry, Places
<1>5. ASSUME mem[a] = -1 PROVE a \in DOMAIN bpts
  <2>1. SUFFICES ASSUME a \notin DOMAIN table PROVE FALSE
    BY <1>2
  <2>2. mem[a] = own[a]
    BY <2>1, <1>1, <1>3, <1>4 DEF Bare
  <2>3. own[a] \in {a, a + Size} /\ Size \in Nat
    BY <1>4, Geometry DEF OwnBytes
  <2> QED BY <1>4, <1>5, <2>2, <2>3
<1>6. ASSUME mem[a] # -1 PROVE Intact(a)
  <2>1. a \notin DOMAIN table
    <3>1. SUFFICES ASSUME a \in DOMAIN table PROVE FALSE
      OBVIOUS
    <3>2. a \in Under(a)
      BY Places
    <3>3. mem[a] = a - a - 1
      BY <3>1, <3>2, <1>1 DEF Covered
    <3> QED BY <3>3, <1>4, <1>6
  <2>2. \A c \in a .. a + machine.insns[a] - 1 : mem[c] = own[c]
    BY <2>1, <1>1, <1>3 DEF Bare
  <2> QED BY <2>2 DEF Intact
<1> QED BY <1>5, <1>6

\* What the next step of a thread that may run is.
LEMMA Runs ==
  ASSUME IInv, NEW t \in machine.threads, Execute(t)
  PROVE  /\ conn # "over" /\ event = NoEvent /\ halt[t] = "run" /\ only \in {0, t}
         /\ pc[t] \in Insns /\ Logical(t) = pc[t]
         /\ \/ /\ mem[pc[t]] = -1 /\ pc[t] \in DOMAIN bpts /\ only = 0
               /\ halt' = [halt EXCEPT ![t] = "trap"]
               /\ pc' = [pc EXCEPT ![t] = pc[t] + machine.advance]
            \/ /\ mem[pc[t]] # -1
               /\ halt' = [halt EXCEPT ![t] = IF only = t THEN "step" ELSE "run"]
               /\ pc' = [pc EXCEPT ![t] = Succ(pc[t])]
<1>1. conn # "over" /\ event = NoEvent /\ halt[t] = "run" /\ only \in {0, t}
  BY DEF Execute, Running
<1>2. Typed /\ ThreadsWell /\ Debugged
  BY <1>1 DEF IInv
<1>3. Logical(t) = pc[t] /\ pc[t] \in Insns
  BY <1>1, <1>2 DEF ThreadsWell, Logical
<1>4. (mem[pc[t]] = -1 => pc[t] \in DOMAIN bpts) /\ (mem[pc[t]] # -1 => Intact(pc[t]))
  BY <1>2, <1>3, MemoryAt DEF Typed, Debugged
<1>5. CASE mem[pc[t]] = -1
  <2>1. only = 0
    <3>1. SUFFICES ASSUME only = t, only # 0 PROVE FALSE
      BY <1>1
    <3>2. over \notin DOMAIN bpts /\ pc[t] = over
      BY <3>1, <1>1, <1>2 DEF Debugged, Steps
    <3> QED BY <3>2, <1>4, <1>5
  <2> QED BY <2>1, <1>1, <1>3, <1>4, <1>5 DEF Execute
<1>6. CASE mem[pc[t]] # -1
  <2>1. Intact(pc[t])
    BY <1>4, <1>6
  <2>2. pc' = [pc EXCEPT ![t] = IF pc[t] \in Insns /\ Intact(pc[t]) THEN Succ(pc[t]) ELSE Crash]
    BY <1>6 DEF Execute
  <2>3. pc' = [pc EXCEPT ![t] = Succ(pc[t])]
    BY <2>1, <2>2, <1>3
  <2>4. halt' = [halt EXCEPT ![t] = IF only = t THEN "step" ELSE "run"]
    BY <1>6 DEF Execute
  <2> QED BY <2>3, <2>4, <1>1, <1>3, <1>6
<1> QED BY <1>1, <1>3, <1>5, <1>6

\* A thread executes an instruction, or runs into a breakpoint.
LEMMA ExecuteInv == ASSUME IInv, NEW t \in machine.threads, Execute(t) PROVE IInv'
<1>1. /\ conn # "over" /\ event = NoEvent /\ halt[t] = "run" /\ only \in {0, t}
      /\ pc[t] \in Insns /\ Logical(t) = pc[t]
      /\ \/ /\ mem[pc[t]] = -1 /\ pc[t] \in DOMAIN bpts /\ only = 0
            /\ halt' = [halt EXCEPT ![t] = "trap"]
            /\ pc' = [pc EXCEPT ![t] = pc[t] + machine.advance]
         \/ /\ mem[pc[t]] # -1
            /\ halt' = [halt EXCEPT ![t] = IF only = t THEN "step" ELSE "run"]
            /\ pc' = [pc EXCEPT ![t] = Succ(pc[t])]
  BY Runs
<1>2. Typed /\ ThreadsWell /\ EventsWell /\ Debugged /\ Dropped
  BY <1>1 DEF IInv
<1>3. UNCHANGED <<machine, memory, event, last, may_run, only, over, conn, ops>>
  BY DEF Execute
<1>4. UNCHANGED <<machine, own, bpts>>
  BY <1>3 DEF memory
<1>5. /\ machine \in Machines /\ Insns \subseteq Nat /\ Insns \subseteq Int
      /\ machine.advance \in {0, 1} /\ machine.advance \in Int /\ 0 \notin machine.threads
      /\ Insns' = Insns /\ Size' = Size /\ Addrs' = Addrs /\ OwnBytes(own)'
      /\ \A a : Succ(a)' = Succ(a)
  BY <1>4, Stay
<1>6. TablesAgree(own, mem, bpts, removed, table)'
  BY <1>2, <1>3, TablesStay DEF Debugged
<1>7. Typed'
  BY <1>2, <1>3, <1>5 DEF Typed, memory
<1>8. Succ(pc[t]) \in Insns
  BY <1>1, <1>5, SuccIsInsn
<1>9. DOMAIN pc' = machine.threads /\ DOMAIN halt' = machine.threads
      /\ \A u \in machine.threads \ {t} : halt'[u] = halt[u] /\ pc'[u] = pc[u] /\ Logical(u)' = Logical(u)
  <2>1. DOMAIN pc' = machine.threads /\ DOMAIN halt' = machine.threads
        /\ \A u \in machine.threads \ {t} : halt'[u] = halt[u] /\ pc'[u] = pc[u]
    BY <1>1, <1>2 DEF ThreadsWell
  <2> QED BY <2>1, <1>4 DEF Logical
<1>10. \/ /\ halt'[t] = "trap" /\ only = 0 /\ pc'[t] \in Int
          /\ Logical(t)' = pc[t] /\ pc[t] \in DOMAIN bpts
       \/ /\ halt'[t] = IF only = t THEN "step" ELSE "run"
          /\ pc'[t] = Succ(pc[t]) /\ pc'[t] \in Int /\ Logical(t)' = Succ(pc[t])
  <2>1. CASE mem[pc[t]] = -1
    <3>1. halt'[t] = "trap" /\ pc'[t] = pc[t] + machine.advance /\ only = 0 /\ pc[t] \in DOMAIN bpts
      BY <2>1, <1>1, <1>2 DEF ThreadsWell
    <3>2. Logical(t)' = pc'[t] - machine.advance
      BY <3>1, <1>4 DEF Logical
    <3>3. pc[t] \in Int /\ machine.advance \in Int
      BY <1>1, <1>5
    <3>4. pc'[t] \in Int /\ pc'[t] - machine.advance = pc[t]
      BY <3>1, <3>3
    <3> QED BY <3>1, <3>2, <3>4
  <2>2. CASE mem[pc[t]] # -1
    <3>1. halt'[t] = (IF only = t THEN "step" ELSE "run") /\ pc'[t] = Succ(pc[t])
      BY <2>2, <1>1, <1>2 DEF ThreadsWell
    <3>2. Logical(t)' = Succ(pc[t])
      BY <3>1 DEF Logical
    <3>3. Succ(pc[t]) \in Int
      BY <1>5, <1>8
    <3> QED BY <3>1, <3>2, <3>3
  <2> QED BY <2>1, <2>2
<1>11. ThreadsWell'
  <2>1. ASSUME NEW u \in machine.threads
        PROVE  halt'[u] \in {"run", "ready", "trap", "step"} /\ pc'[u] \in Int /\ Logical(u)' \in Insns
    <3>1. CASE u = t
      BY <3>1, <1>1, <1>8, <1>10
    <3>2. CASE u # t
      BY <3>2, <1>2, <1>9 DEF ThreadsWell
    <3> QED BY <3>1, <3>2
  <2> QED BY <2>1, <1>4, <1>5, <1>9 DEF ThreadsWell
<1>12. EventsWell'
  BY <1>2, <1>3, <1>5 DEF EventsWell, NoEvent
<1>13. Trapped'
  <2>1. SUFFICES ASSUME NEW u \in machine.threads, halt'[u] = "trap"
                 PROVE  Logical(u)' \in DOMAIN bpts \cup {over}
    BY <1>3, <1>4 DEF Trapped
  <2>2. CASE u = t
    <3>1. halt'[t] = "trap" => Logical(t)' \in DOMAIN bpts
      BY <1>10
    <3> QED BY <2>1, <2>2, <3>1
  <2>3. CASE u # t
    BY <2>1, <2>3, <1>2, <1>9 DEF Debugged, Trapped
  <2> QED BY <2>2, <2>3
<1>14. Waits'
  <2>1. SUFFICES ASSUME NEW u \in machine.threads
                 PROVE  (halt'[u] = "step" => only = u) /\ halt'[u] # "ready"
    BY <1>1, <1>3, <1>4 DEF Waits
  <2>2. CASE u = t
    BY <2>2, <1>10
  <2>3. CASE u # t
    BY <2>3, <1>1, <1>2, <1>9 DEF Debugged, Waits
  <2> QED BY <2>2, <2>3
<1>15. Steps'
  <2>1. only = 0 => over = None
    BY <1>1, <1>2 DEF Debugged, Steps
  <2>2. ASSUME only # 0
        PROVE \E a \in Insns : /\ a = over /\ a \notin DOMAIN bpts
                               /\ halt'[only] = "step" /\ pc'[only] = Succ(a)
    <3>1. only = t
      BY <2>2, <1>1
    <3>2. over \in Insns /\ over \notin DOMAIN bpts /\ pc[t] = over
      BY <2>2, <3>1, <1>1, <1>2 DEF Debugged, Steps
    <3>3. halt'[t] = "step" /\ pc'[t] = Succ(over)
      BY <2>2, <3>1, <3>2, <1>10
    <3> QED BY <3>1, <3>2, <3>3
  <2> QED BY <2>1, <2>2, <1>3, <1>4, <1>5 DEF Steps
<1>16. Held' /\ Dropped' /\ CleanIfFixed'
  BY <1>1, <1>2, <1>3 DEF Held, Dropped, CleanIfFixed, NoEvent
<1> QED BY <1>6, <1>7, <1>11, <1>12, <1>13, <1>14, <1>15, <1>16 DEF IInv, Debugged

\* The event a stored status becomes: never an exception.
LEMMA EventIs ==
  ASSUME IInv, NEW t \in machine.threads, conn # "over", event = NoEvent, Retrievable(t, only)
  PROVE  /\ EventOf(t).tid = t /\ EventOf(t).eid \in {"BREAKPOINT", "STEP"}
         /\ EventOf(t) # NoEvent
         /\ EventOf(t).eid = "BREAKPOINT" =>
               /\ EventOf(t).ea \in Insns
               /\ \/ pc[t] = EventOf(t).ea
                  \/ halt[t] = "trap" /\ pc[t] = EventOf(t).ea + machine.advance
         /\ halt[t] = "trap" => EventOf(t).eid = "BREAKPOINT" /\ pc[t] = EventOf(t).ea + machine.advance
<1>1. Typed /\ ThreadsWell /\ Debugged
  BY DEF IInv
<1>2. machine \in Machines /\ Insns \subseteq Nat /\ Insns \subseteq Int
      /\ machine.advance \in {0, 1} /\ machine.advance \in Int /\ 0 \notin machine.threads
  BY <1>1, Geometry DEF Typed
<1>3. halt[t] \in {"trap", "step"} /\ only \in {0, t} /\ pc[t] \in Int
  BY <1>1 DEF Retrievable, Stopped, ThreadsWell
<1>4. DOMAIN bpts \subseteq Insns
  BY <1>1 DEF Typed
<1>5. ProcIp(t) = pc[t] - machine.advance /\ pc[t] = ProcIp(t) + machine.advance
  BY <1>2, <1>3 DEF ProcIp
<1>6. ASSUME halt[t] = "trap" PROVE ProcIp(t) \in DOMAIN bpts
  <2>1. Logical(t) = ProcIp(t)
    BY <1>6 DEF Logical, ProcIp
  <2>2. Logical(t) \in DOMAIN bpts \cup {over} /\ Logical(t) \in Insns
    BY <1>1, <1>6 DEF Debugged, Trapped, ThreadsWell
  <2>3. SUFFICES ASSUME Logical(t) = over PROVE FALSE
    BY <2>1, <2>2
  <2>4. over # None
    BY <2>2, <2>3, <1>2 DEF None
  <2>5. only = t
    BY <2>4, <1>1, <1>3 DEF Debugged, Steps
  <2>6. halt[t] \in {"run", "step"}
    BY <2>5, <1>1, <1>2 DEF Debugged, Steps
  <2> QED BY <2>6, <1>6
<1>7. ASSUME halt[t] = "step", ProcIp(t) \in DOMAIN bpts PROVE ProcIp(t) = pc[t]
  <2>1. only = t /\ t # 0
    BY <1>1, <1>2, <1>7 DEF Debugged, Waits
  <2>2. over \in Insns /\ over \notin DOMAIN bpts /\ pc[t] = Succ(over)
    BY <2>1, <1>1, <1>7 DEF Debugged, Steps
  <2>3. SUFFICES ASSUME machine.advance = 1 PROVE FALSE
    BY <1>2, <1>3, <1>5
  <2>4. ProcIp(t) = Succ(over) - 1 /\ ProcIp(t) \in Insns
    BY <2>2, <2>3, <1>4, <1>5, <1>7
  <2>5. Succ(over) = 0 \/ Succ(over) = over + machine.insns[over]
    BY <2>2, <1>2, SuccIsInsn
  <2>6. Succ(over) # 0
    BY <2>4, <1>2
  <2>7. ProcIp(t) = over + machine.insns[over] - 1
    <3>1. over \in Int /\ machine.insns[over] \in Int
      BY <2>2, <1>2, Geometry
    <3>2. Succ(over) = over + machine.insns[over]
      BY <2>5, <2>6
    <3> QED BY <2>4, <3>1, <3>2
  <2>8. ProcIp(t) \in over .. over + machine.insns[over] - 1
    BY <2>2, <2>7, <1>2, Geometry
  <2>9. ProcIp(t) = over
    BY <2>2, <2>4, <2>8, <1>2, Places
  <2> QED BY <2>2, <2>9, <1>7
<1>8. CASE ProcIp(t) \in DOMAIN bpts
  <2>1. EventOf(t) = [eid |-> "BREAKPOINT", tid |-> t, ea |-> ProcIp(t)]
    BY <1>8 DEF EventOf
  <2>2. EventOf(t).tid = t /\ EventOf(t).eid = "BREAKPOINT" /\ EventOf(t).ea = ProcIp(t)
    BY <2>1
  <2>3. EventOf(t) # NoEvent
    BY <2>2 DEF NoEvent
  <2> QED BY <2>2, <2>3, <1>3, <1>4, <1>5, <1>7, <1>8
<1>9. CASE ProcIp(t) \notin DOMAIN bpts
  <2>1. halt[t] = "step"
    BY <1>3, <1>6, <1>9
  <2>2. EventOf(t) = [eid |-> "STEP", tid |-> t, ea |-> pc[t]]
    BY <2>1, <1>9 DEF EventOf
  <2>3. EventOf(t).tid = t /\ EventOf(t).eid = "STEP"
    BY <2>2
  <2>4. EventOf(t) # NoEvent
    BY <2>3 DEF NoEvent
  <2> QED BY <2>1, <2>3, <2>4
<1> QED BY <1>8, <1>9

\* The client is told of a thread that stopped.
LEMMA GetDebugEventInv ==
  ASSUME IInv, NEW t \in machine.threads, GetDebugEvent(t) PROVE IInv'
<1>1. /\ conn = "up" /\ event = NoEvent /\ Retrievable(t, only)
      /\ event' = EventOf(t) /\ last' = EventOf(t)
      /\ UNCHANGED <<machine, memory, pc, halt, may_run, only, over, conn, ops>>
  BY DEF GetDebugEvent
<1>2. Typed /\ ThreadsWell /\ EventsWell /\ Debugged /\ Dropped
  BY <1>1 DEF IInv
<1>3. UNCHANGED <<machine, own, bpts>>
  BY <1>1 DEF memory
<1>4. /\ machine \in Machines /\ Insns \subseteq Nat /\ Insns \subseteq Int
      /\ machine.advance \in {0, 1} /\ machine.advance \in Int /\ 0 \notin machine.threads
      /\ Insns' = Insns /\ Size' = Size /\ Addrs' = Addrs /\ OwnBytes(own)'
  BY <1>3, Stay
<1>5. /\ event'.tid = t /\ event'.eid \in {"BREAKPOINT", "STEP"} /\ event' # NoEvent /\ event' = last'
      /\ event'.eid = "BREAKPOINT" =>
            /\ event'.ea \in Insns
            /\ \/ pc[t] = event'.ea
               \/ halt[t] = "trap" /\ pc[t] = event'.ea + machine.advance
      /\ halt[t] = "trap" => event'.eid = "BREAKPOINT" /\ pc[t] = event'.ea + machine.advance
  BY <1>1, EventIs
<1>6. TablesAgree(own, mem, bpts, removed, table)'
  BY <1>1, <1>2, TablesStay DEF Debugged
<1>7. Typed'
  BY <1>1, <1>2, <1>4 DEF Typed, memory
<1>8. ThreadsWell'
  BY <1>1, <1>2, <1>4 DEF ThreadsWell, Logical
<1>9. EventsWell'
  BY <1>1, <1>3, <1>4, <1>5 DEF EventsWell
<1>10. Trapped'
  BY <1>1, <1>2, <1>3 DEF Debugged, Trapped, Logical
<1>11. Waits'
  <2>1. SUFFICES ASSUME NEW u \in machine.threads
                 PROVE  (halt[u] = "step" => event'.tid = u) /\ halt[u] # "ready"
    BY <1>1, <1>3, <1>5 DEF Waits, NoEvent
  <2>2. halt[u] = "step" => only = u
    BY <1>1, <1>2 DEF Debugged, Waits
  <2>3. halt[u] # "ready"
    BY <1>1, <1>2 DEF Debugged, Waits
  <2>4. only = u => u = t
    BY <1>1, <1>4 DEF Retrievable
  <2> QED BY <2>2, <2>3, <2>4, <1>5
<1>12. Steps' /\ Held'
  BY <1>1, <1>3, <1>5 DEF Steps, Held, NoEvent
<1>13. Dropped' /\ CleanIfFixed'
  BY <1>1, <1>2 DEF Dropped, CleanIfFixed
<1> QED BY <1>6, <1>7, <1>8, <1>9, <1>10, <1>11, <1>12, <1>13 DEF IInv, Debugged

\* The connection breaks.
LEMMA DropInv == ASSUME IInv, Drop PROVE IInv'
<1>1. /\ conn = "up" /\ machine.drops # "never"
      /\ machine.drops = "held" => event # NoEvent
      /\ conn' = "broken"
      /\ UNCHANGED <<machine, memory, threads, event, last, may_run, only, over, ops>>
  BY DEF Drop
<1>2. Typed /\ ThreadsWell /\ EventsWell /\ Debugged
  BY <1>1 DEF IInv
<1>3. UNCHANGED <<machine, own, bpts, pc, halt>>
  BY <1>1 DEF memory, threads
<1>4. /\ Insns' = Insns /\ Size' = Size /\ Addrs' = Addrs /\ OwnBytes(own)'
      /\ \A a : Succ(a)' = Succ(a)
  BY <1>3, Stay
<1>5. TablesAgree(own, mem, bpts, removed, table)'
  BY <1>1, <1>2, TablesStay DEF Debugged
<1>6. Typed'
  BY <1>1, <1>2, <1>4 DEF Typed, memory
<1>7. ThreadsWell'
  BY <1>2, <1>3, <1>4 DEF ThreadsWell, Logical
<1>8. EventsWell'
  BY <1>1, <1>2, <1>4 DEF EventsWell, NoEvent
<1>9. Trapped'
  BY <1>1, <1>2, <1>3 DEF Debugged, Trapped, Logical
<1>10. Waits' /\ Held'
  BY <1>1, <1>2, <1>3 DEF Debugged, Waits, Held, NoEvent
<1>11. Steps'
  BY <1>1, <1>2, <1>3, <1>4 DEF Debugged, Steps, NoEvent
<1>12. Dropped' /\ CleanIfFixed'
  BY <1>1 DEF Dropped, CleanIfFixed, NoEvent
<1> QED BY <1>5, <1>6, <1>7, <1>8, <1>9, <1>10, <1>11, <1>12 DEF IInv, Debugged

\* Where the threads are when the session is taken up again.
LEMMA Fixed ==
  ASSUME IInv, conn = "broken", FixPointer, UNCHANGED machine
  PROVE  /\ DOMAIN pc' = machine.threads /\ DOMAIN halt' = machine.threads
         /\ \A t \in machine.threads :
               \/ pc'[t] = pc[t] /\ halt'[t] = halt[t] /\ Logical(t)' = Logical(t)
               \/ /\ t = last.tid /\ last.eid = "BREAKPOINT" /\ machine.advance = 1
                  /\ pc[t] = last.ea + 1 /\ pc'[t] = last.ea /\ halt'[t] = "ready"
                  /\ Logical(t)' = last.ea /\ last.ea \in Insns
         /\ \A t \in machine.threads :
               halt'[t] = "trap" => ~(/\ machine.advance = 1 /\ t = last.tid
                                      /\ last.eid = "BREAKPOINT" /\ pc[t] = last.ea + 1)
<1>1. ThreadsWell /\ EventsWell
  BY DEF IInv
<1>2. CASE machine.advance = 1 /\ last.eid = "BREAKPOINT" /\ pc[last.tid] = last.ea + 1
  <2>1. /\ pc' = [pc EXCEPT ![last.tid] = last.ea]
        /\ halt' = [halt EXCEPT ![last.tid] = "ready"]
    BY <1>2 DEF FixPointer
  <2>2. last.tid \in machine.threads /\ last.ea \in Insns
    BY <1>1, <1>2 DEF EventsWell
  <2>3. DOMAIN pc' = machine.threads /\ DOMAIN halt' = machine.threads
    BY <2>1, <1>1 DEF ThreadsWell
  <2>4. \A t \in machine.threads :
           /\ t = last.tid => pc'[t] = last.ea /\ halt'[t] = "ready"
           /\ t # last.tid => pc'[t] = pc[t] /\ halt'[t] = halt[t]
    BY <2>1, <1>1 DEF ThreadsWell
  <2>5. ASSUME NEW t \in machine.threads
        PROVE  \/ pc'[t] = pc[t] /\ halt'[t] = halt[t] /\ Logical(t)' = Logical(t)
               \/ /\ t = last.tid /\ last.eid = "BREAKPOINT" /\ machine.advance = 1
                  /\ pc[t] = last.ea + 1 /\ pc'[t] = last.ea /\ halt'[t] = "ready"
                  /\ Logical(t)' = last.ea /\ last.ea \in Insns
    <3>1. CASE t = last.tid
      <4>1. pc'[t] = last.ea /\ halt'[t] = "ready"
        BY <3>1, <2>4
      <4>2. Logical(t)' = pc'[t]
        BY <4>1 DEF Logical
      <4> QED BY <3>1, <4>1, <4>2, <2>2, <1>2
    <3>2. CASE t # last.tid
      BY <3>2, <2>4 DEF Logical
    <3> QED BY <3>1, <3>2
  <2>6. \A t \in machine.threads : halt'[t] = "trap" => t # last.tid
    BY <2>4
  <2> QED BY <2>3, <2>5, <2>6
<1>3. CASE ~(machine.advance = 1 /\ last.eid = "BREAKPOINT" /\ pc[last.tid] = last.ea + 1)
  <2>1. UNCHANGED <<pc, halt>>
    BY <1>3 DEF FixPointer, threads
  <2>2. \A t \in machine.threads : Logical(t)' = Logical(t)
    BY <2>1 DEF Logical
  <2> QED BY <2>1, <2>2, <1>1, <1>3 DEF ThreadsWell
<1> QED BY <1>2, <1>3

\* The broken session is taken up, and the program given back.
LEMMA ReconnectInv == ASSUME IInv, Reconnect PROVE IInv'
<1>1. /\ conn = "broken" /\ mem' = Restore(mem) /\ bpts' = << >> /\ FixPointer
      /\ conn' = "over" /\ table' = << >>
      /\ UNCHANGED <<machine, own, removed, event, last, may_run, only, over, ops>>
  BY DEF Reconnect
<1>2. Typed /\ ThreadsWell /\ EventsWell /\ Debugged /\ Dropped
  BY <1>1 DEF IInv
<1>3. /\ machine \in Machines /\ Insns \subseteq Int
      /\ machine.advance \in {0, 1} /\ machine.advance \in Int
      /\ Insns' = Insns /\ Size' = Size /\ Addrs' = Addrs /\ OwnBytes(own)'
  BY <1>1, Stay
<1>4. Typed'
  <2>1. DOMAIN mem' = Addrs /\ DOMAIN bpts' = {} /\ DOMAIN table' = {}
    BY <1>1, <1>2 DEF Restore, Typed
  <2> QED BY <2>1, <1>1, <1>2, <1>3 DEF Typed
<1>5. /\ DOMAIN pc' = machine.threads /\ DOMAIN halt' = machine.threads
      /\ \A t \in machine.threads :
            \/ pc'[t] = pc[t] /\ halt'[t] = halt[t] /\ Logical(t)' = Logical(t)
            \/ /\ t = last.tid /\ last.eid = "BREAKPOINT" /\ machine.advance = 1
               /\ pc[t] = last.ea + 1 /\ pc'[t] = last.ea /\ halt'[t] = "ready"
               /\ Logical(t)' = last.ea /\ last.ea \in Insns
      /\ \A t \in machine.threads :
            halt'[t] = "trap" => ~(/\ machine.advance = 1 /\ t = last.tid
                                   /\ last.eid = "BREAKPOINT" /\ pc[t] = last.ea + 1)
  BY <1>1, Fixed
<1>6. ThreadsWell'
  <2>1. ASSUME NEW t \in machine.threads
        PROVE  halt'[t] \in {"run", "ready", "trap", "step"} /\ pc'[t] \in Int /\ Logical(t)' \in Insns
    BY <1>2, <1>3, <1>5 DEF ThreadsWell
  <2> QED BY <2>1, <1>1, <1>3, <1>5 DEF ThreadsWell
<1>7. EventsWell'
  BY <1>1, <1>2, <1>3 DEF EventsWell, NoEvent
<1>8. Dropped'
  BY <1>1, <1>2 DEF Dropped
<1>9. CleanIfFixed'
  <2>1. SUFFICES ASSUME FixSuffices(machine), NEW t \in machine.threads
                 PROVE  pc'[t] = Logical(t)'
    BY <1>1 DEF CleanIfFixed, HandedBackClean, FixSuffices
  <2>2. pc'[t] \in Int
    BY <1>6, <1>1 DEF ThreadsWell
  <2>3. CASE machine.advance = 0
    BY <2>2, <2>3, <1>1 DEF Logical
  <2>4. CASE machine.advance = 1
    <3>1. machine.drops = "held" /\ machine.threads = {1}
      BY <2>1, <2>4, <1>1, <1>2 DEF FixSuffices, Dropped
    <3>2. event # NoEvent /\ event = last /\ last.tid = t
      BY <3>1, <1>1, <1>2 DEF Dropped, EventsWell
    <3>3. SUFFICES ASSUME halt'[t] = "trap" PROVE FALSE
      BY DEF Logical
    <3>4. halt[t] = "trap"
      BY <3>3, <1>5
    <3>5. last.eid = "BREAKPOINT" /\ pc[t] = last.ea + 1
      BY <3>2, <3>4, <2>4, <1>2 DEF Debugged, Held
    <3> QED BY <3>2, <3>3, <3>5, <2>4, <1>5
  <2> QED BY <2>3, <2>4, <1>3
<1> QED BY <1>1, <1>4, <1>6, <1>7, <1>8, <1>9 DEF IInv

\* A step that changes nothing.
LEMMA StutterInv == ASSUME IInv, UNCHANGED vars PROVE IInv'
<1>1. UNCHANGED <<machine, mem, own, bpts, removed, table, pc, halt, event, last,
                  may_run, only, over, conn, ops>>
  BY DEF vars
<1>2. /\ Insns' = Insns /\ Size' = Size /\ Addrs' = Addrs /\ OwnBytes(own)'
      /\ \A a : Succ(a)' = Succ(a)
  BY <1>1, Stay
<1>3. Typed' /\ EventsWell' /\ Dropped'
  BY <1>1, <1>2 DEF IInv, Typed, EventsWell, Dropped, NoEvent
<1>4. ThreadsWell'
  BY <1>1, <1>2 DEF IInv, ThreadsWell, Logical
<1>5. conn # "over" => TablesAgree(own, mem, bpts, removed, table)'
  BY <1>1, TablesStay DEF IInv, Debugged, memory
<1>6. conn # "over" => Trapped' /\ Waits' /\ Held'
  BY <1>1 DEF IInv, Debugged, Trapped, Waits, Held, NoEvent, Logical
<1>7. conn # "over" => Steps'
  BY <1>1, <1>2 DEF IInv, Debugged, Steps, NoEvent
<1>8. CleanIfFixed'
  BY <1>1 DEF IInv, CleanIfFixed, HandedBackClean, FixSuffices, Logical
<1> QED BY <1>1, <1>3, <1>4, <1>5, <1>6, <1>7, <1>8 DEF IInv, Debugged

LEMMA NextInv == ASSUME IInv, [Next]_vars PROVE IInv'
<1>1. ASSUME NEW adds \in Requests, NEW dels \in Requests, UpdateBpts(adds, dels) PROVE IInv'
  BY <1>1, UpdateBptsInv
<1>2. ASSUME NEW a \in Addrs, Patch(a) PROVE IInv'
  BY <1>2, PatchInv
<1>3. ASSUME NEW t \in machine.threads, Execute(t) \/ GetDebugEvent(t) PROVE IInv'
  BY <1>3, ExecuteInv, GetDebugEventInv
<1> QED BY <1>1, <1>2, <1>3, WriteIpInv, ContinueInv, StepOverInv, DropInv, ReconnectInv,
           StutterInv DEF Next

\* The inductive invariant holds in every state.
THEOREM Invariance == Spec => []IInv
BY InitInv, NextInv, PTL DEF Spec

-----------------------------------------------------------------------------
(* What follows from it                                                      *)

LEMMA TypeInv == IInv => TypeOK
<1> SUFFICES ASSUME IInv PROVE TypeOK
  OBVIOUS
<1>1. Typed /\ ThreadsWell /\ EventsWell
  BY DEF IInv
<1>2. DOMAIN own = Addrs
  BY <1>1 DEF Typed, OwnBytes
<1>3. DOMAIN halt = machine.threads /\ Range(halt) \subseteq {"run", "ready"} \cup Stopped
  BY <1>1 DEF ThreadsWell, Range, Stopped
<1>4. event.eid \in {"NO_EVENT", "PROCESS_START", "BREAKPOINT", "STEP", "EXCEPTION"}
  BY <1>1 DEF EventsWell, NoEvent
<1> QED BY <1>1, <1>2, <1>3, <1>4 DEF TypeOK, Typed

\* Every variable has its type.
THEOREM TypeCorrect == Spec => []TypeOK
BY Invariance, TypeInv, PTL

LEMMA KnownMemory == IInv => MemoryIsWhatTheClientKnows
<1> SUFFICES ASSUME IInv, conn = "up" PROVE MemoryIsWhatTheClientKnows
  BY DEF MemoryIsWhatTheClientKnows
<1>1. machine \in Machines /\ own \in [Addrs -> Int]
  BY DEF IInv, Typed, OwnBytes
<1>2. /\ Shaped(bpts, removed, table) /\ TableSaved(own, bpts, table)
      /\ Covered(mem, table) /\ Bare(own, mem, table)
  BY DEF IInv, Debugged, TablesAgree
<1>3. \A ea \in DOMAIN table : ea \in Insns /\ Under(ea) = ea .. ea + Len(table[ea]) - 1
  <2>1. SUFFICES ASSUME NEW ea \in DOMAIN table
                 PROVE  ea \in Insns /\ Under(ea) = ea .. ea + Len(table[ea]) - 1
    OBVIOUS
  <2>2. ea \in Insns /\ table[ea] = CodeOf(own, ea)
    BY <1>2 DEF Shaped, TableSaved
  <2>3. Len(table[ea]) = TrapLen(ea)
    BY <2>2, <1>1, Geometry DEF CodeOf
  <2> QED BY <2>2, <2>3 DEF Under
<1>4. SUFFICES ASSUME NEW a \in Addrs
      PROVE  mem[a] = IF \E ea \in DOMAIN table : a \in ea .. ea + Len(table[ea]) - 1
                      THEN LET ea == CHOOSE e \in DOMAIN table : a \in e .. e + Len(table[e]) - 1
                           IN ea - a - 1
                      ELSE own[a]
  BY DEF MemoryIsWhatTheClientKnows
<1>5. CASE \E ea \in DOMAIN table : a \in ea .. ea + Len(table[ea]) - 1
  <2> DEFINE c == CHOOSE e \in DOMAIN table : a \in e .. e + Len(table[e]) - 1
  <2>1. c \in DOMAIN table /\ a \in c .. c + Len(table[c]) - 1
    BY <1>5
  <2> HIDE DEF c
  <2>2. a \in Under(c)
    BY <2>1, <1>3
  <2>3. mem[a] = c - a - 1
    BY <2>1, <2>2, <1>2 DEF Covered
  <2> QED BY <1>5, <2>3 DEF c
<1>6. CASE ~\E ea \in DOMAIN table : a \in ea .. ea + Len(table[ea]) - 1
  <2>1. mem[a] = own[a]
    BY <1>2, <1>3, <1>6 DEF Bare
  <2> QED BY <1>6, <2>1
<1> QED BY <1>5, <1>6

\* While the client is there, memory is the program with the client's breakpoints
\* written over it, and nothing else, whatever was added, deleted and patched.
THEOREM MemoryKept == Spec => []MemoryIsWhatTheClientKnows
BY Invariance, KnownMemory, PTL

LEMMA NoException == IInv => TrapsAreBreakpoints
BY DEF IInv, EventsWell, TrapsAreBreakpoints, NoEvent

\* A trap code of the debugger is never reported as an exception of the program.
THEOREM TrapsReported == Spec => []TrapsAreBreakpoints
BY Invariance, NoException, PTL

LEMMA Clean3 ==
  ASSUME \A m \in Machines : FixSuffices(m), IInv
  PROVE  BreakpointsKept
<1>1. FixSuffices(machine)
  BY DEF IInv, Typed
<1>2. HandedBackClean
  BY <1>1 DEF IInv, CleanIfFixed, HandedBackClean
<1> QED BY <1>2, KnownMemory, NoException DEF BreakpointsKept

\* Memory, events and the places of the threads are kept apart from the program, where
\* moving back the thread of the last event is enough.
THEOREM BreakpointsAreKept ==
  ASSUME \A m \in Machines : FixSuffices(m)
  PROVE  Spec => []BreakpointsKept
<1>1. IInv => BreakpointsKept
  BY Clean3
<1> QED BY <1>1, Invariance, PTL

-----------------------------------------------------------------------------
(* The program given back                                                    *)

LEMMA Restoring == ASSUME IInv, [Next]_vars PROVE GivenBackExactly
<1> SUFFICES ASSUME conn = "broken", conn' = "over", NEW a \in Addrs, mem'[a] # own'[a]
             PROVE  \E ea \in removed : a \in ea .. ea + 1 /\ own[a] # a
  BY DEF GivenBackExactly
<1>1. Reconnect
  <2>1. conn' # conn
    OBVIOUS
  <2> QED BY <2>1 DEF Next, vars, UpdateBpts, Patch, WriteIp, Continue, StepOver, Holding,
                      Execute, GetDebugEvent, Drop
<1>2. machine \in Machines /\ own \in [Addrs -> Int] /\ DOMAIN mem = Addrs
  BY DEF IInv, Typed, OwnBytes
<1>3. /\ Shaped(bpts, removed, table) /\ TableSaved(own, bpts, table)
      /\ RemovedSaved(own, bpts, removed) /\ Bare(own, mem, table)
  BY DEF IInv, Debugged, TablesAgree
<1>4. mem' = Restore(mem) /\ own' = own
  BY <1>1 DEF Reconnect
<1> DEFINE over_a == {ea \in DOMAIN bpts : a \in ea .. ea + Len(bpts[ea]) - 1}
<1>5. mem'[a] = IF over_a = {} THEN mem[a] ELSE bpts[Max(over_a)][a - Max(over_a) + 1]
  BY <1>2, <1>4 DEF Restore
<1>6. \A ea \in DOMAIN bpts : /\ ea \in Insns /\ SavedOf(own, bpts[ea], ea)
                              /\ ea \in DOMAIN table => bpts[ea] = CodeOf(own, ea)
                              /\ ea \in removed \/ ea \in DOMAIN table
  <2>1. \A ea \in DOMAIN table : ea \in Insns /\ bpts[ea] = CodeOf(own, ea)
    BY <1>3 DEF Shaped, TableSaved
  <2>2. \A ea \in DOMAIN table : SavedOf(own, bpts[ea], ea)
    BY <1>2, <2>1, CodeIs
  <2> QED BY <2>1, <2>2, <1>3 DEF Shaped, RemovedSaved
<1>7. \A ea \in DOMAIN bpts : Under(ea) = ea .. ea + Len(bpts[ea]) - 1
  <2>1. SUFFICES ASSUME NEW ea \in DOMAIN bpts PROVE Len(bpts[ea]) = TrapLen(ea)
    BY DEF Under
  <2>2. bpts[ea] \in [1 .. TrapLen(ea) -> Int] /\ TrapLen(ea) \in Nat
    BY <1>2, <1>6, Geometry DEF SavedOf
  <2> QED BY <2>2
<1>8. over_a # {}
  <2>1. SUFFICES ASSUME over_a = {} PROVE FALSE
    OBVIOUS
  <2>2. \A ea \in DOMAIN table : a \notin Under(ea)
    BY <2>1, <1>3, <1>7 DEF Shaped
  <2>3. mem[a] = own[a]
    BY <2>2, <1>3 DEF Bare
  <2> QED BY <2>1, <2>3, <1>4, <1>5
<1>9. PICK ea \in DOMAIN bpts : a \in Under(ea)
  BY <1>7, <1>8
<1>10. Max(over_a) = ea
  <2>1. ea \in over_a /\ \A x \in over_a : x = ea
    <3>1. \A x \in over_a : x \in Insns /\ a \in Under(x)
      BY <1>6, <1>7
    <3>2. ea \in Insns /\ a \in ea .. ea + machine.insns[ea] - 1
      BY <1>2, <1>6, <1>9, Places
    <3>3. ea \in over_a
      BY <1>7, <1>9
    <3>4. \A x \in Insns : x # ea => a \notin Under(x)
      BY <1>2, <3>2, Places
    <3> QED BY <3>1, <3>3, <3>4
  <2>2. ea \in Int
    BY <1>2, <1>6, Places
  <2> HIDE DEF over_a
  <2>3. over_a \subseteq Int /\ \A x \in over_a : x <= ea
    BY <2>1, <2>2
  <2> QED BY <2>1, <2>3, MaxIs
<1>11. mem'[a] = bpts[ea][a - ea + 1]
  BY <1>5, <1>8, <1>10
<1>12. a - ea + 1 \in 1 .. TrapLen(ea) /\ ea + (a - ea + 1) - 1 = a
  BY <1>2, <1>6, <1>9, Places
<1>13. ea \notin DOMAIN table
  BY <1>2, <1>4, <1>6, <1>9, <1>11, CodeIs
<1>14. bpts[ea][a - ea + 1] \in {own[a], a}
  BY <1>6, <1>12 DEF SavedOf
<1>15. a \in ea .. ea + 1
  BY <1>2, <1>6, <1>9, Geometry DEF Under
<1> QED BY <1>4, <1>6, <1>11, <1>13, <1>14, <1>15

\* A program given back is as it was, but where a deleted breakpoint was patched since.
THEOREM RestoredExactly == Spec => RestoresExactly
<1>1. IInv /\ [Next]_vars => [GivenBackExactly]_vars
  BY Restoring
<1> QED BY <1>1, Invariance, PTL DEF Spec, RestoresExactly

-----------------------------------------------------------------------------
(* The program is undisturbed                                                *)

\* fix_instruction_pointer sees which thread the last event is about only while the
\* client holds it: after that the thread may have run on.
FixSeen(m) == m.advance = 1 => m.drops # "anytime"

Proceeds == \E t \in machine.threads : At' = [At EXCEPT ![t] = Follows[@]]

LEMMA AtStays ==
  ASSUME machine' = machine, \A t \in machine.threads : Logical(t)' = Logical(t)
  PROVE  At' = At
BY DEF At

LEMMA FollowsStay == ASSUME machine' = machine PROVE Follows' = Follows
BY SameMachine DEF Follows

LEMMA Simulates ==
  ASSUME \A m \in Machines : FixSeen(m), IInv, [Next]_vars
  PROVE  machine' = machine /\ (Proceeds \/ At' = At)
<1>1. Typed /\ ThreadsWell /\ EventsWell
  BY DEF IInv
<1>2. machine \in Machines /\ Insns \subseteq Int /\ machine.advance \in {0, 1} /\ machine.advance \in Int
  BY <1>1, Geometry DEF Typed
<1>3. CASE UNCHANGED <<machine, pc, halt>>
  <2>1. \A t \in machine.threads : Logical(t)' = Logical(t)
    BY <1>3 DEF Logical
  <2> QED BY <1>3, <2>1, AtStays
<1>4. CASE WriteIp
  <2>1. /\ conn = "up" /\ event # NoEvent /\ event.eid = "BREAKPOINT" /\ pc[event.tid] # event.ea
        /\ pc' = [pc EXCEPT ![event.tid] = event.ea]
        /\ halt' = [halt EXCEPT ![event.tid] = "ready"] /\ machine' = machine
    BY <1>4 DEF WriteIp, Holding, Clean
  <2>2. /\ halt[event.tid] = "trap" /\ pc[event.tid] = event.ea + machine.advance
        /\ event.tid \in machine.threads /\ event.ea \in Int
    BY <2>1, <1>1, <1>2 DEF IInv, Debugged, Held, EventsWell
  <2>3. ASSUME NEW t \in machine.threads PROVE Logical(t)' = Logical(t)
    <3>1. CASE t = event.tid
      <4>1. pc'[t] = event.ea /\ halt'[t] = "ready"
        BY <2>1, <3>1, <1>1 DEF ThreadsWell
      <4>2. Logical(t)' = event.ea
        BY <4>1 DEF Logical
      <4>3. Logical(t) = pc[t] - machine.advance
        BY <2>2, <3>1 DEF Logical
      <4> QED BY <4>2, <4>3, <2>2, <3>1, <1>2
    <3>2. CASE t # event.tid
      BY <3>2, <2>1, <1>1 DEF ThreadsWell, Logical
    <3> QED BY <3>1, <3>2
  <2> QED BY <2>1, <2>3, AtStays
<1>5. CASE Continue \/ StepOver
  <2>1. /\ conn = "up" /\ event # NoEvent /\ Clean /\ UNCHANGED <<machine, pc>>
        /\ halt' = [halt EXCEPT ![event.tid] = "run"]
    BY <1>5 DEF Continue, StepOver, ResumeApp, Holding
  <2>2. \A t \in machine.threads : Logical(t)' = Logical(t)
    BY <2>1, <1>1, <1>2, Resumed DEF IInv, Debugged
  <2> QED BY <2>1, <2>2, AtStays
<1>6. ASSUME NEW t \in machine.threads, Execute(t) PROVE machine' = machine /\ (Proceeds \/ At' = At)
  <2>1. machine' = machine
    BY <1>6 DEF Execute
  <2>2. /\ halt[t] = "run" /\ pc[t] \in Insns /\ Logical(t) = pc[t]
        /\ \/ /\ halt' = [halt EXCEPT ![t] = "trap"]
              /\ pc' = [pc EXCEPT ![t] = pc[t] + machine.advance]
           \/ /\ halt' = [halt EXCEPT ![t] = IF only = t THEN "step" ELSE "run"]
              /\ pc' = [pc EXCEPT ![t] = Succ(pc[t])]
    BY <1>6, Runs
  <2>3. \A u \in machine.threads : u # t => Logical(u)' = Logical(u)
    BY <2>1, <2>2, <1>1 DEF ThreadsWell, Logical
  <2>4. CASE /\ halt' = [halt EXCEPT ![t] = "trap"]
             /\ pc' = [pc EXCEPT ![t] = pc[t] + machine.advance]
    <3>1. halt'[t] = "trap" /\ pc'[t] = pc[t] + machine.advance
      BY <2>4, <1>1 DEF ThreadsWell
    <3>2. Logical(t)' = pc'[t] - machine.advance
      BY <3>1, <2>1 DEF Logical
    <3>3. pc[t] \in Int
      BY <2>2, <1>2
    <3>4. Logical(t)' = Logical(t)
      BY <3>1, <3>2, <3>3, <2>2, <1>2
    <3> QED BY <3>4, <2>1, <2>3, AtStays
  <2>5. CASE /\ halt' = [halt EXCEPT ![t] = IF only = t THEN "step" ELSE "run"]
             /\ pc' = [pc EXCEPT ![t] = Succ(pc[t])]
    <3>1. halt'[t] \in {"step", "run"} /\ pc'[t] = Succ(pc[t])
      BY <2>5, <1>1 DEF ThreadsWell
    <3>2. Logical(t)' = Succ(pc[t])
      BY <3>1 DEF Logical
    <3>3. Follows[Logical(t)] = Succ(pc[t])
      BY <2>2 DEF Follows
    <3>4. At' = [At EXCEPT ![t] = Follows[@]]
      BY <3>2, <3>3, <2>1, <2>3 DEF At
    <3> QED BY <3>4, <2>1 DEF Proceeds
  <2> QED BY <2>2, <2>4, <2>5
<1>7. CASE Reconnect
  <2>1. conn = "broken" /\ FixPointer /\ machine' = machine
    BY <1>7 DEF Reconnect
  <2>2. /\ \A t \in machine.threads :
              \/ Logical(t)' = Logical(t)
              \/ /\ t = last.tid /\ last.eid = "BREAKPOINT" /\ machine.advance = 1
                 /\ pc[t] = last.ea + 1 /\ Logical(t)' = last.ea /\ last.ea \in Insns
    BY <2>1, Fixed
  <2>3. ASSUME NEW t \in machine.threads PROVE Logical(t)' = Logical(t)
    <3>1. SUFFICES ASSUME /\ t = last.tid /\ last.eid = "BREAKPOINT" /\ machine.advance = 1
                          /\ pc[t] = last.ea + 1 /\ Logical(t)' = last.ea /\ last.ea \in Insns
                   PROVE  Logical(t) = last.ea
      BY <2>2
    <3>2. machine.drops = "held"
      <4>1. FixSeen(machine) /\ WellFormed(machine) /\ Dropped
        BY <1>2, MachineAssumption DEF IInv
      <4> QED BY <3>1, <4>1, <2>1 DEF FixSeen, WellFormed, Dropped
    <3>3. event # NoEvent /\ event = last
      BY <3>2, <2>1, <1>1 DEF IInv, Dropped, EventsWell
    <3>4. last.ea \in Int
      BY <3>1, <1>2
    <3>5. pc[t] # last.ea
      BY <3>1, <3>4
    <3>6. halt[t] = "trap"
      BY <3>1, <3>3, <3>5, <2>1 DEF IInv, Debugged, Held
    <3> QED BY <3>1, <3>4, <3>6 DEF Logical
  <2> QED BY <2>1, <2>3, AtStays
<1> QED BY <1>3, <1>4, <1>5, <1>6, <1>7
        DEF Next, vars, UpdateBpts, Patch, GetDebugEvent, Drop, memory, threads

\* The debugged program goes its way as if there were no debugger: every step of the
\* module, the client and the connection is a step of the program or none, where
\* fix_instruction_pointer sees the thread it moves.
THEOREM Undisturbing ==
  ASSUME \A m \in Machines : FixSeen(m)
  PROVE  Spec => RunsUndisturbed
<1>1. Init => Undisturbed!ProgramInit
  <2>1. SUFFICES ASSUME Init PROVE \A t \in machine.threads : Logical(t) = 0
    BY DEF Undisturbed!ProgramInit, At
  <2>2. \A t \in machine.threads : pc[t] = 0 /\ halt[t] = "run"
    BY <2>1 DEF Init
  <2> QED BY <2>2 DEF Logical
<1>2. IInv /\ [Next]_vars => [Undisturbed!ProgramNext]_<<Follows, At>>
  <2>1. SUFFICES ASSUME IInv, [Next]_vars
                 PROVE  [Undisturbed!ProgramNext]_<<Follows, At>>
    OBVIOUS
  <2>2. machine' = machine /\ (Proceeds \/ At' = At)
    BY <2>1, Simulates
  <2>3. Follows' = Follows
    BY <2>2, FollowsStay
  <2>4. CASE Proceeds
    <3>1. DOMAIN At = machine.threads
      BY DEF At
    <3>2. \E t \in DOMAIN At : At' = [At EXCEPT ![t] = Follows[@]]
      BY <2>4, <3>1 DEF Proceeds
    <3> QED BY <2>3, <3>2 DEF Undisturbed!ProgramNext, Undisturbed!Proceed
  <2>5. CASE At' = At
    BY <2>3, <2>5
  <2> QED BY <2>2, <2>4, <2>5
<1> QED BY <1>1, <1>2, Invariance, PTL DEF Spec, RunsUndisturbed, Undisturbed!ProgramSpec

-----------------------------------------------------------------------------
(* Hardware breakpoints: the inductive invariant                             *)

Threads == {t \in Tids : life[t] # "none"}
Bpt == [ea : Eas \cup {BADADDR}, type : Types \cup {BPT_EXEC}]
Bits == [on : BOOLEAN, bits : 0 .. 15]
HwRegs == [dr : [Slots -> Eas \cup {0}], ctl : [Slots -> Bits], dr6 : SUBSET Slots]

HwTyped ==
    /\ hwbpt \in [Slots -> Bpt] /\ dr7 \in [Slots -> Bits] /\ regs \in [Tids -> HwRegs]
    /\ life \in [Tids -> {"none", "alive", "zombie"}]
    /\ reached \subseteq Tids /\ failed \in BOOLEAN
    /\ held \subseteq [ea : Eas, type : Types]
    /\ touched \in [Tids -> Eas \cup {BADADDR}]

\* The registers r have the table h and its control bits d.
Has(r, h, d) == r.dr = [i \in Slots |-> DrValue(h[i].ea)] /\ r.ctl = d

\* The threads the last refresh reached are there and have the table.
Reached == reached \subseteq Threads /\ \A t \in reached : Has(regs[t], hwbpt, dr7)

\* Every breakpoint of the client has a slot that is enabled.
Slotted == \A b \in held : \E i \in Slots : hwbpt[i] = b /\ dr7[i].on

\* While no refresh has failed the table has the breakpoints of the client, once each.
Tabled ==
    ~failed => /\ \A i \in Slots : dr7[i].on <=> hwbpt[i].ea # BADADDR
               /\ \A i \in Slots : hwbpt[i].ea # BADADDR => hwbpt[i] \in held
               /\ \A i, j \in Slots : hwbpt[i].ea # BADADDR /\ hwbpt[i] = hwbpt[j] => i = j

\* A thread that is not there has empty registers, one that does not run has touched nothing.
Idle ==
    \A t \in Tids : /\ life[t] = "none" => regs[t] = Cleared
                    /\ life[t] # "alive" => touched[t] = BADADDR

\* The registers are written all together, or not at all since the thread was born.
Blank(r) == r.dr = Cleared.dr /\ r.ctl = Cleared.ctl
Uniform == ~failed => \A t \in Threads : Has(regs[t], hwbpt, dr7) \/ Blank(regs[t])

\* A bit in dr6 is about the access that is not reported yet.
Hit == ~failed => \A t \in Tids : life[t] = "alive" =>
         \A i \in regs[t].dr6 : /\ touched[t] # BADADDR /\ regs[t].dr[i] = touched[t]
                                /\ regs[t].ctl[i].on

HwInv == HwTyped /\ Reached /\ Slotted /\ Tabled /\ Idle /\ Uniform /\ Hit

-----------------------------------------------------------------------------
(* The lowest slot                                                           *)

\* Of some slots one is the first.
LEMMA FirstSlot ==
  ASSUME NEW Z \in SUBSET Slots, Z # {}
  PROVE  \E z \in Z : \A y \in Z : z <= y
<1> DEFINE Below(z) == {y \in Z : y < z}
           C == {Below(z) : z \in Z}
           R == StrictSubsetOrdering(Slots)
<1>1. IsFiniteSet(Slots)
  BY HwAssumption, FS_Interval DEF Slots
<1>2. IsWellFoundedOn(R, FiniteSubsetsOf(Slots))
  BY FS_StrictSubsetOrderingWellFounded
<1>3. FiniteSubsetsOf(Slots) = SUBSET Slots
  BY <1>1, FS_FiniteSubsetsOfFinite
<1>4. C \subseteq FiniteSubsetsOf(Slots) /\ C # {}
  <2>1. \A z \in Z : Below(z) \in SUBSET Slots
    OBVIOUS
  <2>2. C \in SUBSET (SUBSET Slots)
    BY <2>1
  <2>3. C # {}
    OBVIOUS
  <2> HIDE DEF C
  <2> QED BY <1>3, <2>2, <2>3
<1>5. PICK b \in C : \A c \in C : ~(<<c, b>> \in R)
  <2> HIDE DEF C, R
  <2> QED BY <1>2, <1>4, WFMin
<1>6. PICK z \in Z : b = Below(z)
  OBVIOUS
<1>7. \A y \in Z : y \in Int
  BY HwAssumption DEF Slots
<1>8. ASSUME NEW y \in Z, y < z PROVE FALSE
  <2>1. Below(y) \subseteq Below(z) /\ y \in Below(z) /\ y \notin Below(y)
    BY <1>7, <1>8
  <2>2. Below(y) \in SUBSET Slots /\ Below(z) \in SUBSET Slots /\ Below(y) \in C
    OBVIOUS
  <2>3. <<Below(y), Below(z)>> \in R
    <3> HIDE DEF Below
    <3> QED BY <2>1, <2>2 DEF StrictSubsetOrdering
  <2> QED BY <1>5, <1>6, <2>2, <2>3
<1> QED BY <1>7, <1>8

LEMMA FirstOfSlots ==
  ASSUME NEW Z \in SUBSET Slots, Z # {}
  PROVE  LET z == CHOOSE j \in Z : \A k \in Z : j <= k IN z \in Z /\ \A k \in Z : z <= k
BY FirstSlot

-----------------------------------------------------------------------------
(* refresh_hwbpts                                                            *)

LEMMA RegistersAre ==
  ASSUME NEW h \in [Slots -> Bpt], NEW d \in [Slots -> Bits], NEW r \in HwRegs
  PROVE  /\ Registers(h, d, r) \in HwRegs /\ Has(Registers(h, d, r), h, d)
         /\ Registers(h, d, r).dr6 = {}
<1>1. \A i \in Slots : DrValue(h[i].ea) \in Eas \cup {0}
  BY DEF DrValue, Bpt
<1> DEFINE dr == [i \in Slots |-> DrValue(h[i].ea)]
<1>2. dr \in [Slots -> Eas \cup {0}]
  BY <1>1
<1>3. Registers(h, d, r) = [dr |-> dr, ctl |-> d, dr6 |-> {}]
  BY DEF Registers
<1> HIDE DEF dr
<1>4. Registers(h, d, r) \in HwRegs
  BY <1>2, <1>3 DEF HwRegs
<1>5. Registers(h, d, r).dr = dr /\ Registers(h, d, r).ctl = d /\ Registers(h, d, r).dr6 = {}
  BY <1>3
<1> QED BY <1>4, <1>5 DEF Has, dr

\* What refresh_hwbpts leaves: the threads it reached have the table and a clear dr6, and
\* it has failed unless it reached them all.
LEMMA Refreshed ==
  ASSUME HwTyped, NEW h \in [Slots -> Bpt], NEW d \in [Slots -> Bits], Refresh(h, d)
  PROVE  /\ reached' \subseteq Threads /\ failed' \in BOOLEAN
         /\ ~failed' => ~failed /\ reached' = Threads
         /\ regs' \in [Tids -> HwRegs]
         /\ \A t \in reached' : Has(regs'[t], h, d) /\ regs'[t].dr6 = {}
         /\ \A t \in Tids : life[t] = "none" => regs'[t] = regs[t]
         /\ Succeeded <=> reached' = Threads
<1> DEFINE tids == {t \in Tids : life[t] # "none"}
           legal == \A i \in Slots : ~Refused(d[i].bits)
           ok == [t \in tids |-> life[t] = "alive" /\ legal]
           done == WrittenThreads(tids, ok)
           part(t) == t \in tids /\ life[t] = "alive" /\ \A u \in tids : u < t => ok[u]
<1>1. /\ regs' = [t \in Tids |-> IF t \in done THEN Registers(h, d, regs[t])
                                 ELSE IF part(t) THEN Registers(h, regs[t].ctl, regs[t])
                                 ELSE regs[t]]
      /\ reached' = done /\ failed' = (failed \/ done # tids)
  BY DEF Refresh
<1>2. done \subseteq tids /\ tids = Threads /\ tids \subseteq Tids
  BY DEF WrittenThreads, Threads
<1>3. \A t \in Tids : part(t) => t \in tids
  OBVIOUS
<1> HIDE DEF done, part, tids
<1>4. \A t \in Tids : regs[t] \in HwRegs /\ regs[t].ctl \in [Slots -> Bits]
  BY DEF HwTyped, HwRegs
<1>5. \A t \in Tids : /\ Registers(h, d, regs[t]) \in HwRegs
                      /\ Registers(h, regs[t].ctl, regs[t]) \in HwRegs
                      /\ Has(Registers(h, d, regs[t]), h, d) /\ Registers(h, d, regs[t]).dr6 = {}
  BY <1>4, RegistersAre
<1>6. regs' \in [Tids -> HwRegs]
  BY <1>1, <1>4, <1>5
<1>7. \A t \in done : regs'[t] = Registers(h, d, regs[t])
  BY <1>1, <1>2
<1>8. \A t \in Tids : life[t] = "none" => t \notin done /\ ~part(t)
  BY <1>2, <1>3 DEF Threads
<1>9. \A t \in Tids : life[t] = "none" => regs'[t] = regs[t]
  BY <1>1, <1>8
<1>10. failed' \in BOOLEAN /\ (~failed' => ~failed /\ done = tids)
  BY <1>1 DEF HwTyped
<1>11. \A t \in done : Has(regs'[t], h, d) /\ regs'[t].dr6 = {}
  BY <1>2, <1>5, <1>7
<1>12. Succeeded <=> reached' = Threads
  BY DEF Succeeded, Threads
<1> QED BY <1>1, <1>2, <1>6, <1>9, <1>10, <1>11, <1>12

\* The parts of the invariant that are about the threads hold after every refresh.
LEMMA RefreshInv ==
  ASSUME HwInv, hwbpt' \in [Slots -> Bpt], dr7' \in [Slots -> Bits], Refresh(hwbpt', dr7'),
         UNCHANGED <<life, touched, hea>>
  PROVE  /\ reached' \subseteq Tids /\ failed' \in BOOLEAN /\ regs' \in [Tids -> HwRegs]
         /\ ~failed' => ~failed
         /\ Succeeded \/ failed'
         /\ Reached' /\ Idle' /\ Uniform' /\ Hit'
<1> DEFINE h == hwbpt'
           d == dr7'
<1>1. HwTyped /\ Idle /\ h \in [Slots -> Bpt] /\ d \in [Slots -> Bits] /\ Refresh(h, d)
  BY DEF HwInv
<1>2. /\ reached' \subseteq Threads /\ failed' \in BOOLEAN
      /\ ~failed' => ~failed /\ reached' = Threads
      /\ regs' \in [Tids -> HwRegs]
      /\ \A t \in reached' : Has(regs'[t], h, d) /\ regs'[t].dr6 = {}
      /\ \A t \in Tids : life[t] = "none" => regs'[t] = regs[t]
      /\ Succeeded <=> reached' = Threads
  <2> HIDE DEF h, d
  <2> QED BY <1>1, Refreshed
<1>3. Threads' = Threads /\ Threads \subseteq Tids
  BY DEF Threads
<1>4. Reached'
  BY <1>2, <1>3 DEF Reached
<1>5. Idle'
  BY <1>1, <1>2 DEF Idle, Cleared
<1>6. Uniform'
  BY <1>2, <1>3 DEF Uniform
<1>7. Hit'
  <2>1. SUFFICES ASSUME ~failed', NEW t \in Tids, life'[t] = "alive" PROVE regs'[t].dr6 = {}
    BY DEF Hit
  <2>2. t \in reached'
    BY <2>1, <1>2 DEF Threads
  <2> QED BY <2>2, <1>2
<1> QED BY <1>2, <1>3, <1>4, <1>5, <1>6, <1>7

-----------------------------------------------------------------------------
(* The breakpoints of the client                                             *)

\* find_hwbpt_slot: a slot that is free.
LEMMA FoundSlot ==
  ASSUME HwTyped, NEW b, FindSlot(b) # 0
  PROVE  FindSlot(b) \in Slots /\ hwbpt[FindSlot(b)].ea = BADADDR
<1> DEFINE stops == {i \in Slots : hwbpt[i] = b \/ hwbpt[i].ea = BADADDR}
           first == CHOOSE i \in stops : \A j \in stops : i <= j
<1>1. FindSlot(b) = IF stops = {} \/ hwbpt[first] = b THEN 0 ELSE first
  BY DEF FindSlot
<1>2. stops # {} /\ hwbpt[first] # b /\ FindSlot(b) = first
  BY <1>1
<1>3. stops \in SUBSET Slots
  OBVIOUS
<1>4. first \in stops
  <2> HIDE DEF stops
  <2> QED BY <1>2, <1>3, FirstOfSlots
<1> QED BY <1>2, <1>4

LEMMA BitsAre ==
  ASSUME NEW type \in Types, NEW len \in Lens, type = BPT_SOFT => len = 1
  PROVE  [on |-> TRUE, bits |-> TypeBits(type, len)] \in Bits
<1>1. type \in {1, 2, 3, 4, 8} /\ len \in Nat
  BY HwAssumption
<1>2. TypeBits(type, len) = (IF type = 8 THEN 0 ELSE type)
                            + (IF len = 2 THEN 4 ELSE IF len = 4 THEN 12 ELSE 0)
  <2>1. (CASE len = 2 -> 4 [] len = 4 -> 12 [] OTHER -> 0)
           = IF len = 2 THEN 4 ELSE IF len = 4 THEN 12 ELSE 0
    BY <1>1
  <2> QED BY <2>1 DEF TypeBits, BPT_EXEC
<1>3. TypeBits(type, len) \in 0 .. 15
  BY <1>1, <1>2 DEF BPT_SOFT
<1> QED BY <1>3 DEF Bits

LEMMA AddInv ==
  ASSUME HwInv, NEW ea \in Eas, NEW type \in Types, NEW len \in Lens,
         AddHwbpt([ea |-> ea, type |-> type], len)
  PROVE  HwInv'
<1> DEFINE b == [ea |-> ea, type |-> type]
           i == FindSlot(b)
           v == [on |-> TRUE, bits |-> TypeBits(b.type, len)]
<1>1. /\ b \notin held /\ i # 0 /\ (b.type = BPT_SOFT => len = 1)
      /\ hwbpt' = [hwbpt EXCEPT ![i] = b] /\ dr7' = [dr7 EXCEPT ![i] = v]
      /\ Refresh(hwbpt', dr7')
      /\ held' = IF Succeeded THEN held \cup {b} ELSE held
      /\ UNCHANGED <<life, touched, hea>>
  BY DEF AddHwbpt
<1>2. HwTyped /\ Slotted /\ Tabled
  BY DEF HwInv
<1>3. b \in Bpt /\ b.ea # BADADDR /\ b \in [ea : Eas, type : Types] /\ b.type = type
  BY HwAssumption DEF Bpt, BADADDR
<1>4. v \in Bits /\ v.on
  BY <1>1, <1>3, BitsAre
<1> HIDE DEF v
<1>5. i \in Slots /\ hwbpt[i].ea = BADADDR
  BY <1>1, <1>2, FoundSlot
<1> HIDE DEF b, i
<1>6. hwbpt' \in [Slots -> Bpt] /\ dr7' \in [Slots -> Bits]
  BY <1>1, <1>2, <1>3, <1>4, <1>5 DEF HwTyped
<1>7. /\ reached' \subseteq Tids /\ failed' \in BOOLEAN /\ regs' \in [Tids -> HwRegs]
      /\ ~failed' => ~failed
      /\ Succeeded \/ failed'
      /\ Reached' /\ Idle' /\ Uniform' /\ Hit'
  BY <1>1, <1>6, RefreshInv
<1>8. held' \subseteq held \cup {b} /\ held \subseteq held' /\ (~failed' => b \in held')
  BY <1>1, <1>7
<1>9. HwTyped'
  BY <1>1, <1>2, <1>3, <1>6, <1>7, <1>8 DEF HwTyped
<1>10. \A j \in Slots : /\ hwbpt'[j] = IF j = i THEN b ELSE hwbpt[j]
                        /\ dr7'[j] = IF j = i THEN v ELSE dr7[j]
  BY <1>1, <1>2 DEF HwTyped
<1>11. Slotted'
  <2>1. SUFFICES ASSUME NEW c \in held' PROVE \E j \in Slots : hwbpt'[j] = c /\ dr7'[j].on
    BY DEF Slotted
  <2>2. CASE c = b
    BY <2>2, <1>4, <1>5, <1>10
  <2>3. CASE c # b
    <3>1. c \in held
      BY <2>3, <1>8
    <3>2. c.ea # BADADDR
      BY <3>1, <1>2, HwAssumption DEF HwTyped, BADADDR
    <3>3. PICK j \in Slots : hwbpt[j] = c /\ dr7[j].on
      BY <3>1, <1>2 DEF Slotted
    <3>4. j # i
      BY <3>2, <3>3, <1>5
    <3> QED BY <3>3, <3>4, <1>10
  <2> QED BY <2>2, <2>3
<1>12. Tabled'
  <2>1. SUFFICES ASSUME ~failed'
                 PROVE  /\ \A j \in Slots : dr7'[j].on <=> hwbpt'[j].ea # BADADDR
                        /\ \A j \in Slots : hwbpt'[j].ea # BADADDR => hwbpt'[j] \in held'
                        /\ \A j, k \in Slots : hwbpt'[j].ea # BADADDR /\ hwbpt'[j] = hwbpt'[k] => j = k
    BY DEF Tabled
  <2>2. /\ \A j \in Slots : dr7[j].on <=> hwbpt[j].ea # BADADDR
        /\ \A j \in Slots : hwbpt[j].ea # BADADDR => hwbpt[j] \in held
        /\ \A j, k \in Slots : hwbpt[j].ea # BADADDR /\ hwbpt[j] = hwbpt[k] => j = k
    BY <2>1, <1>2, <1>7 DEF Tabled
  <2>3. \A j \in Slots : dr7'[j].on <=> hwbpt'[j].ea # BADADDR
    BY <2>2, <1>3, <1>4, <1>10
  <2>4. \A j \in Slots : hwbpt'[j].ea # BADADDR => hwbpt'[j] \in held'
    BY <2>1, <2>2, <1>8, <1>10
  <2>5. \A j \in Slots : hwbpt[j] # b
    BY <2>2, <1>1, <1>3
  <2>6. \A j, k \in Slots : hwbpt'[j].ea # BADADDR /\ hwbpt'[j] = hwbpt'[k] => j = k
    BY <2>2, <2>5, <1>10
  <2> QED BY <2>3, <2>4, <2>6
<1> QED BY <1>7, <1>9, <1>11, <1>12 DEF HwInv

LEMMA DelInv ==
  ASSUME HwInv, NEW b \in held, DelHwbpt(b)
  PROVE  HwInv'
<1>1. PICK i \in Slots :
        /\ hwbpt[i] = b
        /\ hwbpt' = [hwbpt EXCEPT ![i].ea = BADADDR]
        /\ dr7' = SlotOff(i)
        /\ Refresh(hwbpt', dr7')
        /\ held' = held \ {b}
        /\ UNCHANGED <<life, touched, hea>>
  BY DEF DelHwbpt
<1>2. HwTyped /\ Slotted /\ Tabled
  BY DEF HwInv
<1> DEFINE e == [hwbpt[i] EXCEPT !.ea = BADADDR]
<1>3. e \in Bpt /\ e.ea = BADADDR /\ Off \in Bits /\ ~Off.on
  <2>1. hwbpt[i] \in Bpt
    BY <1>2 DEF HwTyped
  <2>2. e \in Bpt /\ e.ea = BADADDR
    BY <2>1 DEF Bpt
  <2> QED BY <2>2 DEF Off, Bits
<1>4. hwbpt' = [hwbpt EXCEPT ![i] = e] /\ dr7' = [dr7 EXCEPT ![i] = Off]
  BY <1>1 DEF SlotOff
<1> HIDE DEF e
<1>5. hwbpt' \in [Slots -> Bpt] /\ dr7' \in [Slots -> Bits]
  BY <1>2, <1>3, <1>4 DEF HwTyped
<1>6. /\ reached' \subseteq Tids /\ failed' \in BOOLEAN /\ regs' \in [Tids -> HwRegs]
      /\ ~failed' => ~failed
      /\ Reached' /\ Idle' /\ Uniform' /\ Hit'
  BY <1>1, <1>5, RefreshInv
<1>7. HwTyped'
  BY <1>1, <1>2, <1>5, <1>6 DEF HwTyped
<1>8. \A j \in Slots : /\ hwbpt'[j] = IF j = i THEN e ELSE hwbpt[j]
                       /\ dr7'[j] = IF j = i THEN Off ELSE dr7[j]
  BY <1>2, <1>4 DEF HwTyped
<1>9. Slotted'
  <2>1. SUFFICES ASSUME NEW c \in held' PROVE \E j \in Slots : hwbpt'[j] = c /\ dr7'[j].on
    BY DEF Slotted
  <2>2. PICK j \in Slots : hwbpt[j] = c /\ dr7[j].on
    BY <1>1, <1>2 DEF Slotted
  <2>3. j # i
    BY <2>2, <1>1
  <2> QED BY <2>2, <2>3, <1>8
<1>10. Tabled'
  <2>1. SUFFICES ASSUME ~failed'
                 PROVE  /\ \A j \in Slots : dr7'[j].on <=> hwbpt'[j].ea # BADADDR
                        /\ \A j \in Slots : hwbpt'[j].ea # BADADDR => hwbpt'[j] \in held'
                        /\ \A j, k \in Slots : hwbpt'[j].ea # BADADDR /\ hwbpt'[j] = hwbpt'[k] => j = k
    BY DEF Tabled
  <2>2. /\ \A j \in Slots : dr7[j].on <=> hwbpt[j].ea # BADADDR
        /\ \A j \in Slots : hwbpt[j].ea # BADADDR => hwbpt[j] \in held
        /\ \A j, k \in Slots : hwbpt[j].ea # BADADDR /\ hwbpt[j] = hwbpt[k] => j = k
    BY <2>1, <1>2, <1>6 DEF Tabled
  <2>3. \A j \in Slots : dr7'[j].on <=> hwbpt'[j].ea # BADADDR
    BY <2>2, <1>3, <1>8
  <2>4. \A j \in Slots : hwbpt'[j].ea # BADADDR => hwbpt'[j] \in held'
    BY <2>2, <1>1, <1>3, <1>8
  <2>5. \A j, k \in Slots : hwbpt'[j].ea # BADADDR /\ hwbpt'[j] = hwbpt'[k] => j = k
    BY <2>2, <1>3, <1>8
  <2> QED BY <2>3, <2>4, <2>5
<1> QED BY <1>6, <1>7, <1>9, <1>10 DEF HwInv

\* The table of a process that is gone is emptied for the next one.
LEMMA CleanupInv == ASSUME HwInv, CleanupHwbpts PROVE HwInv'
<1> DEFINE f == CHOOSE t \in Tids : \A u \in Tids : t <= u
<1>1. /\ \A t \in Tids : life[t] = "none"
      /\ hwbpt' = [i \in Slots |-> Free] /\ dr7' = [i \in Slots |-> Off]
      /\ held' = {} /\ failed' = FALSE /\ reached' = {}
      /\ life' = [life EXCEPT ![f] = "alive"] /\ UNCHANGED <<regs, touched>>
  BY DEF CleanupHwbpts
<1> HIDE DEF f
<1>2. HwTyped /\ Idle
  BY DEF HwInv
<1>3. Free \in Bpt /\ Off \in Bits /\ Free.ea = BADADDR /\ ~Off.on
  BY DEF Free, Off, Bpt, Bits
<1>4. HwTyped'
  <2>1. hwbpt' \in [Slots -> Bpt] /\ dr7' \in [Slots -> Bits]
    BY <1>1, <1>3
  <2>2. life' \in [Tids -> {"none", "alive", "zombie"}]
    BY <1>1, <1>2 DEF HwTyped
  <2> QED BY <2>1, <2>2, <1>1, <1>2 DEF HwTyped
<1>5. \A t \in Tids : regs'[t] = Cleared /\ touched'[t] = BADADDR /\ regs'[t].dr6 = {}
  BY <1>1, <1>2 DEF Idle, Cleared
<1>6. Reached' /\ Slotted'
  BY <1>1 DEF Reached, Slotted
<1>7. Tabled'
  BY <1>1, <1>3 DEF Tabled
<1>8. Idle'
  BY <1>5 DEF Idle, Cleared
<1>9. Uniform' /\ Hit'
  BY <1>5 DEF Uniform, Hit, Blank, Threads, Cleared
<1> QED BY <1>4, <1>6, <1>7, <1>8, <1>9 DEF HwInv

-----------------------------------------------------------------------------
(* The threads                                                               *)

LEMMA BirthInv == ASSUME HwInv, NEW t \in Tids, NEW u \in Tids, Birth(t, u) PROVE HwInv'
<1>1. /\ life[t] = "none" /\ life[u] = "alive" /\ life' = [life EXCEPT ![t] = "alive"]
      /\ UNCHANGED <<hwbpt, dr7, reached, held, failed, touched, hea>>
  BY DEF Birth
<1>2. PICK r \in {Cleared, [regs[u] EXCEPT !.dr6 = {}]} : regs' = [regs EXCEPT ![t] = r]
  BY DEF Birth
<1>3. HwTyped /\ Reached /\ Slotted /\ Tabled /\ Idle /\ Uniform /\ Hit
  BY DEF HwInv
<1>4. /\ r \in HwRegs /\ r.dr6 = {}
      /\ Blank(r) \/ (r.dr = regs[u].dr /\ r.ctl = regs[u].ctl)
  <2>1. CASE r = Cleared
    <3>1. Off \in Bits
      BY DEF Off, Bits
    <3>2. Cleared \in HwRegs
      BY <3>1 DEF Cleared, HwRegs
    <3> QED BY <2>1, <3>2 DEF Cleared, Blank
  <2>2. CASE r = [regs[u] EXCEPT !.dr6 = {}]
    BY <2>2, <1>3 DEF HwTyped, HwRegs
  <2> QED BY <2>1, <2>2
<1>5. \A w \in Tids : /\ life'[w] = IF w = t THEN "alive" ELSE life[w]
                      /\ regs'[w] = IF w = t THEN r ELSE regs[w]
  BY <1>1, <1>2, <1>3 DEF HwTyped
<1>6. HwTyped'
  BY <1>1, <1>2, <1>3, <1>4 DEF HwTyped
<1>7. t \notin reached /\ Threads' = Threads \cup {t} /\ u \in Threads
  BY <1>1, <1>3, <1>5 DEF Reached, Threads
<1>8. Reached'
  BY <1>1, <1>3, <1>5, <1>7 DEF Reached, Threads
<1>9. Slotted' /\ Tabled'
  BY <1>1, <1>3 DEF Slotted, Tabled
<1>10. Idle'
  BY <1>1, <1>3, <1>5 DEF Idle, Cleared
<1>11. Uniform'
  <2>1. SUFFICES ASSUME ~failed', NEW w \in Threads'
                 PROVE  Has(regs'[w], hwbpt, dr7) \/ Blank(regs'[w])
    BY <1>1 DEF Uniform, Blank, Cleared
  <2>2. \A x \in Threads : Has(regs[x], hwbpt, dr7) \/ Blank(regs[x])
    BY <2>1, <1>1, <1>3 DEF Uniform
  <2>3. CASE w = t
    <3>1. Has(regs[u], hwbpt, dr7) \/ Blank(regs[u])
      BY <2>2, <1>7
    <3>2. Has(r, hwbpt, dr7) \/ Blank(r)
      BY <3>1, <1>4 DEF Has, Blank
    <3> QED BY <2>3, <3>2, <1>5
  <2>4. CASE w # t
    BY <2>2, <2>4, <1>5, <1>7 DEF Threads
  <2> QED BY <2>3, <2>4
<1>12. Hit'
  BY <1>1, <1>3, <1>4, <1>5 DEF Hit
<1> QED BY <1>6, <1>8, <1>9, <1>10, <1>11, <1>12 DEF HwInv

LEMMA DiesInv == ASSUME HwInv, NEW t \in Tids, Dies(t) PROVE HwInv'
<1>1. /\ life[t] = "alive" /\ life' = [life EXCEPT ![t] = "zombie"]
      /\ touched' = [touched EXCEPT ![t] = BADADDR]
      /\ UNCHANGED <<hwbpt, dr7, regs, reached, held, failed, hea>>
  BY DEF Dies
<1>2. HwTyped /\ Reached /\ Slotted /\ Tabled /\ Idle /\ Uniform /\ Hit
  BY DEF HwInv
<1>3. \A w \in Tids : /\ life'[w] = IF w = t THEN "zombie" ELSE life[w]
                      /\ touched'[w] = IF w = t THEN BADADDR ELSE touched[w]
  BY <1>1, <1>2 DEF HwTyped
<1>4. HwTyped'
  BY <1>1, <1>2 DEF HwTyped
<1>5. Threads' = Threads
  BY <1>1, <1>3 DEF Threads
<1>6. Reached' /\ Slotted' /\ Tabled' /\ Uniform'
  BY <1>1, <1>2, <1>5 DEF Reached, Slotted, Tabled, Uniform, Blank, Cleared
<1>7. Idle' /\ Hit'
  BY <1>1, <1>2, <1>3 DEF Idle, Hit, Cleared
<1> QED BY <1>4, <1>6, <1>7 DEF HwInv

LEMMA ReapedInv == ASSUME HwInv, NEW t \in Tids, Reaped(t) PROVE HwInv'
<1>1. /\ life[t] = "zombie" /\ life' = [life EXCEPT ![t] = "none"]
      /\ regs' = [regs EXCEPT ![t] = Cleared] /\ reached' = reached \ {t}
      /\ UNCHANGED <<hwbpt, dr7, held, failed, touched, hea>>
  BY DEF Reaped
<1>2. HwTyped /\ Reached /\ Slotted /\ Tabled /\ Idle /\ Uniform /\ Hit
  BY DEF HwInv
<1>3. \A w \in Tids : /\ life'[w] = IF w = t THEN "none" ELSE life[w]
                      /\ regs'[w] = IF w = t THEN Cleared ELSE regs[w]
  BY <1>1, <1>2 DEF HwTyped
<1>4. HwTyped'
  <2>1. Off \in Bits
    BY DEF Off, Bits
  <2>2. Cleared \in HwRegs
    BY <2>1 DEF Cleared, HwRegs
  <2> QED BY <2>2, <1>1, <1>2 DEF HwTyped
<1>5. Threads' = Threads \ {t} /\ Threads' \subseteq Tids
  BY <1>3 DEF Threads
<1>6. Reached'
  BY <1>1, <1>2, <1>3, <1>5 DEF Reached
<1>7. Slotted' /\ Tabled'
  BY <1>1, <1>2 DEF Slotted, Tabled
<1>8. Uniform'
  BY <1>1, <1>2, <1>3, <1>5 DEF Uniform, Blank, Cleared
<1>9. Idle'
  BY <1>1, <1>2, <1>3 DEF Idle
<1>10. Hit'
  <2>1. \A w \in Tids : life'[w] = "alive" => life[w] = "alive" /\ regs'[w] = regs[w]
    BY <1>1, <1>3
  <2> QED BY <2>1, <1>1, <1>2 DEF Hit
<1> QED BY <1>4, <1>6, <1>7, <1>8, <1>9, <1>10 DEF HwInv

\* Only dr6 of thread t changes, and what it touched.
LEMMA Dr6Inv ==
  ASSUME HwInv, NEW t \in Tids, life[t] = "alive",
         NEW s \in SUBSET Slots, NEW a \in Eas \cup {BADADDR},
         regs' = [regs EXCEPT ![t].dr6 = s], touched' = [touched EXCEPT ![t] = a],
         ~failed => \A i \in s : a # BADADDR /\ regs[t].dr[i] = a /\ regs[t].ctl[i].on,
         UNCHANGED <<hwbpt, dr7, life, reached, held, failed>>
  PROVE  HwInv'
<1>1. HwTyped /\ Reached /\ Slotted /\ Tabled /\ Idle /\ Uniform /\ Hit
  BY DEF HwInv
<1> DEFINE r == [regs[t] EXCEPT !.dr6 = s]
<1>2. r \in HwRegs /\ r.dr = regs[t].dr /\ r.ctl = regs[t].ctl /\ r.dr6 = s
  BY <1>1 DEF HwTyped, HwRegs
<1>3. regs' = [regs EXCEPT ![t] = r]
  OBVIOUS
<1> HIDE DEF r
<1>4. \A w \in Tids : /\ regs'[w] = IF w = t THEN r ELSE regs[w]
                      /\ touched'[w] = IF w = t THEN a ELSE touched[w]
  BY <1>1, <1>3 DEF HwTyped
<1>5. HwTyped'
  BY <1>1, <1>2, <1>3 DEF HwTyped
<1>6. Threads' = Threads /\ Threads \subseteq Tids
  BY DEF Threads
<1>7. \A w \in Tids : regs'[w].dr = regs[w].dr /\ regs'[w].ctl = regs[w].ctl
  BY <1>2, <1>4
<1>8. Reached'
  BY <1>1, <1>6, <1>7 DEF Reached, Has
<1>9. Slotted' /\ Tabled'
  BY <1>1 DEF Slotted, Tabled
<1>10. Uniform'
  BY <1>1, <1>6, <1>7 DEF Uniform, Has, Blank, Cleared
<1>11. Idle'
  BY <1>1, <1>4 DEF Idle, Cleared
<1>12. Hit'
  BY <1>1, <1>2, <1>4 DEF Hit
<1> QED BY <1>5, <1>8, <1>9, <1>10, <1>11, <1>12 DEF HwInv

LEMMA TouchInv == ASSUME HwInv, NEW t \in Tids, NEW ea \in Eas, Touch(t, ea) PROVE HwInv'
<1> DEFINE hit == {i \in Armed(t) : regs[t].dr[i] = ea}
           s == regs[t].dr6 \cup hit
<1>1. /\ life[t] = "alive" /\ touched[t] = BADADDR
      /\ touched' = [touched EXCEPT ![t] = ea]
      /\ regs' = [regs EXCEPT ![t].dr6 = s]
      /\ UNCHANGED <<hwbpt, dr7, life, reached, held, failed, hea>>
  BY DEF Touch
<1>2. HwTyped /\ Hit
  BY DEF HwInv
<1>3. s \in SUBSET Slots
  BY <1>2 DEF HwTyped, HwRegs, Armed
<1>4. ea # BADADDR
  BY HwAssumption DEF BADADDR
<1>5. ~failed => regs[t].dr6 = {}
  BY <1>1, <1>2 DEF Hit
<1>6. \A i \in hit : regs[t].dr[i] = ea /\ regs[t].ctl[i].on
  BY DEF Armed
<1>7. ~failed => \A i \in s : ea # BADADDR /\ regs[t].dr[i] = ea /\ regs[t].ctl[i].on
  BY <1>4, <1>5, <1>6
<1> HIDE DEF s, hit
<1> QED BY <1>1, <1>3, <1>7, Dr6Inv

\* While no refresh has failed, what dr6 says is about the breakpoint in the slot.
LEMMA HitsMatch ==
  ASSUME HwInv, ~failed, NEW t \in Tids, life[t] = "alive", NEW i \in regs[t].dr6
  PROVE  i \in Slots /\ Matches(t, i) /\ hwbpt[i].ea = touched[t]
<1>1. /\ touched[t] # BADADDR /\ regs[t].dr[i] = touched[t] /\ regs[t].ctl[i].on
      /\ i \in Slots /\ t \in Threads
  BY DEF HwInv, Hit, HwTyped, HwRegs, Threads
<1>2. ~Blank(regs[t])
  BY <1>1 DEF Blank, Cleared, Off
<1>3. regs[t].dr[i] = DrValue(hwbpt[i].ea) /\ dr7[i].on
  BY <1>1, <1>2 DEF HwInv, Uniform, Has
<1>4. hwbpt[i].ea # BADADDR
  BY <1>1, <1>3 DEF HwInv, Tabled
<1> QED BY <1>1, <1>3, <1>4 DEF Matches, DrValue

LEMMA HandleInv == ASSUME HwInv, NEW t \in Tids, HandleHwbpt(t) PROVE HwInv'
<1> DEFINE hits == {i \in Slots : Matches(t, i)}
<1>1. /\ life[t] = "alive" /\ touched' = [touched EXCEPT ![t] = BADADDR]
      /\ (regs' = regs /\ hits = {}) \/ regs' = [regs EXCEPT ![t].dr6 = {}]
      /\ UNCHANGED <<hwbpt, dr7, life, reached, held, failed>>
  BY DEF HandleHwbpt
<1>2. CASE regs' = regs /\ hits = {}
  <2>1. ~failed => regs[t].dr6 = {}
    BY <1>1, <1>2, HitsMatch
  <2>2. regs[t] \in HwRegs
    BY DEF HwInv, HwTyped
  <2>3. regs[t].dr6 \in SUBSET Slots /\ regs[t] = [regs[t] EXCEPT !.dr6 = regs[t].dr6]
    BY <2>2 DEF HwRegs
  <2>4. regs' = [regs EXCEPT ![t].dr6 = regs[t].dr6]
    BY <2>3, <1>2 DEF HwInv, HwTyped
  <2> DEFINE s == regs[t].dr6
  <2>5. s \in SUBSET Slots /\ regs' = [regs EXCEPT ![t].dr6 = s] /\ (~failed => s = {})
    BY <2>1, <2>3, <2>4
  <2> HIDE DEF s
  <2> QED BY <2>5, <1>1, Dr6Inv
<1>3. CASE regs' = [regs EXCEPT ![t].dr6 = {}]
  <2> DEFINE s == {}
  <2>1. s \in SUBSET Slots /\ regs' = [regs EXCEPT ![t].dr6 = s] /\ s = {}
    BY <1>3
  <2> HIDE DEF s
  <2> QED BY <2>1, <1>1, Dr6Inv
<1> QED BY <1>1, <1>2, <1>3

-----------------------------------------------------------------------------
(* The invariant holds                                                       *)

LEMMA HwInitInv == HwInit => HwInv
<1> SUFFICES ASSUME HwInit PROVE HwInv
  OBVIOUS
<1>1. Free \in Bpt /\ Off \in Bits /\ Free.ea = BADADDR /\ ~Off.on
  BY DEF Free, Off, Bpt, Bits
<1>2. Cleared \in HwRegs /\ Cleared.dr6 = {} /\ Blank(Cleared)
  BY <1>1 DEF Cleared, HwRegs, Blank
<1>3. HwTyped
  BY <1>1, <1>2 DEF HwInit, HwTyped
<1>4. Reached /\ Slotted
  BY DEF HwInit, Reached, Slotted
<1>5. Tabled
  BY <1>1 DEF HwInit, Tabled
<1>6. \A t \in Tids : regs[t] = Cleared /\ touched[t] = BADADDR
  BY DEF HwInit
<1>7. Idle /\ Uniform /\ Hit
  BY <1>2, <1>6 DEF Idle, Uniform, Hit, Threads
<1> QED BY <1>3, <1>4, <1>5, <1>7 DEF HwInv

LEMMA HwStutterInv == ASSUME HwInv, UNCHANGED hwVars PROVE HwInv'
BY DEF HwInv, hwVars, HwTyped, Reached, Slotted, Tabled, Idle, Uniform, Hit, Has, Blank, Threads,
       Cleared

LEMMA HwNextInv == HwInv /\ [HwNext]_hwVars => HwInv'
<1> SUFFICES ASSUME HwInv, [HwNext]_hwVars PROVE HwInv'
  OBVIOUS
<1>1. ASSUME NEW ea \in Eas, NEW type \in Types, NEW len \in Lens,
             AddHwbpt([ea |-> ea, type |-> type], len)
      PROVE  HwInv'
  BY <1>1, AddInv
<1>2. ASSUME NEW b \in held, DelHwbpt(b) PROVE HwInv'
  BY <1>2, DelInv
<1>3. ASSUME NEW t \in Tids, NEW u \in Tids, Birth(t, u) PROVE HwInv'
  BY <1>3, BirthInv
<1>4. ASSUME NEW t \in Tids, Dies(t) \/ Reaped(t) \/ HandleHwbpt(t) PROVE HwInv'
  BY <1>4, DiesInv, ReapedInv, HandleInv
<1>5. ASSUME NEW t \in Tids, NEW ea \in Eas, Touch(t, ea) PROVE HwInv'
  BY <1>5, TouchInv
<1> QED BY <1>1, <1>2, <1>3, <1>4, <1>5, CleanupInv, HwStutterInv DEF HwNext

\* The inductive invariant holds in every state.
THEOREM HwInvariance == HwSpec => []HwInv
BY HwInitInv, HwNextInv, PTL DEF HwSpec

-----------------------------------------------------------------------------
(* What follows from it                                                      *)

\* Every variable has its type, whatever the number of registers and threads.
THEOREM HwTypeCorrect == HwSpec => []HwTypeOK
<1>1. HwInv => HwTypeOK
  BY DEF HwInv, HwTyped, HwTypeOK, Bpt, Bits, HwRegs
<1> QED BY <1>1, HwInvariance, PTL

LEMMA Armed1 == HwInv => HeldAreArmed
<1> SUFFICES ASSUME HwInv, NEW b \in held, NEW t \in reached
             PROVE  \E i \in Armed(t) : regs[t].dr[i] = b.ea /\ hwbpt[i] = b
  BY DEF HeldAreArmed
<1>1. PICK i \in Slots : hwbpt[i] = b /\ dr7[i].on
  BY DEF HwInv, Slotted
<1>2. b.ea # BADADDR
  BY HwAssumption DEF HwInv, HwTyped, BADADDR
<1>3. regs[t].dr[i] = DrValue(hwbpt[i].ea) /\ regs[t].ctl = dr7
  BY DEF HwInv, Reached, Has
<1>4. regs[t].dr[i] = b.ea /\ i \in Armed(t)
  BY <1>1, <1>2, <1>3 DEF DrValue, Armed
<1> QED BY <1>1, <1>4

LEMMA Table1 == HwInv => TableIsHeld
<1> SUFFICES ASSUME HwInv, ~failed
             PROVE  /\ {hwbpt[i] : i \in {j \in Slots : hwbpt[j].ea # BADADDR}} = held
                    /\ \A i \in Slots : dr7[i].on <=> hwbpt[i].ea # BADADDR
                    /\ \A b \in held : Cardinality({i \in Slots : hwbpt[i] = b}) = 1
  BY DEF TableIsHeld
<1>1. /\ \A i \in Slots : dr7[i].on <=> hwbpt[i].ea # BADADDR
      /\ \A i \in Slots : hwbpt[i].ea # BADADDR => hwbpt[i] \in held
      /\ \A i, j \in Slots : hwbpt[i].ea # BADADDR /\ hwbpt[i] = hwbpt[j] => i = j
  BY DEF HwInv, Tabled
<1>2. \A b \in held : b.ea # BADADDR /\ \E i \in Slots : hwbpt[i] = b
  BY HwAssumption DEF HwInv, HwTyped, Slotted, BADADDR
<1>3. {hwbpt[i] : i \in {j \in Slots : hwbpt[j].ea # BADADDR}} = held
  BY <1>1, <1>2
<1>4. ASSUME NEW b \in held PROVE Cardinality({i \in Slots : hwbpt[i] = b}) = 1
  <2>1. PICK i \in Slots : hwbpt[i] = b
    BY <1>2
  <2>2. {j \in Slots : hwbpt[j] = b} = {i}
    BY <2>1, <1>1, <1>2
  <2> QED BY <2>2, FS_Singleton
<1> QED BY <1>1, <1>3, <1>4

\* The table, the registers of the threads and the breakpoints of the client agree, for
\* any number of registers and threads that are born and die between the writes.
THEOREM BreakpointsHold == HwSpec => []HardwareBreakpointsHold
<1>1. HwInv => HardwareBreakpointsHold
  BY Armed1, Table1 DEF HardwareBreakpointsHold
<1> QED BY <1>1, HwInvariance, PTL

LEMMA Reports1 == ASSUME HwInv, [HwNext]_hwVars PROVE ReportsWhereTouched
<1> SUFFICES ASSUME NEW t \in Tids, ~failed, touched[t] # BADADDR, touched'[t] = BADADDR,
                    life'[t] = "alive"
             PROVE  hea' \in {touched[t], BADADDR}
  BY DEF ReportsWhereTouched
<1>1. HwTyped /\ Idle
  BY DEF HwInv
<1>2. touched' # touched
  OBVIOUS
<1>3. PICK u \in Tids : \/ Dies(u) \/ HandleHwbpt(u)
                        \/ \E ea \in Eas : Touch(u, ea)
  BY <1>2 DEF HwNext, hwVars, AddHwbpt, DelHwbpt, CleanupHwbpts, Birth, Reaped
<1>4. u = t
  BY <1>1, <1>3 DEF HwTyped, Dies, HandleHwbpt, Touch
<1>5. ~Dies(t) /\ \A ea \in Eas : ~Touch(t, ea)
  BY <1>1 DEF HwTyped, Dies, Touch
<1>6. HandleHwbpt(t)
  BY <1>3, <1>4, <1>5
<1> DEFINE hits == {i \in Slots : Matches(t, i)}
           j == CHOOSE k \in hits : \A l \in hits : k <= l
<1>7. life[t] = "alive" /\ IF hits = {} THEN hea' = BADADDR ELSE hea' = hwbpt[j].ea
  BY <1>6 DEF HandleHwbpt
<1>8. CASE hits # {}
  <2>1. j \in hits
    <3>1. hits \in SUBSET Slots
      OBVIOUS
    <3> HIDE DEF hits
    <3> QED BY <1>8, <3>1, FirstOfSlots
  <2>2. j \in regs[t].dr6
    BY <2>1 DEF Matches
  <2> HIDE DEF j
  <2>3. hwbpt[j].ea = touched[t]
    BY <2>2, <1>7, HitsMatch
  <2> QED BY <2>3, <1>7, <1>8
<1> QED BY <1>7, <1>8

\* The address of a breakpoint event is the one whose access stopped the thread, whoever
\* has the slot by now.
THEOREM ReportsTrue == HwSpec => [][ReportsWhereTouched]_hwVars
<1>1. HwInv /\ [HwNext]_hwVars => [ReportsWhereTouched]_hwVars
  BY Reports1
<1> QED BY <1>1, HwInvariance, PTL DEF HwSpec

=============================================================================
