--------------------------- MODULE Requests_proofs ---------------------------
(***************************************************************************)
(* Proofs about the two requests that leave something behind in the server *)
(* for a later one.                                                        *)
(*                                                                         *)
(* Appcall, for every width of an address, every stack, every size of the  *)
(* arguments and any number of calls in one another: the stack pointers    *)
(* that were saved descend, and a call that is not refused as an underflow *)
(* writes between its own and the new one, so addresses do not wrap.       *)
(*                                                                         *)
(* RemoteFiles, for every number of channels and files: a stream that is   *)
(* alone shares its file with no other, so only its own requests change    *)
(* the file, and what it keeps to itself completes what it was given.      *)
(***************************************************************************)
EXTENDS Appcall, RemoteFiles, FiniteSetTheorems, WellFoundedInduction, SequenceTheorems, TLAPS

-----------------------------------------------------------------------------
(* Appcalls: the inductive invariant                                         *)

Cpu == [sp : 0 .. AddrSpace - 1, code : 0 .. MaxCalls]
Ctx == [saved : Cpu, org : 0 .. AddrSpace - 1, ctrl_ea : Int, spoiled : BOOLEAN]

Waiting == [err : {"E_OK", "E_TIMEOUT"}, depth : 1 .. MaxCalls]

Typed ==
    /\ cpu \in Cpu /\ calls \in Seq(Ctx) /\ open \in Seq(Cpu) /\ Len(calls) <= MaxCalls
    /\ outer \in Seq(Waiting)
    /\ loop \in {"none", "E_OK", "E_TIMEOUT"} /\ eid \in {"EXCEPTION", "OTHER"}
    /\ skip \in Skips /\ broken \in BOOLEAN /\ write \subseteq Int

\* A call in progress has a context, and a loop that runs is of a call in progress.
Counted == Len(open) <= Len(calls) /\ (loop # "none" => Len(open) >= 1)

\* Every context was spoiled, and the saved stack pointers descend.
Descends(s, p) ==
    \A i \in 1 .. Len(s) :
       /\ s[i].spoiled /\ s[i].org = s[i].saved.sp /\ s[i].org >= 20
       /\ p <= s[i].saved.sp
       /\ \A j \in i .. Len(s) : s[j].saved.sp <= s[i].saved.sp
Nested == Descends(calls, cpu.sp)

\* While the registers can be restored, contexts and registers are those of the calls.
CodesOf(s) == \A i \in 1 .. Len(s) : s[i].saved.code = i - 1
Kept(s, o) == \A i \in 1 .. Len(o) : s[i].saved = o[i]
Based(s, p) == IF s = << >> THEN p \in Sps ELSE s[1].saved.sp \in Sps
Orderly ==
    ~broken => /\ Len(calls) = Len(open) /\ Kept(calls, open)
               /\ cpu.code = Len(calls) /\ CodesOf(calls) /\ Based(calls, cpu.sp)

\* What was written is below every stack that was saved.
Apart ==
    /\ \A a \in write : a >= 0
    /\ loop # "none" \/ outer # << >> =>
          \A a \in write, i \in 1 .. Len(calls) : a < calls[i].saved.sp

AppInv == Typed /\ Counted /\ Nested /\ Orderly /\ Apart

-----------------------------------------------------------------------------
(* Sequences and addresses                                                   *)

LEMMA Popped ==
  ASSUME NEW S, NEW s \in Seq(S), s # << >>
  PROVE  /\ Pop(s) \in Seq(S) /\ Len(Pop(s)) = Len(s) - 1 /\ Len(s) >= 1
         /\ \A i \in 1 .. Len(s) - 1 : Pop(s)[i] = s[i]
         /\ Top(s) = s[Len(s)] /\ Top(s) \in S
<1>1. Len(s) \in Nat /\ Len(s) >= 1
  BY EmptySeq
<1> DEFINE n == Len(s) - 1
<1>2. n \in Int /\ n \in Nat /\ \A i \in 1 .. n : s[i] \in S
  BY <1>1
<1>3. /\ Pop(s) \in Seq(S) /\ Len(Pop(s)) = n
      /\ \A i \in 1 .. n : Pop(s)[i] = s[i]
  <2>1. Pop(s) = SubSeq(s, 1, n)
    BY DEF Pop
  <2> HIDE DEF n
  <2>2. /\ SubSeq(s, 1, n) \in Seq(S) /\ Len(SubSeq(s, 1, n)) = IF 1 <= n THEN n - 1 + 1 ELSE 0
        /\ \A i \in 1 .. n - 1 + 1 : SubSeq(s, 1, n)[i] = s[1 + i - 1]
    BY <1>2, SubSeqProperties
  <2>3. n - 1 + 1 = n /\ \A i \in 1 .. n : 1 + i - 1 = i
    BY <1>2
  <2> QED BY <2>1, <2>2, <2>3, <1>2
<1>4. Top(s) = s[Len(s)] /\ Top(s) \in S
  BY <1>1 DEF Top
<1> QED BY <1>1, <1>3, <1>4

LEMMA Appended ==
  ASSUME NEW S, NEW s \in Seq(S), NEW e \in S
  PROVE  /\ Append(s, e) \in Seq(S) /\ Len(Append(s, e)) = Len(s) + 1 /\ Append(s, e) # << >>
         /\ \A i \in 1 .. Len(s) : Append(s, e)[i] = s[i]
         /\ Append(s, e)[Len(s) + 1] = e /\ Top(Append(s, e)) = e
         /\ Pop(Append(s, e)) = s
<1>1. Pop(Append(s, e)) = s
  <2>1. Pop(Append(s, e)) \in Seq(S) /\ Len(Pop(Append(s, e))) = Len(s)
    BY DEF Pop
  <2>2. \A i \in 1 .. Len(s) : Pop(Append(s, e))[i] = s[i]
    BY DEF Pop
  <2> DEFINE p == Pop(Append(s, e))
  <2> HIDE DEF p
  <2>3. p \in Seq(S) /\ Len(p) = Len(s) /\ \A i \in 1 .. Len(s) : p[i] = s[i]
    BY <2>1, <2>2 DEF p
  <2>4. p = s
    BY <2>3
  <2> QED BY <2>4 DEF p
<1> QED BY <1>1 DEF Top

LEMMA SmallMod == ASSUME NEW A \in Nat, NEW x \in Int, 0 <= x, x < A PROVE x % A = x
BY SMT

LEMMA BelowMod == ASSUME NEW A \in Nat, A > 0, NEW x \in Int, 0 > x, x >= -A PROVE x % A = x + A
BY SMT

LEMMA OnBoundary ==
  ASSUME NEW x \in Nat
  PROVE  (x - (x % 16)) % 16 = 0 /\ x % 16 \in 0 .. 15 /\ x - (x % 16) \in Nat
OBVIOUS

LEMMA AlignedUp ==
  ASSUME NEW n \in Nat
  PROVE  AlignUp(n, addrsize) \in Nat /\ n <= AlignUp(n, addrsize) /\ AlignUp(n, addrsize) <= n + 3
BY DEF AlignUp, addrsize

\* The frame of a call that is no underflow: below the stack pointer, without wrapping.
LEMMA Frame ==
  ASSUME NEW org \in 0 .. AddrSpace - 1, NEW size \in Nat, size + 32 <= AddrSpace, Fits(org, size)
  PROVE  /\ org >= 20 /\ CallSp(org, size) \in 12 .. org - 4
         /\ (CallSp(org, size) + addrsize) % 16 = 0
         /\ CtrlEa(org, size) \in Nat /\ CtrlEa(org, size) + 3 < org
<1> DEFINE up == AlignUp(size, addrsize)
           x == org - 4 - up
           s == x - (x % 16)
<1>1. up \in Nat /\ up <= size + 3 /\ AddrSpace \in Nat /\ org \in Nat /\ org < AddrSpace
  BY AlignedUp, AppcallAssumption
<1>2. ArgsSp(org, size) = LET a == Sub(Sub(org, 4), up) IN a - (a % 16)
  BY DEF ArgsSp, addrsize
<1>3. CallSp(org, size) = (ArgsSp(org, size) - 4) % AddrSpace
  BY DEF CallSp, Sub, addrsize
<1>4. CtrlEa(org, size) = (ArgsSp(org, size) + up) % AddrSpace
  BY DEF CtrlEa
<1> HIDE DEF up
<1>5. CASE org < 4
  <2>1. Sub(org, 4) = org - 4 + AddrSpace
    BY <1>1, <1>5, BelowMod DEF Sub
  <2> DEFINE y == org - 4 + AddrSpace - up
             z == y - (y % 16)
  <2>2. y \in Nat /\ y < AddrSpace /\ y >= org + 25
    BY <1>1, <1>5
  <2>3. Sub(Sub(org, 4), up) = y
    BY <2>1, <2>2, <1>1, SmallMod DEF Sub
  <2>4. z \in Nat /\ y - z <= 15 /\ z <= y
    BY <2>2, OnBoundary
  <2>5. ArgsSp(org, size) = z
    BY <2>3, <1>2
  <2> HIDE DEF z, y
  <2>6. z - 4 \in Int /\ 0 <= z - 4 /\ z - 4 < AddrSpace /\ z - 4 >= org
    BY <2>2, <2>4, <1>1
  <2>7. CallSp(org, size) = z - 4
    BY <2>5, <2>6, <1>1, <1>3, SmallMod
  <2>8. FALSE
    BY <2>6, <2>7, <1>1 DEF Fits
  <2> QED BY <2>8
<1>6. CASE org >= 4 /\ x < 0
  <2>1. Sub(org, 4) = org - 4
    BY <1>1, <1>6, SmallMod DEF Sub
  <2> DEFINE y == x + AddrSpace
             z == y - (y % 16)
  <2>2. x \in Int /\ 0 > x /\ x >= -AddrSpace /\ y \in Nat /\ y < AddrSpace /\ y >= org + 25
    BY <1>1, <1>6
  <2>3. Sub(Sub(org, 4), up) = x % AddrSpace
    BY <2>1, <1>1 DEF Sub
  <2>4. x % AddrSpace = y
    <3> HIDE DEF x
    <3> QED BY <2>2, <1>1, BelowMod
  <2>5. z \in Nat /\ y - z <= 15 /\ z <= y
    BY <2>2, OnBoundary
  <2>6. ArgsSp(org, size) = z
    BY <2>3, <2>4, <1>2
  <2> HIDE DEF z, y
  <2>7. z - 4 \in Int /\ 0 <= z - 4 /\ z - 4 < AddrSpace /\ z - 4 >= org
    BY <2>2, <2>5, <1>1
  <2>8. CallSp(org, size) = z - 4
    BY <2>6, <2>7, <1>1, <1>3, SmallMod
  <2>9. FALSE
    BY <2>7, <2>8, <1>1 DEF Fits
  <2> QED BY <2>9
<1>7. CASE org >= 4 /\ x >= 0
  <2>1. Sub(org, 4) = org - 4 /\ x \in Nat /\ x < AddrSpace
    BY <1>1, <1>7, SmallMod DEF Sub
  <2>2. Sub(Sub(org, 4), up) = x
    BY <2>1, <1>1, SmallMod DEF Sub
  <2>3. s \in Nat /\ s % 16 = 0 /\ s <= x
    BY <2>1, OnBoundary
  <2>4. ArgsSp(org, size) = s
    BY <2>2, <1>2
  <2>5. s + up <= org - 4
    <3> HIDE DEF s
    <3> QED BY <2>3, <1>1, <1>7
  <2>6. s \in Nat /\ s % 16 = 0 /\ s <= org - 4 /\ x - s <= 15 /\ x = org - 4 - up
    BY <2>3, <2>5, <2>1, <1>1, OnBoundary
  <2> HIDE DEF s, x
  <2>7. CASE s < 16
    <3>1. s = 0
      BY <2>6, <2>7
    <3>2. s - 4 \in Int /\ 0 > s - 4 /\ s - 4 >= -AddrSpace /\ s - 4 + AddrSpace = AddrSpace - 4
      BY <3>1, <1>1
    <3>3. CallSp(org, size) = AddrSpace - 4
      BY <3>2, <2>4, <1>1, <1>3, BelowMod
    <3>4. org > AddrSpace - 4
      BY <3>3, <1>1 DEF Fits
    <3>5. org <= 19 + up
      BY <3>1, <2>6, <1>1, <2>1
    <3> QED BY <3>4, <3>5, <1>1
  <2>8. CASE s >= 16
    <3>1. CallSp(org, size) = s - 4
      BY <2>4, <2>6, <2>8, <1>1, <1>3, SmallMod
    <3>2. CtrlEa(org, size) = s + up
      BY <2>4, <2>5, <2>6, <1>1, <1>4, SmallMod
    <3>3. CallSp(org, size) + addrsize = s
      BY <3>1, <2>6 DEF addrsize
    <3> QED BY <3>1, <3>2, <3>3, <2>5, <2>6, <2>8, <1>1
  <2> QED BY <2>6, <2>7, <2>8
<1> QED BY <1>1, <1>5, <1>6, <1>7

-----------------------------------------------------------------------------
(* Contexts that come and go                                                 *)

LEMMA ConstantsAre ==
  /\ AddrSpace \in Nat /\ MaxCalls \in Nat
  /\ \A n \in 0 .. AddrSpace - 1 : n \in Int
  /\ \A s \in Skips : s \in {0, 4}
BY AppcallAssumption

\* The new context of a call that is no underflow.
LEMMA ContextIs ==
  ASSUME Typed, NEW size \in Nat, size + 32 <= AddrSpace, Fits(cpu.sp, size),
         NEW c, c = [Context(cpu.sp, size) EXCEPT !.spoiled = TRUE]
  PROVE  /\ c \in Ctx /\ c.spoiled /\ c.saved = cpu /\ c.org = c.saved.sp /\ c.org >= 20
<1>1. cpu \in Cpu /\ cpu.sp \in 0 .. AddrSpace - 1
  BY DEF Typed, Cpu
<1>2. cpu.sp >= 20 /\ CtrlEa(cpu.sp, size) \in Nat
  BY <1>1, Frame
<1> DEFINE ea == CtrlEa(cpu.sp, size)
<1>3. c = [saved |-> cpu, org |-> cpu.sp, ctrl_ea |-> ea, spoiled |-> TRUE]
  BY DEF Context
<1>4. ea \in Int
  BY <1>2
<1> DEFINE p == cpu.sp
           k == cpu
<1>5. p \in 0 .. AddrSpace - 1 /\ p >= 20 /\ k \in Cpu /\ k.sp = p
  BY <1>1, <1>2
<1>6. c = [saved |-> k, org |-> p, ctrl_ea |-> ea, spoiled |-> TRUE]
  BY <1>3
<1>7. k = cpu
  OBVIOUS
<1> HIDE DEF ea, p, k
<1>8. c \in Ctx
  <2>1. [saved |-> k, org |-> p, ctrl_ea |-> ea, spoiled |-> TRUE] \in Ctx
    BY <1>4, <1>5, Zenon DEF Ctx
  <2> QED BY <2>1, <1>6
<1>9. c.saved = k /\ c.org = p /\ c.spoiled
  BY <1>6
<1> QED BY <1>5, <1>7, <1>8, <1>9

\* A context above the others.
LEMMA DescendsOn ==
  ASSUME NEW s \in Seq(Ctx), NEW p \in Int, NEW q \in Int, NEW c \in Ctx,
         Descends(s, p), q <= p, c.spoiled, c.org = c.saved.sp, c.org >= 20, c.saved.sp = p
  PROVE  Descends(Append(s, c), q)
<1> DEFINE a == Append(s, c)
<1>1. Len(s) \in Nat /\ Len(a) = Len(s) + 1 /\ a[Len(s) + 1] = c /\ \A i \in 1 .. Len(s) : a[i] = s[i]
  BY Appended
<1>2. \A i \in 1 .. Len(s) : s[i].saved.sp \in Int
  <2>1. \A i \in 1 .. Len(s) : s[i] \in Ctx
    OBVIOUS
  <2>2. \A x \in Ctx : x.saved.sp \in Int
    BY ConstantsAre DEF Ctx, Cpu
  <2> QED BY <2>1, <2>2
<1> HIDE DEF a
<1>3. \A i \in 1 .. Len(a) : i \in 1 .. Len(s) \/ i = Len(s) + 1
  BY <1>1
<1>4. ASSUME NEW i \in 1 .. Len(s)
      PROVE  /\ a[i].spoiled /\ a[i].org = a[i].saved.sp /\ a[i].org >= 20
             /\ q <= a[i].saved.sp
             /\ \A j \in i .. Len(a) : a[j].saved.sp <= a[i].saved.sp
  <2>1. a[i] = s[i] /\ p <= s[i].saved.sp /\ s[i].saved.sp \in Int
    BY <1>1, <1>2, <1>4 DEF Descends
  <2>2. s[i].spoiled /\ s[i].org = s[i].saved.sp /\ s[i].org >= 20
    BY <1>4 DEF Descends
  <2>3. q <= s[i].saved.sp
    BY <2>1
  <2>4. ASSUME NEW j \in i .. Len(a) PROVE a[j].saved.sp <= a[i].saved.sp
    <3>1. j \in i .. Len(s) \/ j = Len(s) + 1
      BY <1>1, <2>4
    <3>2. CASE j \in i .. Len(s)
      <4>1. a[j] = s[j]
        BY <1>1, <1>4, <3>2
      <4>2. s[j].saved.sp <= s[i].saved.sp
        BY <1>4, <3>2 DEF Descends
      <4> QED BY <4>1, <4>2, <2>1
    <3>3. CASE j = Len(s) + 1
      BY <3>3, <1>1, <2>1
    <3> QED BY <3>1, <3>2, <3>3
  <2> QED BY <2>1, <2>2, <2>3, <2>4
<1>5. /\ a[Len(s) + 1].spoiled /\ a[Len(s) + 1].org = a[Len(s) + 1].saved.sp
      /\ a[Len(s) + 1].org >= 20 /\ q <= a[Len(s) + 1].saved.sp
      /\ \A j \in Len(s) + 1 .. Len(a) : a[j].saved.sp <= a[Len(s) + 1].saved.sp
  <2>1. \A j \in Len(s) + 1 .. Len(a) : j = Len(s) + 1
    BY <1>1
  <2> QED BY <2>1, <1>1
<1>6. Descends(a, q)
  <2> SUFFICES ASSUME NEW i \in 1 .. Len(a)
               PROVE  /\ a[i].spoiled /\ a[i].org = a[i].saved.sp /\ a[i].org >= 20
                      /\ q <= a[i].saved.sp
                      /\ \A j \in i .. Len(a) : a[j].saved.sp <= a[i].saved.sp
    BY DEF Descends
  <2>1. CASE i \in 1 .. Len(s)
    BY <2>1, <1>4
  <2>2. CASE i = Len(s) + 1
    BY <2>2, <1>5
  <2> QED BY <1>3, <2>1, <2>2
<1> QED BY <1>6 DEF a

\* The last context is gone and the stack pointer is the one it saved.
LEMMA DescendsBack ==
  ASSUME NEW s \in Seq(Ctx), s # << >>, NEW p \in Int, Descends(s, p)
  PROVE  Descends(Pop(s), Top(s).saved.sp)
<1> DEFINE a == Pop(s)
           n == Len(s)
<1>1. n \in Nat /\ n >= 1 /\ Len(a) = n - 1 /\ Top(s) = s[n] /\ \A i \in 1 .. n - 1 : a[i] = s[i]
  BY Popped
<1> HIDE DEF a
<1> SUFFICES ASSUME NEW i \in 1 .. Len(a)
             PROVE  /\ a[i].spoiled /\ a[i].org = a[i].saved.sp /\ a[i].org >= 20
                    /\ Top(s).saved.sp <= a[i].saved.sp
                    /\ \A j \in i .. Len(a) : a[j].saved.sp <= a[i].saved.sp
  BY DEF Descends, a
<1>2. a[i] = s[i] /\ i \in 1 .. n /\ n \in i .. n /\ \A j \in i .. Len(a) : j \in i .. n /\ a[j] = s[j]
  BY <1>1
<1>3. /\ s[i].spoiled /\ s[i].org = s[i].saved.sp /\ s[i].org >= 20
      /\ \A j \in i .. n : s[j].saved.sp <= s[i].saved.sp
  BY <1>2 DEF Descends
<1> QED BY <1>1, <1>2, <1>3

LEMMA DescendsLower ==
  ASSUME NEW s \in Seq(Ctx), NEW p \in Int, NEW q \in Int, Descends(s, p), q <= p
  PROVE  Descends(s, q)
<1>1. \A i \in 1 .. Len(s) : s[i].saved.sp \in Int
  <2>1. \A i \in 1 .. Len(s) : s[i] \in Ctx
    OBVIOUS
  <2>2. \A x \in Ctx : x.saved.sp \in Int
    BY ConstantsAre DEF Ctx, Cpu
  <2> QED BY <2>1, <2>2
<1> QED BY <1>1 DEF Descends

\* A context whose registers were not touched leaves nothing behind.
LEMMA FailedEarly ==
  ASSUME Typed, NEW c, ~c.spoiled, Fail(Append(calls, c))
  PROVE  UNCHANGED <<cpu, calls, broken>>
<1>1. Top(Append(calls, c)) = c /\ Pop(Append(calls, c)) = calls
  <2> DEFINE S == Ctx \cup {c}
  <2>1. calls \in Seq(S) /\ c \in S
    BY DEF Typed
  <2> HIDE DEF S
  <2> QED BY <2>1, Appended
<1> DEFINE s == Append(calls, c)
<1> HIDE DEF s
<1>2. Top(s) = c /\ Pop(s) = calls
  BY <1>1 DEF s
<1>3. Cleanup(s)
  BY DEF Fail, s
<1> QED BY <1>2, <1>3 DEF Cleanup, Restored

\* The registers come back and the context goes, or everything stays.
LEMMA CleanedUp ==
  ASSUME Typed, Nested, calls # << >>, Cleanup(calls)
  PROVE  \/ cpu' = Top(calls).saved /\ calls' = Pop(calls) /\ broken' = broken
         \/ calls' = calls /\ broken' = TRUE /\ cpu' = cpu
<1>1. Top(calls) = calls[Len(calls)] /\ Len(calls) >= 1 /\ Len(calls) \in Nat
  <2>1. calls \in Seq(Ctx)
    BY DEF Typed
  <2>2. Top(calls) = calls[Len(calls)] /\ Len(calls) >= 1
    BY <2>1, Popped
  <2> QED BY <2>1, <2>2
<1>2. Top(calls).spoiled
  <2>1. Len(calls) \in 1 .. Len(calls)
    BY <1>1
  <2> QED BY <2>1, <1>1 DEF Nested, Descends
<1> QED BY <1>2 DEF Cleanup, Restored

-----------------------------------------------------------------------------
(* The actions                                                               *)

LEMMA TypedParts ==
  ASSUME Typed
  PROVE  /\ cpu.sp \in Int /\ cpu.sp \in 0 .. AddrSpace - 1 /\ cpu.code \in 0 .. MaxCalls
         /\ Len(calls) \in Nat /\ Len(open) \in Nat
         /\ \A i \in 1 .. Len(calls) : calls[i] \in Ctx /\ calls[i].saved \in Cpu
                                       /\ calls[i].saved.sp \in Int
<1>1. cpu.sp \in 0 .. AddrSpace - 1 /\ cpu.code \in 0 .. MaxCalls
  BY DEF Typed, Cpu
<1>2. \A i \in 1 .. Len(calls) : calls[i] \in Ctx
  BY DEF Typed
<1>3. \A c \in Ctx : c.saved \in Cpu /\ c.saved.sp \in Int
  BY ConstantsAre DEF Ctx, Cpu
<1> QED BY <1>1, <1>2, <1>3, ConstantsAre DEF Typed

\* A step that leaves contexts, registers and the calls of the client alone.
LEMMA Untouched ==
  ASSUME AppInv, UNCHANGED <<cpu, calls, open, broken, skip>>, outer' \in Seq(Waiting),
         loop' \in {"none", "E_OK", "E_TIMEOUT"}, loop' # "none" => Len(open) >= 1,
         eid' \in {"EXCEPTION", "OTHER"}, write' \subseteq Int, Apart'
  PROVE  AppInv'
<1>1. Typed'
  BY DEF AppInv, Typed
<1>2. Counted' /\ Nested' /\ Orderly'
  BY DEF AppInv, Counted, Nested, Orderly
<1> QED BY <1>1, <1>2 DEF AppInv

\* The addresses of the arguments are below the stack pointer.
LEMMA ImageBelow ==
  ASSUME Typed, NEW size \in Nat, size + 32 <= AddrSpace, Fits(cpu.sp, size)
  PROVE  \A a \in Image(cpu.sp, size) : a \in Int /\ a >= 0 /\ a < cpu.sp
<1> DEFINE lo == CallSp(cpu.sp, size)
           hi == CtrlEa(cpu.sp, size)
<1>1. cpu.sp \in 0 .. AddrSpace - 1 /\ cpu.sp \in Int /\ skip \in {0, 4}
  BY TypedParts, ConstantsAre DEF Typed
<1>2. lo \in 12 .. cpu.sp - 4 /\ hi \in Nat /\ hi + 3 < cpu.sp
  BY <1>1, Frame
<1>3. Image(cpu.sp, size) = (lo + skip) .. (hi + 3)
  BY DEF Image
<1> HIDE DEF lo, hi
<1>4. lo \in Nat /\ lo >= 12
  BY <1>1, <1>2
<1> QED BY <1>1, <1>2, <1>3, <1>4

\* What is written below the stack pointer is below what the contexts saved.
LEMMA WrittenBelow ==
  ASSUME Typed, NEW W, \A a \in W : a \in Int /\ a < cpu.sp,
         NEW s \in Seq(Ctx), \A i \in 1 .. Len(s) : cpu.sp <= s[i].saved.sp
  PROVE  \A a \in W, i \in 1 .. Len(s) : a < s[i].saved.sp
<1> SUFFICES ASSUME NEW a \in W, NEW i \in 1 .. Len(s) PROVE a < s[i].saved.sp
  OBVIOUS
<1>1. a \in Int /\ a < cpu.sp /\ cpu.sp <= s[i].saved.sp /\ cpu.sp \in Int
  BY TypedParts
<1>2. s[i].saved.sp \in Int
  <2>1. s[i] \in Ctx
    OBVIOUS
  <2> QED BY <2>1, ConstantsAre DEF Ctx, Cpu
<1> QED BY <1>1, <1>2

LEMMA RefusedInv == ASSUME AppInv, NEW size \in Sizes, AppcallRefused(size) PROVE AppInv'
<1>1. /\ loop = "none" /\ write' = {} /\ UNCHANGED <<open, loop, outer, eid, skip>>
      /\ \/ Fail(Append(calls, NoCall))
         \/ Fail(Append(calls, [NoCall EXCEPT !.saved = cpu]))
         \/ Fail(Append(calls, Context(cpu.sp, size)))
  BY DEF AppcallRefused
<1>2. ~NoCall.spoiled /\ ~[NoCall EXCEPT !.saved = cpu].spoiled /\ ~Context(cpu.sp, size).spoiled
  BY DEF NoCall, Context
<1>3. UNCHANGED <<cpu, calls, broken>>
  BY <1>1, <1>2, FailedEarly DEF AppInv
<1> QED BY <1>1, <1>3, Untouched DEF AppInv, Typed, Apart

\* A call is begun: its context is put on the stack and the thread is in its code.
LEMMA BegunInv ==
  ASSUME AppInv, NEW size \in Sizes, Len(calls) < MaxCalls, Fits(cpu.sp, size), loop = "none",
         NEW c, c = [Context(cpu.sp, size) EXCEPT !.spoiled = TRUE],
         calls' = Append(calls, c), cpu' = CallRegs(cpu.sp, size)
  PROVE  /\ cpu' \in Cpu /\ calls' \in Seq(Ctx) /\ Len(calls') = Len(calls) + 1 /\ Nested'
         /\ cpu'.code = Len(calls') /\ calls'[Len(calls')].saved = cpu
         /\ \A i \in 1 .. Len(calls) : calls'[i] = calls[i]
         /\ \A i \in 1 .. Len(calls') : cpu.sp <= calls'[i].saved.sp
         /\ (cpu'.sp + addrsize - skip) % 16 = 0
<1>1. /\ Typed /\ Nested /\ size \in Nat /\ size + 32 <= AddrSpace /\ skip \in {0, 4}
      /\ MaxCalls \in Nat /\ AddrSpace \in Nat
  BY ConstantsAre, AppcallAssumption DEF AppInv, Typed
<1>2. c \in Ctx /\ c.spoiled /\ c.saved = cpu /\ c.org = c.saved.sp /\ c.org >= 20
  BY <1>1, ContextIs
<1>3. /\ cpu.sp \in Int /\ cpu.sp \in 0 .. AddrSpace - 1 /\ Len(calls) \in Nat
      /\ calls \in Seq(Ctx)
  BY <1>1, TypedParts DEF Typed
<1> DEFINE lo == CallSp(cpu.sp, size)
<1>4. lo \in 12 .. cpu.sp - 4 /\ (lo + addrsize) % 16 = 0
  BY <1>1, <1>3, Frame
<1>5. cpu' = [sp |-> lo + skip, code |-> Len(calls) + 1]
  BY DEF CallRegs
<1> HIDE DEF lo
<1>6. /\ lo \in Int /\ lo + skip \in 0 .. AddrSpace - 1 /\ lo + skip <= cpu.sp
      /\ Len(calls) + 1 \in 0 .. MaxCalls
  <2>1. Len(calls) + 1 \in 0 .. MaxCalls
    BY <1>1, <1>3
  <2>2. lo \in Nat /\ lo <= cpu.sp - 4 /\ lo + skip <= lo + 4 /\ lo + skip \in Nat
    BY <1>1, <1>3, <1>4
  <2> QED BY <2>1, <2>2, <1>1, <1>3
<1>7. cpu'.sp = lo + skip /\ cpu'.code = Len(calls) + 1 /\ cpu' \in Cpu
  BY <1>5, <1>6 DEF Cpu
<1>8. /\ calls' \in Seq(Ctx) /\ Len(calls') = Len(calls) + 1 /\ calls'[Len(calls) + 1] = c
      /\ \A i \in 1 .. Len(calls) : calls'[i] = calls[i]
  BY <1>2, <1>3, Appended
<1>9. Nested'
  <2>1. Descends(calls, cpu.sp) /\ cpu'.sp <= cpu.sp /\ cpu'.sp \in Int
    BY <1>1, <1>6, <1>7 DEF Nested
  <2> DEFINE p == cpu.sp
             q == cpu'.sp
  <2>2. Descends(calls, p) /\ q <= p /\ q \in Int /\ p \in Int /\ c.saved.sp = p
    BY <2>1, <1>2, <1>3
  <2> HIDE DEF p, q
  <2>3. Descends(Append(calls, c), q)
    BY <2>2, <1>2, <1>3, DescendsOn
  <2> QED BY <2>3 DEF Nested, q
<1>10. \A i \in 1 .. Len(calls') : cpu.sp <= calls'[i].saved.sp
  <2>1. SUFFICES ASSUME NEW i \in 1 .. Len(calls') PROVE cpu.sp <= calls'[i].saved.sp
    OBVIOUS
  <2>2. CASE i \in 1 .. Len(calls)
    BY <2>2, <1>1, <1>8 DEF Nested, Descends
  <2>3. CASE i = Len(calls) + 1
    BY <2>3, <1>2, <1>3, <1>8
  <2> QED BY <2>1, <2>2, <2>3, <1>3, <1>8
<1>11. (cpu'.sp + addrsize - skip) % 16 = 0
  <2>1. cpu'.sp + addrsize - skip = lo + addrsize
    BY <1>1, <1>6, <1>7 DEF addrsize
  <2> QED BY <2>1, <1>4
<1> QED BY <1>2, <1>7, <1>8, <1>9, <1>10, <1>11

LEMMA FailsInv == ASSUME AppInv, NEW size \in Sizes, AppcallFails(size) PROVE AppInv'
<1> DEFINE c == [Context(cpu.sp, size) EXCEPT !.spoiled = TRUE]
<1>1. /\ loop = "none" /\ Len(calls) < MaxCalls /\ Fits(cpu.sp, size)
      /\ write' = Image(cpu.sp, size) /\ UNCHANGED <<open, loop, outer, eid, skip>>
      /\ \/ Fail(Append(calls, Context(cpu.sp, size)))
         \/ cpu' = Context(cpu.sp, size).saved /\ UNCHANGED <<calls, broken>>
         \/ cpu' = CallRegs(cpu.sp, size) /\ broken' = TRUE /\ calls' = Append(calls, c)
  BY DEF AppcallFails
<1>2. Typed /\ size \in Nat /\ size + 32 <= AddrSpace
  BY AppcallAssumption DEF AppInv
<1>3. \A a \in write' : a \in Int /\ a >= 0 /\ a < cpu.sp
  BY <1>1, <1>2, ImageBelow
<1>4. write' \subseteq Int
  BY <1>3
<1>5. CASE \/ Fail(Append(calls, Context(cpu.sp, size)))
           \/ cpu' = Context(cpu.sp, size).saved /\ UNCHANGED <<calls, broken>>
  <2>1. ~Context(cpu.sp, size).spoiled /\ Context(cpu.sp, size).saved = cpu
    BY DEF Context
  <2>2. UNCHANGED <<cpu, calls, broken>>
    BY <2>1, <1>2, <1>5, FailedEarly
  <2>3. Apart'
    <3>1. calls \in Seq(Ctx) /\ \A i \in 1 .. Len(calls) : cpu.sp <= calls[i].saved.sp
      BY <1>2 DEF AppInv, Typed, Nested, Descends
    <3>2. \A a \in write', i \in 1 .. Len(calls) : a < calls[i].saved.sp
      BY <3>1, <1>2, <1>3, WrittenBelow
    <3> QED BY <3>2, <2>2, <1>3 DEF Apart
  <2> QED BY <2>2, <2>3, <1>1, <1>2, <1>4, Untouched DEF Typed
<1>6. CASE cpu' = CallRegs(cpu.sp, size) /\ broken' = TRUE /\ calls' = Append(calls, c)
  <2>1. /\ cpu' \in Cpu /\ calls' \in Seq(Ctx) /\ Len(calls') = Len(calls) + 1 /\ Nested'
        /\ \A i \in 1 .. Len(calls') : cpu.sp <= calls'[i].saved.sp
    <3> HIDE DEF c
    <3>1. c = [Context(cpu.sp, size) EXCEPT !.spoiled = TRUE]
      BY DEF c
    <3> QED BY <3>1, <1>1, <1>6, BegunInv
  <2>2. Len(calls) \in Nat /\ Len(open) \in Nat /\ MaxCalls \in Nat
    BY <1>1, <1>2, TypedParts, ConstantsAre
  <2>3. Typed'
    BY <2>1, <2>2, <1>1, <1>2, <1>4, <1>6 DEF Typed
  <2>4. Counted'
    BY <2>1, <2>2, <1>1 DEF AppInv, Counted
  <2>5. Orderly'
    BY <1>6 DEF Orderly
  <2>6. Apart'
    BY <2>1, <1>2, <1>3, WrittenBelow DEF Apart
  <2> QED BY <2>1, <2>3, <2>4, <2>5, <2>6 DEF AppInv
<1> QED BY <1>1, <1>5, <1>6

LEMMA StartsInv ==
  ASSUME AppInv, NEW size \in Sizes, NEW manual \in BOOLEAN, AppcallStarts(size, manual)
  PROVE  AppInv' /\ (cpu'.sp + addrsize - skip) % 16 = 0
<1> DEFINE c == [Context(cpu.sp, size) EXCEPT !.spoiled = TRUE]
<1>1. /\ loop = "none" /\ Len(calls) < MaxCalls /\ Fits(cpu.sp, size)
      /\ write' = Image(cpu.sp, size) /\ UNCHANGED <<outer, eid, skip, broken>>
      /\ calls' = Append(calls, c) /\ cpu' = CallRegs(cpu.sp, size)
      /\ open' = Append(open, cpu)
      /\ loop' = IF manual THEN "none" ELSE "E_OK"
  BY DEF AppcallStarts
<1>2. Typed /\ Orderly /\ Counted /\ size \in Nat /\ size + 32 <= AddrSpace
  BY AppcallAssumption DEF AppInv
<1>3. c = [Context(cpu.sp, size) EXCEPT !.spoiled = TRUE]
  OBVIOUS
<1> HIDE DEF c
<1>4. /\ cpu' \in Cpu /\ calls' \in Seq(Ctx) /\ Len(calls') = Len(calls) + 1 /\ Nested'
      /\ cpu'.code = Len(calls') /\ calls'[Len(calls')].saved = cpu
      /\ \A i \in 1 .. Len(calls) : calls'[i] = calls[i]
      /\ \A i \in 1 .. Len(calls') : cpu.sp <= calls'[i].saved.sp
      /\ (cpu'.sp + addrsize - skip) % 16 = 0
  BY <1>1, <1>3, BegunInv
<1>5. \A a \in write' : a \in Int /\ a >= 0 /\ a < cpu.sp
  BY <1>1, <1>2, ImageBelow
<1>6. /\ Len(calls) \in Nat /\ Len(open) \in Nat /\ MaxCalls \in Nat
      /\ cpu \in Cpu /\ cpu.sp \in Int
      /\ \A i \in 1 .. Len(calls) : calls[i].saved.sp \in Int
  BY <1>1, <1>2, TypedParts, ConstantsAre DEF Typed
<1>7. /\ open' \in Seq(Cpu) /\ Len(open') = Len(open) + 1 /\ open'[Len(open) + 1] = cpu
      /\ \A i \in 1 .. Len(open) : open'[i] = open[i]
  BY <1>1, <1>2, <1>6, Appended DEF Typed
<1>8. Typed'
  BY <1>1, <1>2, <1>4, <1>5, <1>6, <1>7 DEF Typed
<1>9. Counted'
  BY <1>2, <1>4, <1>6, <1>7 DEF Counted
<1>10. Apart'
  <2>1. \A a \in write' : a >= 0
    BY <1>5
  <2>2. \A a \in write', i \in 1 .. Len(calls') : a < calls'[i].saved.sp
    BY <1>2, <1>4, <1>5, WrittenBelow
  <2> QED BY <2>1, <2>2 DEF Apart
<1>11. Orderly'
  <2>1. SUFFICES ASSUME ~broken
                 PROVE  /\ Len(calls') = Len(open') /\ Kept(calls', open')
                        /\ cpu'.code = Len(calls') /\ CodesOf(calls') /\ Based(calls', cpu'.sp)
    BY <1>1 DEF Orderly
  <2>2. /\ Len(calls) = Len(open) /\ Kept(calls, open)
        /\ cpu.code = Len(calls) /\ CodesOf(calls) /\ Based(calls, cpu.sp)
    BY <2>1, <1>2, <1>6 DEF Orderly
  <2>3. Len(calls') = Len(open')
    BY <2>2, <1>4, <1>6, <1>7
  <2>4. Kept(calls', open')
    <3>1. \A i \in 1 .. Len(open) : calls'[i].saved = open'[i]
      BY <2>2, <1>4, <1>7 DEF Kept
    <3>2. calls'[Len(open) + 1].saved = open'[Len(open) + 1]
      BY <2>2, <1>4, <1>7
    <3>3. \A i \in 1 .. Len(open') : i \in 1 .. Len(open) \/ i = Len(open) + 1
      BY <1>6, <1>7
    <3> QED BY <3>1, <3>2, <3>3 DEF Kept
  <2>5. CodesOf(calls')
    <3>1. \A i \in 1 .. Len(calls') : i \in 1 .. Len(calls) \/ i = Len(calls')
      BY <1>4, <1>6
    <3>2. calls'[Len(calls')].saved.code = Len(calls') - 1
      BY <2>2, <1>4, <1>6
    <3> QED BY <3>1, <3>2, <2>2, <1>4 DEF CodesOf
  <2>6. Based(calls', cpu'.sp)
    <3>1. calls' # << >> /\ 1 \in 1 .. Len(calls')
      BY <1>4, <1>6
    <3>2. CASE calls = << >>
      <4>1. Len(calls) = 0
        BY <3>2
      <4>2. calls'[1].saved = cpu
        BY <4>1, <1>4
      <4> QED BY <3>1, <3>2, <4>2, <2>2 DEF Based
    <3>3. CASE calls # << >>
      <4>1. 1 \in 1 .. Len(calls)
        BY <3>3, <1>2, EmptySeq DEF Typed
      <4> QED BY <3>1, <3>3, <4>1, <2>2, <1>4 DEF Based
    <3> QED BY <3>2, <3>3
  <2> QED BY <2>3, <2>4, <2>5, <2>6, <1>4
<1> QED BY <1>4, <1>8, <1>9, <1>10, <1>11 DEF AppInv

\* The function runs: above what the next call needs, below what is saved.
LEMMA RunsInv == ASSUME AppInv, Runs PROVE AppInv'
<1>1. PICK sp \in {CallSp(Top(calls).org, 0), 16} :
        /\ calls # << >> /\ cpu.code = Len(calls) /\ ~broken /\ cpu' = [cpu EXCEPT !.sp = sp]
        /\ eid' \in {"EXCEPTION", "OTHER"}
        /\ UNCHANGED <<calls, open, loop, outer, write, skip, broken>>
  BY DEF Runs, AppInv, Typed
<1>2. Typed /\ Nested /\ Orderly /\ Counted /\ Apart
  BY DEF AppInv
<1>3. /\ Len(calls) >= 1 /\ Len(calls) \in Nat /\ Top(calls) = calls[Len(calls)]
      /\ Top(calls) \in Ctx
  <2>1. calls \in Seq(Ctx)
    BY <1>2 DEF Typed
  <2> QED BY <2>1, <1>1, Popped
<1> DEFINE n == Len(calls)
           org == Top(calls).org
<1>4. org \in 0 .. AddrSpace - 1 /\ org >= 20 /\ org = calls[n].saved.sp /\ org \in Int
  <2>1. n \in 1 .. n
    BY <1>3
  <2> QED BY <2>1, <1>2, <1>3, ConstantsAre DEF Ctx, Nested, Descends
<1>5. sp \in 0 .. org /\ sp \in 0 .. AddrSpace - 1
  <2>1. CASE sp = 16
    BY <2>1, <1>4, ConstantsAre
  <2>2. CASE sp = CallSp(org, 0)
    <3> HIDE DEF org
    <3> DEFINE x == org - 4
    <3>1. x \in Nat /\ x >= 16 /\ x < AddrSpace /\ AddrSpace \in Nat
      BY <1>4, ConstantsAre
    <3>2. AlignUp(0, addrsize) = 0
      BY DEF AlignUp, addrsize
    <3>3. Sub(org, addrsize) = x /\ Sub(x, 0) = x
      BY <3>1, SmallMod DEF Sub, addrsize
    <3>4. ArgsSp(org, 0) = x - (x % 16)
      BY <3>2, <3>3 DEF ArgsSp
    <3> HIDE DEF x
    <3> DEFINE s == x - (x % 16)
    <3>5. s \in Nat /\ x - s <= 15 /\ s <= x /\ s % 16 = 0
      BY <3>1, OnBoundary
    <3>6. CallSp(org, 0) = (s - 4) % AddrSpace
      BY <3>4 DEF CallSp, Sub, addrsize
    <3> HIDE DEF s
    <3>7. s >= 16
      BY <3>1, <3>5
    <3>8. CallSp(org, 0) = s - 4
      BY <3>1, <3>5, <3>6, <3>7, SmallMod
    <3>9. x = org - 4
      BY DEF x
    <3>10. org \in Nat /\ org = x + 4
      BY <3>1, <3>9, <1>4
    <3> DEFINE c == s - 4
    <3>11. sp = c
      BY <2>2, <3>8
    <3>12. c \in Int /\ c >= 0 /\ c <= org /\ c < AddrSpace
      BY <3>1, <3>5, <3>7, <3>10
    <3> HIDE DEF c
    <3>13. c \in 0 .. org /\ c \in 0 .. AddrSpace - 1
      BY <3>1, <3>10, <3>12
    <3> QED BY <3>11, <3>13
  <2> QED BY <2>1, <2>2
<1> HIDE DEF org
<1>6. cpu' \in Cpu /\ cpu'.sp = sp /\ cpu'.code = cpu.code
  BY <1>1, <1>2, <1>5 DEF Typed, Cpu
<1>7. Typed'
  BY <1>1, <1>2, <1>6 DEF Typed
<1>8. Counted' /\ Apart'
  BY <1>1, <1>2 DEF Counted, Apart
<1>10. \A i \in 1 .. n : sp <= calls[i].saved.sp
  <2>1. SUFFICES ASSUME NEW i \in 1 .. n PROVE sp <= calls[i].saved.sp
    OBVIOUS
  <2>2. n \in i .. n /\ calls[i].saved.sp \in Int
    BY <1>2, <1>3, TypedParts
  <2>3. calls[n].saved.sp <= calls[i].saved.sp
    BY <2>1, <2>2, <1>2 DEF Nested, Descends
  <2> QED BY <2>2, <2>3, <1>4, <1>5
<1>11. Nested'
  BY <1>1, <1>2, <1>6, <1>10 DEF Nested, Descends
<1>12. Orderly'
  BY <1>1, <1>2, <1>6 DEF Orderly, Kept, CodesOf, Based
<1> QED BY <1>7, <1>8, <1>11, <1>12 DEF AppInv

\* The last context goes with its registers: what is left of the invariant.
LEMMA PoppedInv ==
  ASSUME AppInv, calls # << >>, cpu' = Top(calls).saved, calls' = Pop(calls), broken' = broken
  PROVE  /\ cpu' \in Cpu /\ calls' \in Seq(Ctx) /\ Len(calls') = Len(calls) - 1 /\ Len(calls) >= 1
         /\ Nested'
         /\ \A i \in 1 .. Len(calls') : calls'[i] = calls[i]
         /\ ~broken => cpu'.code = Len(calls') /\ CodesOf(calls') /\ Based(calls', cpu'.sp)
<1>1. Typed /\ Nested /\ Orderly /\ calls \in Seq(Ctx) /\ Len(calls) \in Nat
  BY DEF AppInv, Typed
<1>2. /\ calls' \in Seq(Ctx) /\ Len(calls') = Len(calls) - 1 /\ Len(calls) >= 1
      /\ \A i \in 1 .. Len(calls) - 1 : calls'[i] = calls[i]
      /\ Top(calls) = calls[Len(calls)] /\ Top(calls) \in Ctx
  BY <1>1, Popped
<1>3. cpu' \in Cpu
  BY <1>2 DEF Ctx
<1>4. Nested'
  <2>1. Descends(calls, cpu.sp) /\ cpu.sp \in Int
    BY <1>1, TypedParts DEF Nested
  <2> DEFINE p == cpu.sp
             q == Top(calls).saved.sp
  <2>2. Descends(calls, p) /\ p \in Int
    BY <2>1
  <2> HIDE DEF p
  <2>3. Descends(Pop(calls), q)
    BY <2>2, <1>1, DescendsBack
  <2> QED BY <2>3 DEF Nested
<1>5. ASSUME ~broken PROVE cpu'.code = Len(calls') /\ CodesOf(calls') /\ Based(calls', cpu'.sp)
  <2>1. CodesOf(calls) /\ Based(calls, cpu.sp) /\ Len(calls) \in 1 .. Len(calls)
    BY <1>1, <1>2, <1>5 DEF Orderly
  <2>2. cpu'.code = Len(calls) - 1
    BY <2>1, <1>2 DEF CodesOf
  <2>3. CodesOf(calls')
    BY <2>1, <1>1, <1>2 DEF CodesOf
  <2>4. Based(calls', cpu'.sp)
    <3>1. calls[1].saved.sp \in Sps
      BY <2>1 DEF Based
    <3>2. CASE Len(calls) = 1
      <4>1. cpu' = calls[1].saved /\ Len(calls') = 0
        BY <3>2, <1>2
      <4>2. calls' = << >>
        BY <4>1, <1>2, EmptySeq
      <4> QED BY <3>1, <4>1, <4>2 DEF Based
    <3>3. CASE Len(calls) # 1
      <4>1. Len(calls') >= 1 /\ 1 \in 1 .. Len(calls) - 1
        BY <3>3, <1>1, <1>2
      <4>2. calls' # << >> /\ calls'[1] = calls[1]
        BY <4>1, <1>2, EmptySeq
      <4> QED BY <3>1, <4>2 DEF Based
    <3> QED BY <3>2, <3>3
  <2> QED BY <2>2, <2>3, <2>4, <1>2
<1> QED BY <1>2, <1>3, <1>4, <1>5

\* The calls in progress but the last.
LEMMA OpenPopped ==
  ASSUME Typed, open # << >>, open' = Pop(open)
  PROVE  /\ open' \in Seq(Cpu) /\ Len(open') = Len(open) - 1 /\ Len(open) >= 1
         /\ \A i \in 1 .. Len(open) - 1 : open'[i] = open[i]
<1>1. open \in Seq(Cpu)
  BY DEF Typed
<1> QED BY <1>1, Popped

\* A call ends, or its context stays and its registers are lost.
LEMMA EndedInv ==
  ASSUME AppInv, open # << >>, calls # << >>, loop' = "none",
         eid' \in {"EXCEPTION", "OTHER"}, Cleanup(calls),
         open' = Pop(open) \/ (calls' = calls /\ open' = open),
         outer' \in Seq(Waiting), outer' = << >> \/ loop # "none" \/ outer # << >>,
         UNCHANGED <<write, skip>>
  PROVE  AppInv'
<1>1. Typed /\ Nested /\ Orderly /\ Counted /\ Apart
  BY DEF AppInv
<1>2. /\ Len(calls) \in Nat /\ Len(open) \in Nat /\ Len(open) <= Len(calls) /\ open \in Seq(Cpu)
      /\ MaxCalls \in Nat /\ Len(calls) <= MaxCalls
  BY <1>1, TypedParts, ConstantsAre DEF Counted, Typed
<1>3. \/ cpu' = Top(calls).saved /\ calls' = Pop(calls) /\ broken' = broken
      \/ calls' = calls /\ broken' = TRUE /\ cpu' = cpu
  BY <1>1, CleanedUp
<1>4. open' = Pop(open) => /\ open' \in Seq(Cpu) /\ Len(open') = Len(open) - 1
                           /\ \A i \in 1 .. Len(open) - 1 : open'[i] = open[i]
  BY <1>1, OpenPopped
<1>5. CASE cpu' = Top(calls).saved /\ calls' = Pop(calls) /\ broken' = broken
  <2>1. /\ cpu' \in Cpu /\ calls' \in Seq(Ctx) /\ Len(calls') = Len(calls) - 1
        /\ Nested'
        /\ \A i \in 1 .. Len(calls') : calls'[i] = calls[i]
        /\ ~broken => cpu'.code = Len(calls') /\ CodesOf(calls') /\ Based(calls', cpu'.sp)
    BY <1>5, PoppedInv
  <2>2. /\ open' \in Seq(Cpu) /\ Len(open') = Len(open) - 1
        /\ \A i \in 1 .. Len(open) - 1 : open'[i] = open[i]
    <3>1. calls' # calls
      BY <2>1, <1>2
    <3> QED BY <3>1, <1>4
  <2>3. Typed'
    BY <2>1, <2>2, <1>1, <1>2, <1>5 DEF Typed
  <2>4. Counted'
    BY <2>1, <2>2, <1>2 DEF Counted
  <2>5. Orderly'
    <3>1. SUFFICES ASSUME ~broken PROVE Len(calls') = Len(open') /\ Kept(calls', open')
      BY <2>1, <1>5 DEF Orderly
    <3>2. Len(calls) = Len(open) /\ Kept(calls, open)
      BY <3>1, <1>1 DEF Orderly
    <3>3. Len(calls') = Len(open')
      BY <3>2, <2>1, <2>2
    <3>4. \A i \in 1 .. Len(open') : i \in 1 .. Len(open) /\ i \in 1 .. Len(open) - 1 /\ i \in 1 .. Len(calls')
      BY <3>3, <2>2, <1>2
    <3> QED BY <3>2, <3>3, <3>4, <2>1, <2>2 DEF Kept
  <2>6. Apart'
    <3>1. \A i \in 1 .. Len(calls') : i \in 1 .. Len(calls) /\ calls'[i] = calls[i]
      BY <2>1, <1>2
    <3> QED BY <3>1, <1>1 DEF Apart
  <2> QED BY <2>1, <2>3, <2>4, <2>5, <2>6 DEF AppInv
<1>6. CASE calls' = calls /\ broken' = TRUE /\ cpu' = cpu
  <2>1. open' \in Seq(Cpu) /\ Len(open') <= Len(open) /\ Len(open') \in Nat
    BY <1>2, <1>4
  <2>2. Typed'
    BY <2>1, <1>1, <1>6 DEF Typed
  <2>3. Nested' /\ Orderly' /\ Apart'
    BY <1>1, <1>6 DEF Nested, Orderly, Apart
  <2>4. Counted'
    BY <2>1, <1>2, <1>6 DEF Counted
  <2> QED BY <2>2, <2>3, <2>4 DEF AppInv
<1> QED BY <1>3, <1>5, <1>6

\* A loop that runs has a call and a context.
LEMMA LoopHasCall ==
  ASSUME AppInv, loop # "none"
  PROVE  open # << >> /\ calls # << >> /\ Len(open) \in 1 .. MaxCalls
<1>1. Typed /\ Len(open) >= 1 /\ Len(open) <= Len(calls) /\ Len(calls) <= MaxCalls
  BY DEF AppInv, Counted, Typed
<1>2. Len(open) \in Nat /\ Len(calls) \in Nat /\ MaxCalls \in Nat
  BY <1>1, TypedParts, ConstantsAre
<1> QED BY <1>1, <1>2, EmptySeq

LEMMA ReturnsInv == ASSUME AppInv, Returns PROVE AppInv'
<1>1. /\ loop = "E_OK" /\ eid' = "OTHER" /\ loop' = "none" /\ UNCHANGED <<outer, write, skip>>
      /\ \/ UNCHANGED <<cpu, calls, open, broken>>
         \/ Fail(calls) /\ open' = Pop(open)
  BY DEF Returns, ReadBack
<1>2. open # << >> /\ calls # << >> /\ outer \in Seq(Waiting) /\ write \subseteq Int
  BY <1>1, LoopHasCall DEF AppInv, Typed
<1>3. CASE Fail(calls) /\ open' = Pop(open)
  BY <1>1, <1>2, <1>3, EndedInv DEF Fail
<1>4. CASE UNCHANGED <<cpu, calls, open, broken>>
  <2>1. Apart'
    BY <1>1, <1>4 DEF AppInv, Apart
  <2> QED BY <2>1, <1>1, <1>2, <1>4, Untouched
<1> QED BY <1>1, <1>3, <1>4

LEMMA LeavesInv == ASSUME AppInv, Interrupted \/ TimesOut \/ NextEvent \/ Told PROVE AppInv'
<1>1. CASE Interrupted
  <2>1. open # << >> /\ calls # << >> /\ outer \in Seq(Waiting)
    BY <1>1, LoopHasCall DEF AppInv, Typed, Interrupted
  <2> QED BY <2>1, <1>1, EndedInv DEF Interrupted, Fail
<1>2. CASE TimesOut
  BY <1>2, Untouched DEF TimesOut, AppInv, Typed, Counted, Apart
<1>3. CASE NextEvent
  BY <1>3, Untouched DEF NextEvent, AppInv, Typed, Apart
<1>4. CASE Told
  <2>1. /\ loop # "none" /\ loop' = "none" /\ eid' \in {"EXCEPTION", "OTHER"}
        /\ outer' = Append(outer, [err |-> loop, depth |-> Len(open)])
        /\ UNCHANGED <<cpu, calls, open, write, skip, broken>>
    BY <1>4 DEF Told
  <2>2. [err |-> loop, depth |-> Len(open)] \in Waiting
    BY <2>1, LoopHasCall DEF AppInv, Typed, Waiting
  <2> DEFINE w == [err |-> loop, depth |-> Len(open)]
  <2> HIDE DEF w
  <2>3. w \in Waiting /\ outer' = Append(outer, w) /\ outer \in Seq(Waiting)
    BY <2>1, <2>2 DEF w, AppInv, Typed
  <2>4. outer' \in Seq(Waiting)
    BY <2>3, Appended
  <2>5. Apart' /\ write' \subseteq Int
    BY <2>1 DEF AppInv, Typed, Apart
  <2> QED BY <2>1, <2>4, <2>5, Untouched
<1> QED BY <1>1, <1>2, <1>3, <1>4

LEMMA ProcessExitsInv == ASSUME AppInv, ProcessExits PROVE AppInv'
<1>1. /\ loop # "none" /\ loop' = "none" /\ broken' = TRUE /\ open' = Pop(open)
      /\ UNCHANGED <<cpu, calls, outer, eid, write, skip>>
  BY DEF ProcessExits
<1>2. /\ Typed /\ Nested /\ Counted /\ Apart /\ Len(open) \in Nat /\ Len(calls) \in Nat
      /\ open # << >>
  BY <1>1, TypedParts, LoopHasCall DEF AppInv
<1>3. open' \in Seq(Cpu) /\ Len(open') = Len(open) - 1
  BY <1>1, <1>2, OpenPopped
<1>4. Typed' /\ Nested' /\ Apart' /\ Orderly'
  BY <1>1, <1>2, <1>3 DEF Typed, Nested, Apart, Orderly
<1>5. Counted'
  BY <1>1, <1>2, <1>3 DEF Counted
<1> QED BY <1>4, <1>5 DEF AppInv

\* A loop that waits for the client has a call.
LEMMA OpenWaiting ==
  ASSUME AppInv, outer # << >>, Len(open) = Top(outer).depth
  PROVE  /\ open # << >> /\ calls # << >> /\ Len(open) >= 1
         /\ Top(outer).err \in {"E_OK", "E_TIMEOUT"} /\ Pop(outer) \in Seq(Waiting)
<1>1. Typed /\ outer \in Seq(Waiting) /\ Len(open) <= Len(calls)
  BY DEF AppInv, Typed, Counted
<1>2. Top(outer) \in Waiting /\ Pop(outer) \in Seq(Waiting)
  BY <1>1, Popped
<1>3. Len(open) \in 1 .. MaxCalls /\ Top(outer).err \in {"E_OK", "E_TIMEOUT"}
  BY <1>2 DEF Waiting
<1>4. Len(open) \in Nat /\ Len(calls) \in Nat /\ MaxCalls \in Nat
  BY <1>1, TypedParts, ConstantsAre
<1> QED BY <1>1, <1>2, <1>3, <1>4, EmptySeq

LEMMA AnsweredInv == ASSUME AppInv, Answered PROVE AppInv'
<1>1. /\ loop = "none" /\ outer # << >> /\ Len(open) = Top(outer).depth /\ outer' = Pop(outer)
      /\ UNCHANGED <<write, skip>>
      /\ \/ loop' = "E_OK" /\ UNCHANGED <<cpu, calls, open, eid, broken>>
         \/ Fail(calls) /\ open' = Pop(open) /\ eid' = "OTHER" /\ UNCHANGED loop
  BY DEF Answered
<1>2. /\ open # << >> /\ calls # << >> /\ Len(open) >= 1 /\ Pop(outer) \in Seq(Waiting)
      /\ write \subseteq Int
  BY <1>1, OpenWaiting DEF AppInv, Typed
<1>3. CASE loop' = "E_OK" /\ UNCHANGED <<cpu, calls, open, eid, broken>>
  <2>1. Apart' /\ eid' \in {"EXCEPTION", "OTHER"}
    BY <1>1, <1>3 DEF AppInv, Typed, Apart
  <2> QED BY <2>1, <1>1, <1>2, <1>3, Untouched
<1>4. CASE Fail(calls) /\ open' = Pop(open) /\ eid' = "OTHER" /\ UNCHANGED loop
  BY <1>1, <1>2, <1>4, EndedInv DEF Fail
<1> QED BY <1>1, <1>3, <1>4

LEMMA CleanupInv == ASSUME AppInv, CleanupAppcall PROVE AppInv'
<1>1. /\ loop = "none" /\ open # << >> /\ calls # << >> /\ Cleanup(calls)
      /\ open' = IF calls' = calls THEN open ELSE Pop(open)
      /\ UNCHANGED <<loop, outer, eid, write, skip>>
  BY DEF CleanupAppcall
<1>2. outer \in Seq(Waiting) /\ eid \in {"EXCEPTION", "OTHER"}
  BY DEF AppInv, Typed
<1> QED BY <1>1, <1>2, EndedInv

-----------------------------------------------------------------------------
(* The invariant holds, and what follows from it                             *)

LEMMA InitInv == AppInit => AppInv
<1> SUFFICES ASSUME AppInit PROVE AppInv
  OBVIOUS
<1>1. PICK sp \in Sps : cpu = [sp |-> sp, code |-> 0]
  BY DEF AppInit
<1>2. cpu \in Cpu /\ cpu.sp = sp /\ cpu.code = 0
  BY <1>1, AppcallAssumption DEF Cpu
<1>3. /\ calls = << >> /\ open = << >> /\ loop = "none" /\ write = {} /\ broken = FALSE
      /\ outer = << >>
      /\ eid \in {"EXCEPTION", "OTHER"} /\ skip \in Skips
  BY DEF AppInit
<1>4. /\ calls \in Seq(Ctx) /\ open \in Seq(Cpu) /\ Len(calls) = 0 /\ Len(open) = 0
      /\ outer \in Seq(Waiting)
  BY <1>3, EmptySeq
<1>5. Typed
  <2>1. Len(calls) <= MaxCalls /\ loop \in {"none", "E_OK", "E_TIMEOUT"} /\ broken \in BOOLEAN
    <3>1. MaxCalls \in Nat
      BY AppcallAssumption
    <3>2. Len(calls) <= MaxCalls
      BY <3>1, <1>4
    <3> QED BY <3>2, <1>3
  <2>2. write \subseteq Int
    BY <1>3
  <2> QED BY <1>2, <1>3, <1>4, <2>1, <2>2 DEF Typed
<1>6. Counted /\ Nested /\ Apart
  BY <1>3, <1>4 DEF Counted, Nested, Descends, Apart
<1>7. Orderly
  BY <1>1, <1>2, <1>3, <1>4 DEF Orderly, Kept, CodesOf, Based
<1> QED BY <1>5, <1>6, <1>7 DEF AppInv

LEMMA StutterInv == ASSUME AppInv, UNCHANGED appVars PROVE AppInv'
BY DEF AppInv, appVars, Typed, Counted, Nested, Orderly, Apart

LEMMA NextInv == AppInv /\ [AppNext]_appVars => AppInv'
<1> SUFFICES ASSUME AppInv, [AppNext]_appVars PROVE AppInv'
  OBVIOUS
<1>1. ASSUME NEW size \in Sizes, AppcallRefused(size) \/ AppcallFails(size) PROVE AppInv'
  BY <1>1, RefusedInv, FailsInv
<1>2. ASSUME NEW size \in Sizes, NEW manual \in BOOLEAN, AppcallStarts(size, manual) PROVE AppInv'
  BY <1>2, StartsInv
<1> QED BY <1>1, <1>2, RunsInv, ReturnsInv, LeavesInv, ProcessExitsInv,
        AnsweredInv, CleanupInv, StutterInv
        DEF AppNext

\* The inductive invariant holds in every state.
THEOREM AppInvariance == AppSpec => []AppInv
BY InitInv, NextInv, PTL DEF AppSpec

\* Every variable has its type, whatever the width of addresses and the nesting.
THEOREM AppTypeCorrect == AppSpec => []AppTypeOK
<1>1. ASSUME AppInv PROVE AppTypeOK
  <2>1. Typed /\ Counted
    BY <1>1 DEF AppInv
  <2>2. Len(open) \in Nat /\ Len(calls) \in Nat /\ Len(calls) <= MaxCalls /\ MaxCalls \in Nat
    BY <2>1, TypedParts, ConstantsAre DEF Typed
  <2>3. Len(open) <= MaxCalls
    BY <2>1, <2>2 DEF Counted
  <2>4. \A i \in 1 .. Len(outer) : outer[i] \in [err : {"E_OK", "E_TIMEOUT"}, depth : 1 .. MaxCalls]
    <3>1. outer \in Seq(Waiting)
      BY <2>1 DEF Typed
    <3>2. \A i \in 1 .. Len(outer) : outer[i] \in Waiting
      BY <3>1
    <3> QED BY <3>2 DEF Waiting
  <2> QED BY <2>1, <2>2, <2>3, <2>4 DEF Typed, AppTypeOK, Cpu
<1> QED BY <1>1, AppInvariance, PTL

LEMMA Nests == ASSUME AppInv PROVE AppcallsNest
<1>1. Typed /\ Orderly /\ Apart
  BY DEF AppInv
<1>2. ContextsAreCalls
  BY <1>1 DEF Orderly, Kept, ContextsAreCalls
<1>3. BackInProgram
  <2>1. SUFFICES ASSUME ~broken, calls = << >> PROVE cpu.code = 0 /\ cpu.sp \in Sps
    BY DEF BackInProgram
  <2> QED BY <2>1, <1>1, EmptySeq DEF Orderly, Based
<1>4. StackIsKept
  BY <1>1 DEF Apart, StackIsKept
<1> QED BY <1>2, <1>3, <1>4 DEF AppcallsNest

\* Contexts, registers and stack belong to the call they were saved for, however calls
\* nest, fail and are interrupted.
THEOREM CallsNest == AppSpec => []AppcallsNest
<1>1. AppInv => AppcallsNest
  BY Nests
<1> QED BY <1>1, AppInvariance, PTL

LEMMA Aligned == ASSUME AppInv, [AppNext]_appVars PROVE StartsAligned
<1> SUFFICES ASSUME Len(calls') > Len(calls), loop' = "E_OK"
             PROVE  (cpu'.sp + addrsize - skip) % 16 = 0
  BY DEF StartsAligned
<1>1. Typed /\ Len(calls) \in Nat
  BY TypedParts DEF AppInv
<1>2. calls' # calls
  BY <1>1
<1>3. ASSUME Cleanup(calls), calls # << >> PROVE FALSE
  <2>1. cpu' = Top(calls).saved /\ calls' = Pop(calls) /\ broken' = broken
    BY <1>2, <1>3, CleanedUp DEF AppInv
  <2>2. Len(calls') = Len(calls) - 1
    BY <2>1, <1>3, PoppedInv
  <2> QED BY <2>2, <1>1
<1>4. ~Runs /\ ~TimesOut /\ ~ProcessExits /\ ~NextEvent /\ ~Told
  BY <1>2 DEF Runs, TimesOut, ProcessExits, NextEvent, Told
<1>8. ~Returns /\ ~Interrupted /\ ~Answered
  <2>1. ASSUME Fail(calls) PROVE calls # << >> => FALSE
    BY <2>1, <1>3 DEF Fail
  <2>2. loop # "none" => calls # << >>
    BY EmptySeq DEF AppInv, Counted, Typed
  <2>3. outer # << >> /\ Len(open) = Top(outer).depth => calls # << >>
    BY OpenWaiting, EmptySeq DEF AppInv, Counted, Typed
  <2> QED BY <2>1, <2>2, <2>3, <1>2 DEF Returns, ReadBack, Interrupted, Answered
<1>5. ~CleanupAppcall
  BY <1>3 DEF CleanupAppcall
<1>6. \A size \in Sizes : ~AppcallRefused(size) /\ ~AppcallFails(size)
  BY DEF AppcallRefused, AppcallFails
<1>7. PICK size \in Sizes, manual \in BOOLEAN : AppcallStarts(size, manual)
  BY <1>2, <1>4, <1>5, <1>6, <1>8 DEF AppNext, appVars
<1> QED BY <1>7, StartsInv

\* A function that is called starts with an aligned stack.
THEOREM StacksAligned == AppSpec => [][StartsAligned]_appVars
<1>1. AppInv /\ [AppNext]_appVars => [StartsAligned]_appVars
  BY Aligned
<1> QED BY <1>1, AppInvariance, PTL DEF AppSpec

-----------------------------------------------------------------------------
(* Remote files: the inductive invariant                                     *)

StreamT == [file : Files, readonly : BOOLEAN, pending : [off : Nat, data : Seq(Nat)]]
HandleT == [file : Files, readonly : BOOLEAN, alone : BOOLEAN, content : Seq(Nat)]
FileT == [data : Seq(Nat), exec : BOOLEAN]

FilesTyped ==
    /\ disk \in [Files -> FileT] /\ lost \subseteq StreamT
    /\ channels \in [Indices -> StreamT \cup {NoStream}]
    /\ handles \in [Indices -> HandleT \cup {NoStream}]

\* A stream that is alone shares its file with no other, and with none that was left open.
AloneIs ==
    \A i \in Indices : Holds(i) /\ handles[i].alone =>
       /\ \A j \in Indices : j # i /\ Holds(j) => handles[j].file # handles[i].file
       /\ \A st \in lost : st.file # handles[i].file

FilesInv == FilesTyped /\ HandlesAreStreams /\ AloneIs /\ StreamIsComplete

-----------------------------------------------------------------------------
(* Streams                                                                   *)

LEMMA NoStreamIs ==
  /\ NoStream.file = "none" /\ "none" \notin Files
  /\ \A s \in StreamT : s # NoStream /\ s.file \in Files
  /\ \A h \in HandleT : h # NoStream /\ h.file \in Files
<1>1. NoStream.file = "none" /\ "none" \notin Files
  BY FilesAssumption DEF NoStream
<1>2. \A s \in StreamT : s.file \in Files
  BY DEF StreamT
<1>3. \A h \in HandleT : h.file \in Files
  BY DEF HandleT
<1> QED BY <1>1, <1>2, <1>3

\* Of some channels one is the first.
LEMMA FirstChannel ==
  ASSUME NEW Z \in SUBSET Indices, Z # {}
  PROVE  \E z \in Z : \A y \in Z : z <= y
<1> DEFINE Below(z) == {y \in Z : y < z}
           C == {Below(z) : z \in Z}
           R == StrictSubsetOrdering(Indices)
<1>1. IsFiniteSet(Indices)
  <2>1. 0 \in Int /\ Channels - 1 \in Int
    BY FilesAssumption
  <2> QED BY <2>1, FS_Interval DEF Indices
<1>2. IsWellFoundedOn(R, FiniteSubsetsOf(Indices))
  BY FS_StrictSubsetOrderingWellFounded
<1>3. FiniteSubsetsOf(Indices) = SUBSET Indices
  BY <1>1, FS_FiniteSubsetsOfFinite
<1>4. C \subseteq FiniteSubsetsOf(Indices) /\ C # {}
  <2>1. \A z \in Z : Below(z) \in SUBSET Indices
    OBVIOUS
  <2>2. C \in SUBSET (SUBSET Indices)
    BY <2>1
  <2>3. C # {}
    OBVIOUS
  <2> HIDE DEF C
  <2> QED BY <1>3, <2>2, <2>3
<1>5. PICK b \in C : \A c \in C : ~(<<c, b>> \in R)
  <2> HIDE DEF C, R
  <2> QED BY <1>2, <1>4, WFMin
<1>6. PICK z \in Z : b = Below(z)
  OBVIOUS
<1>7. \A y \in Z : y \in Int
  BY FilesAssumption DEF Indices
<1>8. ASSUME NEW y \in Z, y < z PROVE FALSE
  <2>1. Below(y) \subseteq Below(z) /\ y \in Below(z) /\ y \notin Below(y)
    BY <1>7, <1>8
  <2>2. Below(y) \in SUBSET Indices /\ Below(z) \in SUBSET Indices /\ Below(y) \in C
    OBVIOUS
  <2>3. <<Below(y), Below(z)>> \in R
    <3> HIDE DEF Below
    <3> QED BY <2>1, <2>2 DEF StrictSubsetOrdering
  <2> QED BY <1>5, <1>6, <2>2, <2>3
<1> QED BY <1>7, <1>8

\* find_free_channel finds one that is free, or none.
LEMMA FreeChannel ==
  FindFreeChannel # -1 => FindFreeChannel \in Indices /\ channels[FindFreeChannel] = NoStream
<1> DEFINE free == {i \in Indices : channels[i] = NoStream}
           z == CHOOSE i \in free : \A j \in free : i <= j
<1>1. FindFreeChannel = IF free = {} THEN -1 ELSE z
  BY DEF FindFreeChannel
<1>2. free \in SUBSET Indices
  OBVIOUS
<1>3. free # {} => z \in free
  <2> HIDE DEF free
  <2> QED BY <1>2, FirstChannel
<1> HIDE DEF z
<1> QED BY <1>1, <1>3

\* Bytes put into a file leave a file, and no bytes leave it as it is.
LEMMA PutIs ==
  ASSUME NEW d \in Seq(Nat), NEW o \in Nat, NEW b \in Seq(Nat)
  PROVE  /\ Put(d, [off |-> o, data |-> b]) \in Seq(Nat)
         /\ Put(d, NoBytes) = d
<1>1. Put(d, NoBytes) = d
  BY DEF Put, NoBytes
<1> DEFINE n == IF o + Len(b) > Len(d) THEN o + Len(b) ELSE Len(d)
           At(i) == CASE i > o /\ i <= o + Len(b) -> b[i - o]
                      [] (i <= o \/ i > o + Len(b)) /\ i <= Len(d) -> d[i]
                      [] OTHER -> 0
<1>2. n \in Nat /\ Len(b) \in Nat /\ Len(d) \in Nat
  OBVIOUS
<1>3. \A i \in 1 .. n : At(i) \in Nat
  <2>1. SUFFICES ASSUME NEW i \in 1 .. n PROVE At(i) \in Nat
    OBVIOUS
  <2>2. i \in Int /\ i >= 1
    BY <1>2
  <2>3. CASE i > o /\ i <= o + Len(b)
    <3>1. At(i) = b[i - o]
      BY <2>3
    <3>2. i - o \in 1 .. Len(b)
      BY <2>2, <2>3, <1>2
    <3> QED BY <3>1, <3>2
  <2>4. CASE ~(i > o /\ i <= o + Len(b)) /\ i <= Len(d)
    <3>1. i <= o \/ i > o + Len(b)
      BY <2>2, <2>4, <1>2
    <3>2. At(i) = d[i]
      BY <2>4, <3>1
    <3> QED BY <3>2, <2>2, <2>4, <1>2
  <2>5. CASE ~(i > o /\ i <= o + Len(b)) /\ ~(i <= Len(d))
    <3>1. At(i) = 0
      BY <2>5
    <3> QED BY <3>1
  <2> QED BY <2>3, <2>4, <2>5
<1>4. Put(d, [off |-> o, data |-> b]) = IF b = <<>> THEN d ELSE [i \in 1 .. n |-> At(i)]
  BY DEF Put
<1> HIDE DEF n, At
<1>5. [i \in 1 .. n |-> At(i)] \in Seq(Nat)
  BY <1>2, <1>3
<1> QED BY <1>1, <1>4, <1>5

\* What a flush makes of the disk.
LEMMA FlushedIs ==
  ASSUME NEW d \in [Files -> FileT], NEW st \in StreamT
  PROVE  /\ Flushed(d, st) \in [Files -> FileT]
         /\ Flushed(d, st)[st.file].data = Put(d[st.file].data, st.pending)
         /\ \A f \in Files : f # st.file => Flushed(d, st)[f] = d[f]
<1>1. st.file \in Files /\ st.pending \in [off : Nat, data : Seq(Nat)] /\ d[st.file] \in FileT
  BY DEF StreamT
<1> DEFINE p == Put(d[st.file].data, st.pending)
<1>2. p \in Seq(Nat)
  <2>1. st.pending = [off |-> st.pending.off, data |-> st.pending.data]
    BY <1>1
  <2>2. st.pending.off \in Nat /\ st.pending.data \in Seq(Nat) /\ d[st.file].data \in Seq(Nat)
    BY <1>1 DEF FileT
  <2> QED BY <2>1, <2>2, PutIs
<1>3. Flushed(d, st) = [d EXCEPT ![st.file].data = p]
  BY DEF Flushed
<1> HIDE DEF p
<1>4. [d[st.file] EXCEPT !.data = p] \in FileT
  BY <1>1, <1>2 DEF FileT
<1>5. [d[st.file] EXCEPT !.data = p].data = p
  BY <1>1 DEF FileT
<1>6. Flushed(d, st) = [d EXCEPT ![st.file] = [d[st.file] EXCEPT !.data = p]]
  BY <1>3
<1> QED BY <1>1, <1>4, <1>5, <1>6 DEF p

-----------------------------------------------------------------------------
(* The requests                                                              *)

\* Where a file's bytes do not change, and it has the same stream, the stream stays complete.
CompleteAt(i) ==
    Holds(i) /\ handles[i].alone /\ ~handles[i].readonly
        => Put(disk[handles[i].file].data, channels[i].pending) = handles[i].content

AllComplete == \A i \in Indices : CompleteAt(i)

LEMMA CompleteIs == FilesTyped /\ HandlesAreStreams => (StreamIsComplete <=> AllComplete)
<1> SUFFICES ASSUME FilesTyped, HandlesAreStreams PROVE StreamIsComplete <=> AllComplete
  OBVIOUS
<1>1. ASSUME NEW i \in Indices, Holds(i)
      PROVE  Flushed(disk, channels[i])[handles[i].file].data
                = Put(disk[handles[i].file].data, channels[i].pending)
  <2>1. channels[i] \in StreamT /\ channels[i].file = handles[i].file
    BY <1>1 DEF FilesTyped, HandlesAreStreams
  <2> QED BY <2>1, FlushedIs DEF FilesTyped
<1> QED BY <1>1 DEF StreamIsComplete, AllComplete, CompleteAt

\* The types of what an index holds.
LEMMA HeldIs ==
  ASSUME FilesTyped, HandlesAreStreams, NEW i \in Indices, Holds(i)
  PROVE  /\ channels[i] \in StreamT /\ handles[i] \in HandleT /\ channels[i] # NoStream
         /\ channels[i].file = handles[i].file /\ channels[i].readonly = handles[i].readonly
         /\ handles[i].file \in Files /\ disk[handles[i].file].data \in Seq(Nat)
<1>1. channels[i] \in StreamT /\ handles[i] \in HandleT /\ channels[i] # NoStream
      /\ channels[i].file = handles[i].file /\ channels[i].readonly = handles[i].readonly
  BY DEF FilesTyped, HandlesAreStreams, Holds
<1>2. handles[i].file \in Files
  BY <1>1 DEF HandleT
<1>3. disk[handles[i].file] \in FileT
  BY <1>2 DEF FilesTyped
<1> QED BY <1>1, <1>2, <1>3 DEF FileT

\* A request that only answers.
LEMMA AnswerInv ==
  ASSUME FilesInv, UNCHANGED <<disk, channels, handles, lost>>
  PROVE  FilesInv'
BY DEF FilesInv, FilesTyped, HandlesAreStreams, AloneIs, StreamIsComplete, Holds, Flushed

LEMMA CloseInv ==
  ASSUME FilesInv, NEW fn \in Indices, CloseFile(fn)
  PROVE  FilesInv' /\ ClosedIsComplete' /\ ReadsTheFile'
<1>1. FilesTyped /\ HandlesAreStreams /\ AloneIs /\ StreamIsComplete /\ Holds(fn)
  BY DEF FilesInv, CloseFile
<1> DEFINE st == channels[fn]
           h == handles[fn]
           d == Flushed(disk, st)
<1>2. /\ disk' = [d EXCEPT ![st.file].exec = TRUE]
      /\ channels' = [channels EXCEPT ![fn] = NoStream]
      /\ handles' = [handles EXCEPT ![fn] = NoStream]
      /\ reply' = [what |-> "close", handle |-> h] /\ lost' = lost
  BY DEF CloseFile, Qfclose, Served
<1>3. st \in StreamT /\ st.file = h.file /\ h.file \in Files /\ h \in HandleT
  BY <1>1, HeldIs
<1>4. /\ d \in [Files -> FileT] /\ d[h.file].data = Put(disk[h.file].data, st.pending)
      /\ \A f \in Files : f # h.file => d[f] = disk[f]
  BY <1>1, <1>3, FlushedIs DEF FilesTyped
<1> HIDE DEF d
<1>5. /\ disk' \in [Files -> FileT] /\ disk'[h.file].data = d[h.file].data
      /\ \A f \in Files : f # h.file => disk'[f] = disk[f]
  <2> HIDE DEF h, st
  <2> DEFINE e == [d[h.file] EXCEPT !.exec = TRUE]
  <2>1. d[h.file] \in FileT
    BY <1>3, <1>4
  <2>2. e \in FileT /\ e.data = d[h.file].data
    BY <2>1 DEF FileT
  <2>3. disk' = [d EXCEPT ![h.file] = e]
    BY <1>2, <1>3
  <2> HIDE DEF e
  <2> QED BY <1>3, <1>4, <2>2, <2>3
<1>6. \A i \in Indices : /\ handles'[i] = IF i = fn THEN NoStream ELSE handles[i]
                         /\ channels'[i] = IF i = fn THEN NoStream ELSE channels[i]
  BY <1>1, <1>2 DEF FilesTyped
<1>7. FilesTyped'
  BY <1>1, <1>2, <1>5 DEF FilesTyped
<1>8. HandlesAreStreams'
  BY <1>1, <1>6 DEF HandlesAreStreams, Holds
<1>9. AloneIs'
  BY <1>1, <1>2, <1>6 DEF AloneIs, Holds
<1>10. ASSUME NEW i \in Indices PROVE CompleteAt(i)'
  <2>1. SUFFICES ASSUME Holds(i)', handles'[i].alone, ~handles'[i].readonly
                 PROVE  Put(disk'[handles'[i].file].data, channels'[i].pending) = handles'[i].content
    BY DEF CompleteAt
  <2>2. i # fn /\ handles'[i] = handles[i] /\ channels'[i] = channels[i] /\ Holds(i)
    BY <2>1, <1>6 DEF Holds
  <2>3. handles[i].file # h.file /\ handles[i].file \in Files
    BY <2>1, <2>2, <1>1, HeldIs DEF AloneIs
  <2>4. CompleteAt(i)
    BY <1>1, CompleteIs DEF AllComplete
  <2> QED BY <2>1, <2>2, <2>3, <2>4, <1>5 DEF CompleteAt
<1>11. FilesInv'
  <2>1. AllComplete'
    BY <1>10 DEF AllComplete
  <2>2. StreamIsComplete'
    BY <2>1, <1>7, <1>8, CompleteIs, PTL
  <2> QED BY <2>2, <1>7, <1>8, <1>9 DEF FilesInv
<1>12. ClosedIsComplete'
  <2>1. SUFFICES ASSUME ~h.readonly, h.alone PROVE disk'[h.file].data = h.content
    BY <1>2 DEF ClosedIsComplete
  <2>2. CompleteAt(fn)
    BY <1>1, CompleteIs DEF AllComplete
  <2> QED BY <2>1, <2>2, <1>1, <1>4, <1>5 DEF CompleteAt
<1>13. ReadsTheFile'
  BY <1>2 DEF ReadsTheFile
<1> QED BY <1>11, <1>12, <1>13

\* What one request leaves of the other streams: it changes the file f alone, and the
\* index fn, whose stream has that file.
LEMMA OthersComplete ==
  ASSUME FilesInv, NEW fn \in Indices, NEW f \in Files, NEW i \in Indices, i # fn,
         \A g \in Files : g # f => disk'[g].data = disk[g].data,
         handles'[i] = handles[i], channels'[i] = channels[i],
         Holds(i) /\ handles[i].alone => handles[i].file # f
  PROVE  CompleteAt(i)'
<1>1. SUFFICES ASSUME Holds(i)', handles'[i].alone, ~handles'[i].readonly
               PROVE  Put(disk'[handles'[i].file].data, channels'[i].pending) = handles'[i].content
  BY DEF CompleteAt
<1>2. Holds(i)
  BY <1>1 DEF Holds
<1>3. handles[i].file # f /\ handles[i].file \in Files
  BY <1>1, <1>2, HeldIs DEF FilesInv
<1>4. CompleteAt(i)
  BY CompleteIs DEF FilesInv, AllComplete
<1> QED BY <1>1, <1>2, <1>3, <1>4 DEF CompleteAt

LEMMA WriteInv ==
  ASSUME FilesInv, NEW fn \in Indices, NEW off \in Nat, NEW bytes \in Seq(Nat),
         WriteFile(fn, off, bytes)
  PROVE  FilesInv' /\ ClosedIsComplete' /\ ReadsTheFile'
<1>1. FilesTyped /\ HandlesAreStreams /\ AloneIs /\ StreamIsComplete
      /\ Holds(fn) /\ ~handles[fn].readonly
  BY DEF FilesInv, WriteFile
<1> DEFINE st == channels[fn]
           h == handles[fn]
           w == [off |-> off, data |-> bytes]
           d == Flushed(disk, st)
           c == Put(h.content, w)
<1>2. /\ disk' = d /\ lost' = lost
      /\ channels' = [channels EXCEPT ![fn].pending = w]
      /\ handles' = [handles EXCEPT ![fn].content = c]
      /\ reply'.what = "write"
  BY DEF WriteFile, Qfseek, Served
<1>3. st \in StreamT /\ st.file = h.file /\ h.file \in Files /\ h \in HandleT
  BY <1>1, HeldIs
<1>4. /\ d \in [Files -> FileT] /\ d[h.file].data = Put(disk[h.file].data, st.pending)
      /\ \A f \in Files : f # h.file => d[f] = disk[f]
  BY <1>1, <1>3, FlushedIs DEF FilesTyped
<1> HIDE DEF d
<1>5. w \in [off : Nat, data : Seq(Nat)] /\ c \in Seq(Nat)
  <2>1. h.content \in Seq(Nat)
    BY <1>3 DEF HandleT
  <2> QED BY <2>1, PutIs
<1> HIDE DEF w, c
<1> DEFINE st2 == [st EXCEPT !.pending = w]
           h2 == [h EXCEPT !.content = c]
<1>6. /\ st2 \in StreamT /\ st2.file = st.file /\ st2.readonly = st.readonly /\ st2.pending = w
      /\ h2 \in HandleT /\ h2.file = h.file /\ h2.readonly = h.readonly /\ h2.alone = h.alone
      /\ h2.content = c
  BY <1>3, <1>5 DEF StreamT, HandleT
<1>7. /\ channels' = [channels EXCEPT ![fn] = st2] /\ handles' = [handles EXCEPT ![fn] = h2]
      /\ st2 # NoStream /\ h2 # NoStream
  BY <1>2, <1>6, NoStreamIs
<1> HIDE DEF st2, h2
<1>8. \A i \in Indices : /\ handles'[i] = IF i = fn THEN h2 ELSE handles[i]
                         /\ channels'[i] = IF i = fn THEN st2 ELSE channels[i]
  BY <1>1, <1>7 DEF FilesTyped
<1>9. FilesTyped'
  BY <1>1, <1>2, <1>4, <1>6, <1>7 DEF FilesTyped
<1>10. HandlesAreStreams'
  <2>1. h.readonly = st.readonly
    BY <1>1 DEF HandlesAreStreams
  <2> QED BY <2>1, <1>1, <1>3, <1>6, <1>7, <1>8 DEF HandlesAreStreams, Holds
<1>11. AloneIs'
  <2>1. \A i \in Indices : /\ Holds(i)' <=> Holds(i)
                           /\ handles'[i].file = handles[i].file
                           /\ handles'[i].alone = handles[i].alone
    <3>1. SUFFICES ASSUME NEW i \in Indices
                   PROVE /\ Holds(i)' <=> Holds(i)
                         /\ handles'[i].file = handles[i].file
                         /\ handles'[i].alone = handles[i].alone
      OBVIOUS
    <3>2. CASE i = fn
      BY <3>2, <1>1, <1>6, <1>7, <1>8 DEF Holds
    <3>3. CASE i # fn
      BY <3>3, <1>8 DEF Holds
    <3> QED BY <3>2, <3>3
  <2> HIDE DEF h
  <2> QED BY <2>1, <1>1, <1>2 DEF AloneIs
<1>12. ASSUME NEW i \in Indices PROVE CompleteAt(i)'
  <2>1. CASE i = fn
    <3>1. SUFFICES ASSUME h2.alone PROVE Put(d[h.file].data, w) = c
      BY <2>1, <1>2, <1>6, <1>8 DEF CompleteAt
    <3>2. CompleteAt(fn)
      BY <1>1, CompleteIs DEF AllComplete
    <3>3. Put(disk[h.file].data, st.pending) = h.content
      BY <3>1, <3>2, <1>1, <1>6 DEF CompleteAt
    <3> QED BY <3>3, <1>4 DEF c
  <2>2. CASE i # fn
    <3>1. \A g \in Files : g # h.file => disk'[g].data = disk[g].data
      BY <1>2, <1>4
    <3>2. Holds(i) /\ handles[i].alone => handles[i].file # h.file
      BY <2>2, <1>1 DEF AloneIs
    <3>3. handles'[i] = handles[i] /\ channels'[i] = channels[i]
      BY <2>2, <1>8
    <3> HIDE DEF h
    <3> QED BY <2>2, <3>1, <3>2, <3>3, <1>3, OthersComplete
  <2> QED BY <2>1, <2>2
<1>13. FilesInv'
  <2>1. AllComplete'
    BY <1>12 DEF AllComplete
  <2>2. StreamIsComplete'
    BY <2>1, <1>9, <1>10, CompleteIs, PTL
  <2> QED BY <2>2, <1>9, <1>10, <1>11 DEF FilesInv
<1> QED BY <1>2, <1>13 DEF ClosedIsComplete, ReadsTheFile

LEMMA OpenInv ==
  ASSUME FilesInv, NEW f \in Files, NEW readonly \in BOOLEAN, OpenFile(f, readonly)
  PROVE  FilesInv' /\ ClosedIsComplete' /\ ReadsTheFile'
<1>1. FilesTyped /\ HandlesAreStreams /\ AloneIs /\ StreamIsComplete
  BY DEF FilesInv
<1> DEFINE fn == FindFreeChannel
           old == disk[f].data
           st == [file |-> f, readonly |-> readonly, pending |-> NoBytes]
           alone == ~Shared(f)
           content == IF readonly THEN old ELSE <<>>
           h == [file |-> f, readonly |-> readonly, alone |-> alone, content |-> content]
<1>2. CASE UNCHANGED <<disk, channels, handles, lost>> /\ reply'.what = "open"
  BY <1>2, AnswerInv DEF ClosedIsComplete, ReadsTheFile
<1>3. CASE /\ fn # -1 /\ channels' = [channels EXCEPT ![fn] = st]
           /\ handles' = [Joined(f) EXCEPT ![fn] = h]
           /\ disk' = IF readonly THEN disk ELSE [disk EXCEPT ![f].data = <<>>]
           /\ reply'.what = "open" /\ lost' = lost
  <2>1. fn \in Indices /\ channels[fn] = NoStream
    BY <1>3, FreeChannel
  <2>2. handles[fn] = NoStream /\ ~Holds(fn)
    BY <1>1, <2>1 DEF HandlesAreStreams, Holds
  <2> HIDE DEF fn
  <2>3. disk[f] \in FileT /\ old \in Seq(Nat) /\ content \in Seq(Nat)
    <3>1. disk[f] \in FileT
      BY <1>1 DEF FilesTyped
    <3>2. <<>> \in Seq(Nat)
      OBVIOUS
    <3> QED BY <3>1, <3>2 DEF FileT
  <2>4. alone \in BOOLEAN
    OBVIOUS
  <2>5. /\ disk' \in [Files -> FileT] /\ disk'[f].data = content
        /\ \A g \in Files : g # f => disk'[g].data = disk[g].data
    <3>1. CASE readonly
      BY <3>1, <1>1, <1>3 DEF FilesTyped
    <3>2. CASE ~readonly
      <4> DEFINE empty == <<>>
                 e == [disk[f] EXCEPT !.data = empty]
      <4>0. empty \in Seq(Nat)
        OBVIOUS
      <4> HIDE DEF empty
      <4>1. e \in FileT /\ e.data = empty
        BY <2>3, <4>0 DEF FileT
      <4>2. disk' = [disk EXCEPT ![f] = e]
        BY <3>2, <1>3 DEF empty
      <4>3. content = empty
        BY <3>2 DEF empty
      <4> HIDE DEF e, content
      <4> QED BY <4>1, <4>2, <4>3, <1>1 DEF FilesTyped
    <3> QED BY <3>1, <3>2
  <2> HIDE DEF alone, content, old
  <2>6. st \in StreamT /\ st.file = f /\ st.readonly = readonly /\ st.pending = NoBytes
    BY DEF StreamT, NoBytes
  <2>7. h \in HandleT /\ h.file = f /\ h.readonly = readonly /\ h.alone = alone /\ h.content = content
    BY <2>3, <2>4 DEF HandleT
  <2>8. st # NoStream /\ h # NoStream
    BY <2>6, <2>7, NoStreamIs
  <2> HIDE DEF st, h
  <2> DEFINE Jo(i) == [handles[i] EXCEPT !.alone = FALSE]
  <2>9. \A i \in Indices : Joined(f)[i] = IF Holds(i) /\ handles[i].file = f THEN Jo(i) ELSE handles[i]
    BY DEF Joined, Holds
  <2>10. ASSUME NEW i \in Indices, Holds(i)
         PROVE  /\ handles[i] \in HandleT /\ Jo(i) \in HandleT /\ Jo(i) # NoStream
                /\ Jo(i).file = handles[i].file /\ Jo(i).readonly = handles[i].readonly
                /\ Jo(i).alone = FALSE
    <3>1. handles[i] \in HandleT
      BY <2>10, <1>1, HeldIs
    <3>2. /\ Jo(i) \in HandleT
          /\ Jo(i).file = handles[i].file /\ Jo(i).readonly = handles[i].readonly
          /\ Jo(i).alone = FALSE
      BY <3>1 DEF HandleT
    <3> HIDE DEF Jo
    <3> QED BY <3>1, <3>2, NoStreamIs
  <2> HIDE DEF Jo
  <2>11. Joined(f) \in [Indices -> HandleT \cup {NoStream}]
    <3>1. \A i \in Indices : Joined(f)[i] \in HandleT \cup {NoStream}
      BY <2>9, <2>10, <1>1 DEF FilesTyped
    <3>2. Joined(f) = [i \in Indices |-> Joined(f)[i]]
      BY DEF Joined
    <3> QED BY <3>1, <3>2
  <2>12. \A i \in Indices : /\ handles'[i] = IF i = fn THEN h ELSE Joined(f)[i]
                            /\ channels'[i] = IF i = fn THEN st ELSE channels[i]
    BY <1>1, <1>3, <2>1, <2>11 DEF FilesTyped
  <2>13. FilesTyped'
    BY <1>1, <1>3, <2>5, <2>6, <2>7, <2>11 DEF FilesTyped
  <2>14. ASSUME NEW i \in Indices, i # fn
         PROVE  /\ Holds(i)' <=> Holds(i)
                /\ Holds(i) => /\ handles'[i].file = handles[i].file
                               /\ handles'[i].readonly = handles[i].readonly
                               /\ handles[i].file = f => handles'[i].alone = FALSE
                               /\ handles[i].file # f => handles'[i] = handles[i]
    BY <2>14, <2>9, <2>10, <2>12 DEF Holds
  <2>15. HandlesAreStreams'
    <3>1. SUFFICES ASSUME NEW i \in Indices
                   PROVE /\ Holds(i)' <=> channels'[i] # NoStream
                         /\ Holds(i)' => /\ channels'[i].file = handles'[i].file
                                         /\ channels'[i].readonly = handles'[i].readonly
      BY DEF HandlesAreStreams, Holds
    <3>2. CASE i = fn
      BY <3>2, <2>6, <2>7, <2>8, <2>12 DEF Holds
    <3>3. CASE i # fn
      BY <3>3, <2>12, <2>14, <1>1 DEF HandlesAreStreams
    <3> QED BY <3>2, <3>3
  <2>16. AloneIs'
    <3>1. SUFFICES ASSUME NEW i \in Indices, Holds(i)', handles'[i].alone
                   PROVE /\ \A j \in Indices : j # i /\ Holds(j)' => handles'[j].file # handles'[i].file
                         /\ \A s \in lost : s.file # handles'[i].file
      BY <1>3 DEF AloneIs, Holds
    <3>2. CASE i = fn
      <4>1. ~Shared(f) /\ handles'[i].file = f
        BY <3>1, <3>2, <2>7, <2>12 DEF alone
      <4>2. \A s \in lost : s.file # f
        BY <4>1 DEF Shared
      <4>3. ASSUME NEW j \in Indices, j # i, Holds(j)' PROVE handles'[j].file # f
        <5>1. Holds(j) /\ handles'[j].file = handles[j].file
          BY <4>3, <3>2, <2>14
        <5>2. channels[j] # NoStream /\ channels[j].file = handles[j].file
          BY <5>1, <1>1 DEF HandlesAreStreams
        <5> QED BY <5>1, <5>2, <4>1 DEF Shared
      <4> QED BY <4>1, <4>2, <4>3
    <3>3. CASE i # fn
      <4>1. Holds(i) /\ handles[i].file # f /\ handles'[i] = handles[i] /\ handles[i].alone
        BY <3>1, <3>3, <2>14
      <4>2. ASSUME NEW j \in Indices, j # i, Holds(j)' PROVE handles'[j].file # handles[i].file
        <5>1. CASE j = fn
          BY <5>1, <4>1, <2>7, <2>12
        <5>2. CASE j # fn
          BY <5>2, <4>1, <4>2, <2>14, <1>1 DEF AloneIs
        <5> QED BY <5>1, <5>2
      <4> QED BY <4>1, <4>2, <1>1 DEF AloneIs
    <3> QED BY <3>2, <3>3
  <2>17. ASSUME NEW i \in Indices PROVE CompleteAt(i)'
    <3>1. CASE i = fn
      <4>1. Put(content, NoBytes) = content
        BY <2>3, PutIs DEF NoBytes
      <4> QED BY <3>1, <4>1, <2>5, <2>6, <2>7, <2>12 DEF CompleteAt
    <3>2. CASE i # fn /\ Holds(i) /\ handles[i].file # f
      <4>1. handles'[i] = handles[i] /\ channels'[i] = channels[i]
        BY <3>2, <2>12, <2>14
      <4> QED BY <3>2, <4>1, <2>1, <2>5, OthersComplete
    <3>3. CASE i # fn /\ ~(Holds(i) /\ handles[i].file # f)
      BY <3>3, <2>14 DEF CompleteAt
    <3> QED BY <3>1, <3>2, <3>3
  <2>18. FilesInv'
    <3>1. AllComplete'
      BY <2>17 DEF AllComplete
    <3>2. StreamIsComplete'
      BY <3>1, <2>13, <2>15, CompleteIs, PTL
    <3> QED BY <3>2, <2>13, <2>15, <2>16 DEF FilesInv
  <2> QED BY <1>3, <2>18 DEF ClosedIsComplete, ReadsTheFile
<1> HIDE DEF fn, st, h, alone, content, old
<1>4. \/ /\ fn # -1 /\ channels' = [channels EXCEPT ![fn] = st]
         /\ handles' = [Joined(f) EXCEPT ![fn] = h]
         /\ disk' = IF readonly THEN disk ELSE [disk EXCEPT ![f].data = <<>>]
         /\ reply'.what = "open" /\ lost' = lost
      \/ UNCHANGED <<disk, channels, handles, lost>> /\ reply'.what = "open"
  BY DEF OpenFile, Served, fn, st, h, alone, content, old
<1> QED BY <1>2, <1>3, <1>4

LEMMA EndInv == ASSUME FilesInv, EndSession PROVE FilesInv' /\ ClosedIsComplete' /\ ReadsTheFile'
<1>1. FilesTyped /\ HandlesAreStreams
  BY DEF FilesInv
<1>2. /\ lost' = lost \cup {channels[i] : i \in {j \in Indices : channels[j] # NoStream}}
      /\ channels' = [i \in Indices |-> NoStream] /\ handles' = [i \in Indices |-> NoStream]
      /\ reply' = NoReply /\ disk' = disk
  BY DEF EndSession, Served
<1>3. lost' \subseteq StreamT
  BY <1>1, <1>2 DEF FilesTyped
<1>4. FilesTyped'
  BY <1>1, <1>2, <1>3 DEF FilesTyped
<1>5. \A i \in Indices : ~Holds(i)' /\ channels'[i] = NoStream
  BY <1>2 DEF Holds
<1>6. FilesInv'
  BY <1>4, <1>5 DEF FilesInv, HandlesAreStreams, AloneIs, StreamIsComplete
<1> QED BY <1>2, <1>6 DEF NoReply, ClosedIsComplete, ReadsTheFile

LEMMA Element == ASSUME NEW t \in Seq(Nat), NEW i \in 1 .. Len(t) PROVE t[i] \in Nat
OBVIOUS

LEMMA FirstOne ==
  ASSUME NEW t \in Seq(Nat), Len(t) >= 1
  PROVE  SubSeq(t, 1, 1) = <<t[1]>> /\ t[1] \in Nat
<1> DEFINE one == 1
<1>1. one \in 1 .. Len(t) + 1 /\ one \in one - 1 .. Len(t) /\ t[one] \in Nat /\ one - one + 1 = one
      /\ one <= one
  OBVIOUS
<1> DEFINE u == SubSeq(t, one, one)
<1>2. /\ u \in Seq(Nat) /\ Len(u) = one /\ u[one] = t[one]
  <2> HIDE DEF one
  <2>1. /\ u \in Seq(Nat) /\ Len(u) = (IF one <= one THEN one - one + 1 ELSE 0)
        /\ \A i \in 1 .. one - one + 1 : u[i] = t[one + i - 1]
    BY <1>1, SubSeqProperties
  <2>2. one \in 1 .. one - one + 1 /\ one + one - 1 = one
    BY DEF one
  <2> QED BY <1>1, <2>1, <2>2
<1> HIDE DEF u
<1>3. u = <<t[1]>>
  BY <1>2 DEF one
<1> QED BY <1>1, <1>3 DEF u, one

LEMMA FromOn ==
  ASSUME NEW d \in Seq(Nat), NEW p \in Nat, p >= 1, NEW k \in Nat, p <= k, k <= Len(d)
  PROVE  /\ SubSeq(d, p, k) \in Seq(Nat) /\ Len(SubSeq(d, p, k)) = k - p + 1
         /\ SubSeq(d, p, k)[1] = d[p]
<1> DEFINE u == SubSeq(d, p, k)
<1>1. p \in Int /\ k \in Int /\ (\A i \in p .. k : d[i] \in Nat)
  OBVIOUS
<1>2. /\ u \in Seq(Nat) /\ Len(u) = (IF p <= k THEN k - p + 1 ELSE 0)
      /\ \A i \in 1 .. k - p + 1 : u[i] = d[p + i - 1]
  BY <1>1, SubSeqProperties
<1> HIDE DEF u
<1>3. 1 \in 1 .. k - p + 1 /\ p + 1 - 1 = p
  OBVIOUS
<1> QED BY <1>2, <1>3 DEF u

\* What is read is the first byte of what is in the file from there on.
LEMMA ReadInv ==
  ASSUME FilesInv, NEW fn \in Indices, NEW off \in 0 .. MaxLen, NEW size \in 0 .. MaxLen,
         ReadFile(fn, off, size)
  PROVE  FilesInv' /\ ClosedIsComplete' /\ ReadsTheFile'
<1>1. UNCHANGED <<disk, channels, handles, lost>> /\ FilesInv'
  BY AnswerInv DEF ReadFile
<1>2. Holds(fn) /\ FilesTyped /\ HandlesAreStreams
  BY DEF ReadFile, FilesInv
<1> DEFINE d == disk[channels[fn].file].data
           s2 == IF size > 0 THEN Qfread(d, off, size) ELSE 0
           r == SubSeq(ReadAt(d, off, size), 1, s2)
<1>3. /\ reply'.what = "read" /\ reply'.file = handles[fn].file /\ reply'.off = off
      /\ reply'.data = r
  BY DEF ReadFile, Served
<1>4. d \in Seq(Nat) /\ d = disk[handles[fn].file].data
  BY <1>2, HeldIs
<1>5. MaxLen \in Nat /\ off \in Nat /\ size \in Nat /\ size <= MaxLen
  BY FilesAssumption
<1>6. ReadsTheFile'
  <2>1. SUFFICES ASSUME r # <<>> PROVE IsPrefix(r, Get(d, off, MaxLen))
    BY <1>1, <1>3, <1>4 DEF ReadsTheFile
  <2> HIDE DEF d
  <2>2. s2 = 1 /\ size > 0 /\ off + size <= Len(d)
    <3>1. s2 # 1 => s2 = 0
      BY DEF Qfread
    <3>2. s2 = 0 => r = <<>>
      BY <1>4 DEF ReadAt, Get
    <3>3. s2 = 1
      BY <2>1, <3>1, <3>2
    <3> QED BY <3>3, <1>5 DEF Qfread
  <2> DEFINE n == IF off + size < Len(d) THEN off + size ELSE Len(d)
             m == IF off + MaxLen < Len(d) THEN off + MaxLen ELSE Len(d)
  <2>3. /\ n \in Nat /\ m \in Nat /\ off + 1 <= n /\ n <= m /\ m <= Len(d) /\ Len(d) \in Nat
    BY <2>2, <1>4, <1>5
  <2>4. r = SubSeq(SubSeq(d, off + 1, n), 1, 1) /\ Get(d, off, MaxLen) = SubSeq(d, off + 1, m)
    BY <2>2 DEF ReadAt, Get
  <2> HIDE DEF r, n, m
  <2>5. ASSUME NEW k \in Nat, off + 1 <= k, k <= Len(d)
        PROVE  /\ SubSeq(d, off + 1, k) \in Seq(Nat) /\ Len(SubSeq(d, off + 1, k)) = k - off
               /\ SubSeq(SubSeq(d, off + 1, k), 1, 1) = <<d[off + 1]>>
    <3> DEFINE p == off + 1
               t == SubSeq(d, p, k)
    <3>1. p \in Nat /\ p >= 1 /\ p <= k /\ k - p + 1 = k - off
      BY <2>5, <1>5
    <3> HIDE DEF p
    <3>2. t \in Seq(Nat) /\ Len(t) = k - p + 1 /\ t[1] = d[p]
      BY <3>1, <2>5, <1>4, FromOn
    <3> HIDE DEF t
    <3>3. Len(t) >= 1
      BY <3>1, <3>2, <2>5
    <3>4. SubSeq(t, 1, 1) = <<t[1]>>
      BY <3>2, <3>3, FirstOne
    <3> QED BY <3>1, <3>2, <3>4 DEF t, p
  <2>6. r = <<d[off + 1]>> /\ SubSeq(Get(d, off, MaxLen), 1, 1) = <<d[off + 1]>>
        /\ Len(Get(d, off, MaxLen)) = m - off
    BY <2>3, <2>4, <2>5
  <2> DEFINE g == Get(d, off, MaxLen)
             b == d[off + 1]
  <2>7. r = <<b>> /\ SubSeq(g, 1, 1) = <<b>> /\ Len(g) >= 1
    BY <2>3, <2>6, <1>5
  <2>71. b \in Nat
    <3>1. off + 1 \in 1 .. Len(d)
      BY <2>3, <1>5
    <3>2. \A i \in 1 .. Len(d) : d[i] \in Nat
      BY <1>4, Element
    <3> QED BY <3>1, <3>2
  <2> HIDE DEF g, b
  <2>72. <<b>> \in Seq(Nat) /\ Len(<<b>>) = 1 /\ <<b>>[1] = b
    BY <2>71
  <2>8. Len(r) = 1 /\ SubSeq(r, 1, 1) = <<b>>
    <3> DEFINE t == <<b>>
    <3>1. t \in Seq(Nat) /\ Len(t) = 1 /\ t[1] = b
      BY <2>72
    <3> HIDE DEF t
    <3>2. SubSeq(t, 1, 1) = <<t[1]>>
      BY <3>1, FirstOne
    <3> QED BY <2>7, <3>1, <3>2 DEF t
  <2>9. IsPrefix(r, g)
    BY <2>7, <2>8 DEF IsPrefix
  <2> QED BY <2>9 DEF g
<1> QED BY <1>1, <1>3, <1>6 DEF ClosedIsComplete

-----------------------------------------------------------------------------
(* Remote files: the invariant holds, and what follows from it               *)

LEMMA FilesInitInv == FilesInit => FilesInv /\ ClosedIsComplete /\ ReadsTheFile
<1> SUFFICES ASSUME FilesInit PROVE FilesInv /\ ClosedIsComplete /\ ReadsTheFile
  OBVIOUS
<1> DEFINE full == [i \in 1 .. MaxLen |-> i]
           empty == <<>>
<1>1. /\ disk \in [Files -> {[data |-> d, exec |-> FALSE] : d \in {empty, full}}]
      /\ channels = [i \in Indices |-> NoStream] /\ handles = [i \in Indices |-> NoStream]
      /\ reply = NoReply /\ lost = {}
  BY DEF FilesInit
<1>2. full \in Seq(Nat) /\ empty \in Seq(Nat)
  BY FilesAssumption
<1> HIDE DEF full, empty
<1>3. \A d \in {empty, full} : [data |-> d, exec |-> FALSE] \in FileT
  BY <1>2 DEF FileT
<1>4. FilesTyped
  <2>1. disk \in [Files -> FileT]
    BY <1>1, <1>3
  <2> QED BY <2>1, <1>1 DEF FilesTyped
<1>5. \A i \in Indices : ~Holds(i) /\ channels[i] = NoStream
  BY <1>1 DEF Holds
<1> QED BY <1>1, <1>4, <1>5
        DEF FilesInv, HandlesAreStreams, AloneIs, StreamIsComplete, NoReply, ClosedIsComplete, ReadsTheFile

LEMMA FilesNextInv ==
  FilesInv /\ ClosedIsComplete /\ ReadsTheFile /\ [FilesNext]_fileVars
     => FilesInv' /\ ClosedIsComplete' /\ ReadsTheFile'
<1> SUFFICES ASSUME FilesInv, ClosedIsComplete, ReadsTheFile, [FilesNext]_fileVars
             PROVE  FilesInv' /\ ClosedIsComplete' /\ ReadsTheFile'
  OBVIOUS
<1>1. CASE UNCHANGED fileVars
  <2>1. FilesInv'
    BY <1>1, AnswerInv DEF fileVars
  <2> QED BY <1>1, <2>1 DEF fileVars, ClosedIsComplete, ReadsTheFile
<1>2. ASSUME NEW fn \in Indices, NEW off \in 0 .. MaxLen, NEW bytes \in Data,
             WriteFile(fn, off, bytes)
      PROVE  FilesInv' /\ ClosedIsComplete' /\ ReadsTheFile'
  <2>1. off \in Nat
    BY FilesAssumption
  <2>2. \A b, c \in Bytes : <<b>> \in Seq(Nat) /\ <<b, c>> \in Seq(Nat)
    <3>1. SUFFICES ASSUME NEW b \in Bytes, NEW c \in Bytes
                   PROVE  <<b>> \in Seq(Nat) /\ <<b, c>> \in Seq(Nat)
      OBVIOUS
    <3>2. b \in Nat /\ c \in Nat
      BY FilesAssumption
    <3> QED BY <3>2
  <2>3. <<>> \in Seq(Nat)
    OBVIOUS
  <2>4. bytes \in Seq(Nat)
    <3>1. \/ bytes = <<>> \/ (\E b \in Bytes : bytes = <<b>>)
          \/ \E b, c \in Bytes : bytes = <<b, c>>
      BY DEF Data
    <3> QED BY <2>2, <2>3, <3>1
  <2> QED BY <1>2, <2>1, <2>4, WriteInv
<1>3. CASE FilesNext
  BY <1>2, <1>3, OpenInv, CloseInv, ReadInv, EndInv DEF FilesNext
<1> QED BY <1>1, <1>3

\* Every handle of the client is a stream of its own, what is written through it alone is
\* in the file when it is closed, and what is read is in the file: for every number of
\* channels and files, and any order of requests and ends of sessions.
THEOREM FilesKept == FilesSpec => []FilesAreKept
<1>1. FilesInv /\ ClosedIsComplete /\ ReadsTheFile => FilesAreKept
  BY DEF FilesInv, FilesAreKept
<1> QED BY <1>1, FilesInitInv, FilesNextInv, PTL DEF FilesSpec

=============================================================================
