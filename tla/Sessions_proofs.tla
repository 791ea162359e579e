-------------------------- MODULE Sessions_proofs --------------------------
(***************************************************************************)
(* The inductive invariant of Sessions: which debugger instances and which *)
(* processes the listed sessions hold, for any number of sessions and      *)
(* processes, with and without -k.                                         *)
(***************************************************************************)
EXTENDS Sessions, FiniteSetTheorems, TLAPS

-----------------------------------------------------------------------------
(* The inductive invariant *)

\* A listed session has its objects; they were made for accepted connections,
\* so the instance of the next connection is nobody's.
ObjectsExist ==
    \A s \in list : /\ sv[s].alive /\ Debmod(s).alive
                    /\ sv[s].dbg \in 1 .. accepted

NoneShared == \A s, r \in list : sv[s].dbg = sv[r].dbg => s = r

\* Until it takes up another, a session has the instance made for it.
OwnInstance == \A s \in list : sv[s].dbg = s

CurrentListed == current # 0 => current \in list

\* Only a lost connection raises the flag, and then the session is closing; the
\* sessions that are listed still when they are over have it raised.
ServedUnbroken == phase \in {"login", "serving"} => ~Debmod(current).broken_connection
SleepersBroken == \A s \in list \ {current} : Debmod(s).broken_connection

\* A process is held by one session, and a free process by none; no two sessions
\* remember the same process.
OneOwner == \A s, r \in list : \A p \in Pids : Owns(s, p) /\ Owns(r, p) => s = r
PidApart == \A s, r \in list : Debmod(s).pid = Debmod(r).pid /\ Debmod(s).pid # 0 => s = r
FreeUnowned == \A s \in list : \A p \in Pids : Owns(s, p) => proc[p] # "free"
TracedHeld == \A p \in Pids : proc[p] \in Traced => \E s \in list : Owns(s, p)

\* An exit status is the status of a process that has ended.
ExitOfDead == \A p \in Pids : status[p] = "exit" => proc[p] \in {"dead", "killed"}

\* StatusKept, with no process lost.
StatusHeld ==
    \A p \in Pids : proc[p] = "stopped" =>
        status[p] = "stop" \/ \E s \in list : Owns(s, p) /\ Debmod(s).stored = "stop"

Inv == /\ ObjectsExist /\ NoneShared /\ OwnInstance
       /\ CurrentListed /\ ServedUnbroken /\ SleepersBroken
       /\ OneOwner /\ PidApart /\ FreeUnowned /\ TracedHeld
       /\ ExitOfDead /\ StatusHeld

\* The session that took a process up serves with a deleted instance.  What is left
\* of the invariant then says of that session only which process it has lost.
Dangling == phase = "serving" /\ ~Usable(current)
TracedHeldOrLost == \A p \in Pids : proc[p] \in Traced => Lost(p) \/ \E s \in list : Owns(s, p)
AfterAdoption == DebuggersApart /\ OneOwner /\ TracedHeldOrLost /\ StatusKept

\* When the server process has ended only the types remain.
IInv == TypeOK /\ (up => Inv \/ (Dangling /\ AfterAdoption))

-----------------------------------------------------------------------------
(* Types *)

\* Writing one debugger instance; index 0 is no instance.
LEMMA SetTyped ==
    ASSUME TypeOK, NEW d \in Ids \cup {0}, NEW r, d \in Ids => r \in DebmodObject,
           SetDebmod(d, r)
    PROVE  dm' \in [Ids -> DebmodObject]
BY DEF TypeOK, SetDebmod

LEMMA DebmodTyped ==
    ASSUME TypeOK, NEW s \in Ids
    PROVE  /\ sv[s].dbg \in Ids \cup {0}
           /\ sv[s].dbg \in Ids => Debmod(s) \in DebmodObject
BY DEF TypeOK, ServerObject, Debmod

LEMMA NoDebmodTyped == NoDebmod \in DebmodObject /\ NoServer \in ServerObject
BY DEF NoDebmod, DebmodObject, NoServer, ServerObject

LEMMA KillTyped ==
    ASSUME TypeOK, NEW ps
    PROVE  /\ ProcWithout(ps) \in [Pids -> ProcStates]
           /\ StatusWithout(ps) \in [Pids -> {"none", "stop", "exit"}]
BY DEF TypeOK, ProcWithout, StatusWithout, ProcStates, Traced

LEMMA CurrentIsSession ==
    ASSUME TypeOK, phase # "accept"
    PROVE  current \in Ids /\ current \in 1 .. accepted
BY SessionsAssumption DEF TypeOK, Ids

LEMMA ConnectionTypes == ASSUME TypeOK, Connection PROVE TypeOK'
<1>1. CASE Accept
  <2>1. accepted' \in Ids
    BY <1>1, SessionsAssumption DEF Accept, TypeOK, Ids
  <2>2. sv' \in [Ids -> ServerObject] /\ dm' \in [Ids -> DebmodObject]
    BY <1>1, <2>1, NoDebmodTyped DEF Accept, TypeOK, ServerObject, DebmodObject
  <2> QED  BY <1>1, <2>1, <2>2, SessionsAssumption DEF Accept, TypeOK, Ids
<1>2. CASE LoginAccepted
    BY <1>2 DEF LoginAccepted, TypeOK
<1>3. CASE LoginFailed
  <2>1. current \in Ids
    BY <1>3, CurrentIsSession DEF LoginFailed
  <2>2. PICK lost \in BOOLEAN : MyDebmod([Debmod(current) EXCEPT !.broken_connection = lost])
    BY <1>3 DEF LoginFailed
  <2>3. sv[current].dbg \in Ids =>
            [Debmod(current) EXCEPT !.broken_connection = lost] \in DebmodObject
    BY <2>1, DebmodTyped DEF DebmodObject
  <2>4. dm' \in [Ids -> DebmodObject]
    BY <2>1, <2>2, <2>3, DebmodTyped, SetTyped DEF MyDebmod
  <2> QED  BY <1>3, <2>4 DEF LoginFailed, TypeOK
<1>4. CASE ClientLeaves
  <2>1. current \in Ids
    BY <1>4, CurrentIsSession DEF ClientLeaves, Serving
  <2>2. PICK lost \in BOOLEAN :
            MyDebmod([Debmod(current) EXCEPT !.broken_connection = @ \/ lost])
    BY <1>4 DEF ClientLeaves
  <2>3. sv[current].dbg \in Ids =>
            [Debmod(current) EXCEPT !.broken_connection = @ \/ lost] \in DebmodObject
    BY <2>1, DebmodTyped DEF DebmodObject
  <2>4. dm' \in [Ids -> DebmodObject]
    BY <2>1, <2>2, <2>3, DebmodTyped, SetTyped DEF MyDebmod
  <2> QED  BY <1>4, <2>4, CurrentIsSession DEF ClientLeaves, Serving, TypeOK
<1>5. CASE CloseSession
  <2>1. current \in Ids
    BY <1>5, CurrentIsSession DEF CloseSession
  <2>2. /\ [sv EXCEPT ![current].open = FALSE] \in [Ids -> ServerObject]
        /\ [sv EXCEPT ![current] = NoServer] \in [Ids -> ServerObject]
    BY <2>1, NoDebmodTyped DEF TypeOK, ServerObject
  <2>3. sv' \in [Ids -> ServerObject] /\ list' \subseteq list
    BY <1>5, <2>2 DEF CloseSession
  <2>4. CASE Terminate
    <3> DEFINE r == [NoDebmod EXCEPT !.alive = Debmod(current).broken_connection,
                            !.broken_connection = Debmod(current).broken_connection]
    <3>1. sv[current].dbg \in Ids => r \in DebmodObject
      BY <2>1, DebmodTyped DEF DebmodObject, NoDebmod
    <3>2. SetDebmod(sv[current].dbg, r) /\ KillAll(Killed(Debmod(current)))
      BY <2>4 DEF Terminate, MyDebmod
    <3>3. dm' \in [Ids -> DebmodObject]
      BY <2>1, <3>1, <3>2, DebmodTyped, SetTyped
    <3> QED  BY <1>5, <2>3, <3>2, <3>3, KillTyped DEF CloseSession, BackToAccept, KillAll, TypeOK
  <2>5. CASE UNCHANGED <<dm, proc, status>>
    BY <1>5, <2>3, <2>5 DEF CloseSession, BackToAccept, TypeOK
  <2> QED  BY <1>5, <2>4, <2>5 DEF CloseSession
<1>6. CASE InitDebugger
  <2>1. current \in Ids
    BY <1>6, CurrentIsSession DEF InitDebugger, Serving
  <2>2. sv[current].dbg \in Ids =>
         [Debmod(current) EXCEPT !.pid = 0, !.handle = FALSE, !.stored = "none"] \in DebmodObject
    BY <2>1, DebmodTyped DEF DebmodObject
  <2>3. dm' \in [Ids -> DebmodObject]
    BY <1>6, <2>1, <2>2, DebmodTyped, SetTyped DEF InitDebugger, MyDebmod
  <2> QED  BY <1>6, <2>3 DEF InitDebugger, TypeOK
<1> QED  BY <1>1, <1>2, <1>3, <1>4, <1>5, <1>6 DEF Connection

\* The current session writes its own instance.
LEMMA MineTyped ==
    ASSUME TypeOK, phase # "accept", NEW r, MyDebmod(r),
           Debmod(current) \in DebmodObject => r \in DebmodObject
    PROVE  dm' \in [Ids -> DebmodObject]
BY CurrentIsSession, DebmodTyped, SetTyped DEF MyDebmod

LEMMA SetProcTyped ==
    ASSUME TypeOK, NEW p, NEW state \in ProcStates, NEW s \in {"none", "stop", "exit"},
           SetProc(p, state, s)
    PROVE  proc' \in [Pids -> ProcStates] /\ status' \in [Pids -> {"none", "stop", "exit"}]
BY DEF SetProc, TypeOK

LEMMA ProcessTypes == ASSUME TypeOK, NEW p \in Pids, Process(p) PROVE TypeOK'
<1>1. ASSUME UNCHANGED <<keep, up, accepted, list, current, phase, sv>>,
             dm' \in [Ids -> DebmodObject], proc' \in [Pids -> ProcStates],
             status' \in [Pids -> {"none", "stop", "exit"}]
      PROVE  TypeOK'
    BY <1>1 DEF TypeOK
<1>2. Serving => phase # "accept"
    BY DEF Serving
<1>3. Report(p) => proc' \in [Pids -> ProcStates]
    BY DEF Report, TypeOK, ProcStates, Traced
<1>4. CASE Attach(p)
  <2>1. Debmod(current) \in DebmodObject =>
         [Debmod(current) EXCEPT !.pid = p, !.handle = TRUE, !.stored = "none"] \in DebmodObject
    BY DEF DebmodObject
  <2>2. dm' \in [Ids -> DebmodObject]
    BY <1>2, <1>4, <2>1, MineTyped DEF Attach
  <2> QED  BY <1>1, <1>4, <2>2, SetProcTyped DEF Attach, ProcStates, Traced
<1>5. ASSUME NEW q \in Ids, Adopt(p, q) PROVE TypeOK'
  <2> DEFINE own == sv[current].dbg
             f == [dm EXCEPT ![own] = NoDebmod]
             r == [Debmod(q) EXCEPT !.alive = FALSE, !.handle = TRUE, !.broken_connection = FALSE]
  <2>1. current \in Ids /\ q \in list
    BY <1>2, <1>5, CurrentIsSession DEF Adopt, Candidates, Asleep
  <2>2. sv[q].dbg \in Ids \cup {0} /\ (sv[q].dbg \in Ids => r \in DebmodObject)
    BY DebmodTyped DEF DebmodObject
  <2>3. f \in [Ids -> DebmodObject]
    BY NoDebmodTyped DEF TypeOK
  <2>4. dm' = [f EXCEPT ![sv[q].dbg] = r]
    BY <1>5 DEF Adopt
  <2> HIDE DEF f, r
  <2>5. dm' \in [Ids -> DebmodObject]
    BY <2>2, <2>3, <2>4
  <2>6. sv' = [sv EXCEPT ![current].dbg = sv[q].dbg, ![q] = NoServer]
    BY <1>5 DEF Adopt
  <2>7. sv' \in [Ids -> ServerObject]
    BY <2>2, <2>6, NoDebmodTyped DEF TypeOK, ServerObject
  <2>8. list' \subseteq list
    BY <1>5 DEF Adopt, Unlisted
  <2>9. proc' \in [Pids -> ProcStates] /\ status' \in [Pids -> {"none", "stop", "exit"}]
    BY <1>5, KillTyped DEF Adopt, TypeOK
  <2> QED  BY <1>5, <2>5, <2>7, <2>8, <2>9 DEF Adopt, TypeOK
<1>13. ASSUME NEW q \in Ids, Refused(p, q) PROVE TypeOK'
  <2>1. sv[q].dbg \in Ids => [Debmod(q) EXCEPT !.handle = TRUE] \in DebmodObject
    BY DebmodTyped DEF DebmodObject
  <2>2. dm' \in [Ids -> DebmodObject]
    BY <1>13, <2>1, DebmodTyped, SetTyped DEF Refused
  <2> QED  BY <1>1, <1>13, <2>2 DEF Refused, TypeOK
<1>6. CASE Detach(p)
  <2>1. Debmod(current) \in DebmodObject =>
         [Debmod(current) EXCEPT !.handle = FALSE, !.stored = "none"] \in DebmodObject
    BY DEF DebmodObject
  <2>2. dm' \in [Ids -> DebmodObject]
    BY <1>2, <1>6, <2>1, MineTyped DEF Detach
  <2> QED  BY <1>1, <1>6, <2>2, SetProcTyped DEF Detach, ProcStates
<1>7. CASE ExitProcess(p)
  <2>1. Debmod(current) \in DebmodObject =>
         [Debmod(current) EXCEPT !.handle = FALSE] \in DebmodObject
    BY DEF DebmodObject
  <2>2. dm' \in [Ids -> DebmodObject]
    BY <1>2, <1>7, <2>1, MineTyped DEF ExitProcess
  <2> QED  BY <1>1, <1>7, <2>2, KillTyped DEF ExitProcess, KillAll
<1>8. CASE Stops(p)
    BY <1>1, <1>8, SetProcTyped DEF Stops, ProcStates, Traced, TypeOK
<1>9. CASE Dies(p)
    BY <1>1, <1>9, SetProcTyped DEF Dies, ProcStates, TypeOK
<1>10. CASE Collect(p)
  <2>1. status' \in [Pids -> {"none", "stop", "exit"}]
    BY <1>10 DEF Collect, TypeOK
  <2>2. proc' \in [Pids -> ProcStates]
    BY <1>3, <1>10 DEF Collect, TypeOK
  <2>3. ASSUME NEW q \in FindOwner(p),
               SetDebmod(sv[q].dbg, [Debmod(q) EXCEPT !.stored = status[p]])
        PROVE  dm' \in [Ids -> DebmodObject]
    <3>1. q \in Ids
      BY SessionsAssumption DEF FindOwner, TypeOK, Ids
    <3>2. Debmod(q) \in DebmodObject => [Debmod(q) EXCEPT !.stored = status[p]] \in DebmodObject
      BY DEF DebmodObject, TypeOK
    <3> QED  BY <2>3, <3>1, <3>2, DebmodTyped, SetTyped
  <2>4. dm' \in [Ids -> DebmodObject]
    BY <1>10, <2>3 DEF Collect, TypeOK
  <2> QED  BY <1>1, <1>10, <2>1, <2>2, <2>4 DEF Collect
<1>12. CASE Continue(p)
    BY <1>1, <1>12 DEF Continue, ProcStates, Traced, TypeOK
<1> QED  BY <1>4, <1>5, <1>6, <1>7, <1>8, <1>9, <1>10, <1>12, <1>13 DEF Process

LEMMA EndTypes == ASSUME TypeOK, Shutdown \/ Crash PROVE TypeOK'
<1>1. proc' \in [Pids -> ProcStates]
    BY DEF Shutdown, Crash, TypeOK, ProcStates
<1>2. sv' \in [Ids -> ServerObject]
  <2>1. CASE Shutdown
    BY <2>1 DEF Shutdown, TypeOK, ServerObject
  <2>2. CASE Crash
    BY <2>2 DEF Crash, TypeOK
  <2> QED  BY <2>1, <2>2
<1> QED  BY <1>1, <1>2 DEF Shutdown, Crash, TypeOK

\* The types, in the states after an adoption too.
THEOREM TypesHold == Spec => []TypeOK
<1>1. Init => TypeOK
    BY SessionsAssumption, SwitchesAssumption, NoDebmodTyped
       DEF Init, TypeOK, ProcStates
<1>2. TypeOK /\ [Next]_vars => TypeOK'
  <2> SUFFICES ASSUME TypeOK, [Next]_vars PROVE TypeOK'  OBVIOUS
  <2>1. CASE UNCHANGED vars
    BY <2>1 DEF vars, TypeOK
  <2> QED  BY <2>1, ConnectionTypes, ProcessTypes, EndTypes DEF Next
<1> QED  BY <1>1, <1>2, PTL DEF Spec
-----------------------------------------------------------------------------
(* The steps that write one instance *)

\* The instance of one listed session is not seen through another.
LEMMA OnlyOne ==
    ASSUME TypeOK, Inv, NEW q \in list, NEW r, SetDebmod(sv[q].dbg, r), sv' = sv
    PROVE  \A s \in list : Debmod(s)' = IF s = q THEN r ELSE Debmod(s)
<1>1. sv[q].dbg \in Ids
    BY SessionsAssumption DEF Inv, ObjectsExist, TypeOK, Ids
<1> QED  BY <1>1 DEF Inv, NoneShared, Debmod, SetDebmod, TypeOK

\* What a step does that writes the instance of one session and leaves the list
\* alone: it is enough to look at that session and its process.
LEMMA OneWritten ==
    ASSUME TypeOK, Inv, up, NEW q \in list, NEW r, SetDebmod(sv[q].dbg, r),
           UNCHANGED <<accepted, list, current, sv>>,
           r.alive,
           phase' \in {"login", "serving"} =>
               phase \in {"login", "serving"} /\ (q = current => ~r.broken_connection),
           q # current => r.broken_connection,
           r.pid \in {0, Debmod(q).pid} \/ \A s \in list \ {q} : Debmod(s).pid # r.pid,
           \A p \in Pids : r.handle /\ r.pid = p =>
               /\ proc'[p] # "free"
               /\ \A s \in list \ {q} : ~Owns(s, p),
           \A p \in Pids : proc'[p] = "free" => \A s \in list \ {q} : ~Owns(s, p),
           \A p \in Pids : proc'[p] \in Traced =>
               \/ r.handle /\ r.pid = p
               \/ proc[p] \in Traced /\ ~Owns(q, p),
           ExitOfDead',
           \A p \in Pids : proc'[p] = "stopped" =>
               \/ status'[p] = "stop"
               \/ r.handle /\ r.pid = p /\ r.stored = "stop"
               \/ /\ proc[p] = "stopped" /\ ~Owns(q, p)
                  /\ status[p] = "stop" => status'[p] = "stop"
    PROVE  Inv'
<1>1. \A s \in list : Debmod(s)' = IF s = q THEN r ELSE Debmod(s)
    BY OnlyOne
<1>2. \A s \in list, p \in Pids :
          Owns(s, p)' = IF s = q THEN r.handle /\ r.pid = p ELSE Owns(s, p)
    BY <1>1 DEF Owns
<1>3. ObjectsExist' /\ NoneShared' /\ CurrentListed'
    BY <1>1 DEF Inv, ObjectsExist, NoneShared, CurrentListed
<1>4. ServedUnbroken'
    BY <1>1 DEF Inv, ServedUnbroken, CurrentListed, TypeOK, Debmod
<1>9. OwnInstance' /\ SleepersBroken' /\ PidApart'
    BY <1>1 DEF Inv, OwnInstance, SleepersBroken, PidApart
<1>5. OneOwner' /\ FreeUnowned'
    BY <1>2 DEF Inv, OneOwner, FreeUnowned
<1>6. TracedHeld'
    BY <1>2 DEF Inv, TracedHeld
<1>7. ASSUME NEW p \in Pids, proc'[p] = "stopped", status'[p] # "stop"
      PROVE  \E s \in list : Owns(s, p)' /\ (Debmod(s).stored = "stop")'
  <2>1. CASE r.handle /\ r.pid = p /\ r.stored = "stop"
    BY <1>1, <1>2, <2>1
  <2>2. CASE proc[p] = "stopped" /\ ~Owns(q, p) /\ status[p] # "stop"
    <3>1. PICK s \in list : Owns(s, p) /\ Debmod(s).stored = "stop"
      BY <2>2 DEF Inv, StatusHeld
    <3> QED  BY <1>1, <1>2, <2>2, <3>1
  <2> QED  BY <1>7, <2>1, <2>2
<1>8. StatusHeld'
    BY <1>7 DEF StatusHeld
<1> QED  BY <1>3, <1>4, <1>5, <1>6, <1>8, <1>9 DEF Inv

\* A step that writes no instance.
LEMMA NoneWritten ==
    ASSUME TypeOK, Inv, up, UNCHANGED <<accepted, list, dm>>,
           \A s \in list : sv'[s].alive /\ sv'[s].dbg = sv[s].dbg,
           \/ UNCHANGED current /\ (phase' \in {"login", "serving"} =>
                                        phase \in {"login", "serving"})
           \/ current' = 0 /\ phase' = "accept" /\ Debmod(current).broken_connection,
           \A p \in Pids : proc'[p] = "free" => proc[p] = "free",
           \A p \in Pids : proc'[p] \in Traced => proc[p] \in Traced,
           ExitOfDead',
           \A p \in Pids : proc'[p] = "stopped" =>
               \/ status'[p] = "stop"
               \/ /\ proc[p] = "stopped"
                  /\ status[p] = "stop" => status'[p] = "stop"
    PROVE  Inv'
<1>1. \A s \in list : Debmod(s)' = Debmod(s)
    BY DEF Debmod
<1>2. \A s \in list, p \in Pids : Owns(s, p)' = Owns(s, p)
    BY <1>1 DEF Owns
<1>3. ObjectsExist' /\ NoneShared' /\ CurrentListed'
    BY <1>1 DEF Inv, ObjectsExist, NoneShared, CurrentListed
<1>4. ServedUnbroken'
  <2>1. CASE phase' \in {"login", "serving"}
    <3>1. current \in list /\ current' = current /\ phase \in {"login", "serving"}
      BY <2>1 DEF Inv, CurrentListed, TypeOK
    <3> QED  BY <3>1 DEF Inv, ServedUnbroken, Debmod
  <2> QED  BY <2>1 DEF ServedUnbroken
<1>5. OneOwner' /\ FreeUnowned'
    BY <1>2 DEF Inv, OneOwner, FreeUnowned
<1>6. TracedHeld'
    BY <1>2 DEF Inv, TracedHeld
<1>7. StatusHeld'
    BY <1>1, <1>2 DEF Inv, StatusHeld
<1>8. OwnInstance' /\ SleepersBroken' /\ PidApart'
    BY <1>1 DEF Inv, OwnInstance, SleepersBroken, PidApart
<1> QED  BY <1>3, <1>4, <1>5, <1>6, <1>7, <1>8 DEF Inv

\* In a session the current session is a listed one.
LEMMA CurrentServed ==
    ASSUME TypeOK, Inv, phase # "accept"
    PROVE  current \in list /\ Usable(current) /\ sv[current].dbg \in Ids
BY SessionsAssumption DEF TypeOK, Inv, CurrentListed, ObjectsExist, Usable, Ids

-----------------------------------------------------------------------------
(* The actions *)

LEMMA AcceptStep == ASSUME TypeOK, Inv, Accept PROVE Inv'
<1> PICK n \in Ids : n = accepted + 1
    BY SessionsAssumption DEF Accept, TypeOK, Ids
<1>1. n \notin list /\ accepted' = n /\ list' = list \cup {n} /\ current' = n
    BY DEF Accept, TypeOK
<1>2. \A s \in list : sv[s].dbg \in 1 .. accepted /\ sv[s].alive /\ s \in Ids
    BY SessionsAssumption DEF Inv, ObjectsExist, TypeOK, Ids
<1>3. /\ sv' = [sv EXCEPT ![n] = [alive |-> TRUE, open |-> TRUE, dbg |-> n]]
      /\ dm' = [dm EXCEPT ![n] = [NoDebmod EXCEPT !.alive = TRUE]]
    BY <1>1 DEF Accept
<1>4. \A s \in list : sv'[s] = sv[s] /\ Debmod(s)' = Debmod(s)
    BY <1>1, <1>2, <1>3 DEF TypeOK, Debmod
<1>5. /\ sv'[n] = [alive |-> TRUE, open |-> TRUE, dbg |-> n]
      /\ Debmod(n)' = [NoDebmod EXCEPT !.alive = TRUE]
    BY <1>1, <1>3 DEF TypeOK, Debmod
<1>6. \A p \in Pids : \A s \in list' : Owns(s, p)' = (s \in list /\ Owns(s, p))
    BY <1>1, <1>4, <1>5 DEF Owns, NoDebmod
<1>7. ObjectsExist'
    BY <1>1, <1>2, <1>4, <1>5 DEF Inv, ObjectsExist, TypeOK, NoDebmod
<1>8. NoneShared'
    BY <1>1, <1>2, <1>4, <1>5 DEF Inv, NoneShared, TypeOK
<1>9. CurrentListed' /\ ServedUnbroken'
    BY <1>1, <1>5 DEF CurrentListed, ServedUnbroken, NoDebmod, Debmod
<1>10. UNCHANGED <<proc, status, up>>
    BY DEF Accept
<1>11. OneOwner' /\ FreeUnowned'
    BY <1>1, <1>6, <1>10 DEF Inv, OneOwner, FreeUnowned
<1>13. TracedHeld'
    BY <1>1, <1>6, <1>10 DEF Inv, TracedHeld
<1>14. ExitOfDead'
    BY <1>10 DEF Inv, ExitOfDead
<1>12. StatusHeld'
    BY <1>1, <1>4, <1>6, <1>10 DEF Inv, StatusHeld
<1>15. OwnInstance'
    BY <1>1, <1>4, <1>5 DEF Inv, OwnInstance
<1>16. SleepersBroken'
    BY <1>1, <1>4 DEF Inv, SleepersBroken, Accept, TypeOK
<1>17. PidApart'
    BY <1>1, <1>4, <1>5 DEF Inv, PidApart, NoDebmod
<1> QED  BY <1>7, <1>8, <1>9, <1>11, <1>12, <1>13, <1>14, <1>15, <1>16, <1>17 DEF Inv

LEMMA ConnectionStep ==
    ASSUME TypeOK, Inv, LoginAccepted \/ LoginFailed \/ ClientLeaves \/ InitDebugger
    PROVE  Inv'
<1> DEFINE d == Debmod(current)
<1>1. phase # "accept"
    BY DEF LoginAccepted, LoginFailed, ClientLeaves, InitDebugger, Serving
<1>2. current \in list /\ d.alive
    BY <1>1, CurrentServed DEF Usable
<1>3. \A p \in Pids : Owns(current, p) <=> d.handle /\ d.pid = p
    BY <1>2 DEF Owns
<1>4. ExitOfDead' <=> ExitOfDead
    BY DEF ExitOfDead, LoginAccepted, LoginFailed, ClientLeaves, InitDebugger
<1>5. CASE LoginAccepted
    BY <1>4, <1>5, NoneWritten DEF LoginAccepted, Inv, ObjectsExist
<1>6. ASSUME NEW b, MyDebmod([d EXCEPT !.broken_connection = b]), phase' = "closing",
             UNCHANGED <<accepted, list, current, sv, proc, status>>, up
      PROVE  Inv'
  <2> DEFINE r == [d EXCEPT !.broken_connection = b]
  <2>1. r.alive /\ r.handle = d.handle /\ r.pid = d.pid /\ r.stored = d.stored
    BY <1>2, DebmodTyped, CurrentIsSession, CurrentServed, <1>1 DEF DebmodObject
  <2>2. \A p \in Pids : Owns(current, p) =>
            proc[p] # "free" /\ \A s \in list \ {current} : ~Owns(s, p)
    BY <1>2 DEF Inv, OneOwner, FreeUnowned
  <2>3. \A p \in Pids : proc[p] = "free" => \A s \in list : ~Owns(s, p)
    BY DEF Inv, FreeUnowned
  <2>4. \A p \in Pids : proc[p] = "stopped" /\ Owns(current, p) =>
            status[p] = "stop" \/ d.stored = "stop"
    BY <1>6, <2>2 DEF Inv, StatusHeld
  <2>5. SetDebmod(sv[current].dbg, r)
    BY <1>6 DEF MyDebmod
  <2>6. ExitOfDead'
    BY <1>6 DEF Inv, ExitOfDead
  <2>7. d = Debmod(current)
    OBVIOUS
  <2> HIDE DEF d, r
  <2> QED
    BY <1>2, <1>3, <1>6, <2>1, <2>2, <2>3, <2>4, <2>5, <2>6, <2>7, OneWritten
<1>7. CASE LoginFailed
    BY <1>6, <1>7 DEF LoginFailed
<1>8. CASE ClientLeaves
    BY <1>6, <1>8 DEF ClientLeaves, Serving
<1>9. CASE InitDebugger
  <2> DEFINE r == [d EXCEPT !.pid = 0, !.handle = FALSE, !.stored = "none"]
  <2>1. r.alive /\ ~r.handle /\ r.broken_connection = d.broken_connection /\ r.pid = 0
    BY <1>2, DebmodTyped, CurrentIsSession, CurrentServed, <1>1 DEF DebmodObject
  <2>2. \A p \in Pids : proc[p] \in Traced => ~Owns(current, p)
    BY <1>9 DEF InitDebugger
  <2> QED
    BY <1>2, <1>3, <1>4, <1>9, <2>1, <2>2, OneWritten
       DEF InitDebugger, Serving, MyDebmod, Inv, FreeUnowned, ServedUnbroken, Traced
<1> QED  BY <1>5, <1>7, <1>8, <1>9

\* The owner of a process, and what its status still says.
LEMMA OwnerFacts ==
    ASSUME TypeOK, Inv, NEW q \in list, NEW p \in Pids
    PROVE  /\ Owns(q, p) => proc[p] # "free" /\ \A s \in list \ {q} : ~Owns(s, p)
           /\ up /\ proc[p] = "stopped" /\ Owns(q, p) =>
                  status[p] = "stop" \/ Debmod(q).stored = "stop"
           /\ Debmod(q).alive /\ (Owns(q, p) <=> Debmod(q).handle /\ Debmod(q).pid = p)
           /\ Debmod(q) \in DebmodObject
<1>1. Owns(q, p) => proc[p] # "free" /\ \A s \in list \ {q} : ~Owns(s, p)
    BY DEF Inv, OneOwner, FreeUnowned
<1>2. up /\ proc[p] = "stopped" /\ Owns(q, p) =>
          status[p] = "stop" \/ Debmod(q).stored = "stop"
    BY <1>1 DEF Inv, StatusHeld
<1>3. Debmod(q).alive /\ (Owns(q, p) <=> Debmod(q).handle /\ Debmod(q).pid = p)
    BY DEF Inv, ObjectsExist, Owns
<1>4. q \in Ids /\ sv[q].dbg \in Ids
    BY SessionsAssumption DEF TypeOK, Inv, ObjectsExist, Ids
<1> QED  BY <1>1, <1>2, <1>3, <1>4, DebmodTyped

\* A session with a lost connection sleeps on under -k; any other ends, and its
\* process with it.
LEMMA CloseStep == ASSUME TypeOK, Inv, CloseSession PROVE Inv'
<1> DEFINE d == Debmod(current)
<1>1. current \in list /\ sv[current].dbg \in Ids /\ current \in Ids
    BY CurrentServed, CurrentIsSession DEF CloseSession
<1>2. CASE keep /\ d.broken_connection
  <2>1. sv' = [sv EXCEPT ![current].open = FALSE]
    BY <1>2 DEF CloseSession
  <2>2. \A s \in list : sv'[s].alive /\ sv'[s].dbg = sv[s].dbg
    BY <2>1, SessionsAssumption DEF TypeOK, ServerObject, Inv, ObjectsExist, Ids
  <2>3. UNCHANGED <<accepted, list, dm, proc, status>> /\ current' = 0 /\ phase' = "accept" /\ up
    BY <1>2 DEF CloseSession, BackToAccept
  <2>4. ExitOfDead'
    BY <2>3 DEF Inv, ExitOfDead
  <2> QED  BY <1>2, <2>2, <2>3, <2>4, NoneWritten
<1>3. CASE ~(keep /\ d.broken_connection)
  <2>1. /\ dm' = [dm EXCEPT ![sv[current].dbg] = [NoDebmod EXCEPT
                      !.alive = d.broken_connection, !.broken_connection = d.broken_connection]]
        /\ sv' = [sv EXCEPT ![current] = NoServer]
        /\ list' = list \ {current}
        /\ current' = 0 /\ phase' = "accept" /\ accepted' = accepted /\ up' = up /\ up
    BY <1>3 DEF CloseSession, Terminate, MyDebmod, SetDebmod, BackToAccept
  <2>2. /\ proc' = ProcWithout(Killed(d)) /\ status' = StatusWithout(Killed(d))
    BY <1>3 DEF CloseSession, Terminate, KillAll
  <2>3. \A s \in list' : sv'[s] = sv[s] /\ Debmod(s)' = Debmod(s)
    BY <1>1, <2>1 DEF Inv, NoneShared, Debmod, TypeOK
  <2>4. \A s \in list', p \in Pids : Owns(s, p)' = Owns(s, p)
    BY <2>3 DEF Owns
  <2>5. ObjectsExist' /\ NoneShared'
    BY <2>1, <2>3 DEF Inv, ObjectsExist, NoneShared
  <2>6. CurrentListed' /\ ServedUnbroken'
    BY <2>1 DEF CurrentListed, ServedUnbroken
  <2>7. \A p \in Pids : p \in Killed(d) <=> Owns(current, p) /\ proc[p] \in Traced
    BY <1>1, OwnerFacts DEF Killed
  <2> HIDE DEF d
  <2>8. \A p \in Pids : /\ proc'[p] = IF p \in Killed(d) THEN "killed" ELSE proc[p]
                        /\ status'[p] = IF p \in Killed(d) THEN "exit" ELSE status[p]
    BY <2>2 DEF ProcWithout, StatusWithout
  <2>9. OneOwner' /\ FreeUnowned'
    BY <2>1, <2>4, <2>8 DEF Inv, OneOwner, FreeUnowned
  <2>10. TracedHeld'
    BY <2>1, <2>4, <2>7, <2>8 DEF Inv, TracedHeld, Traced
  <2>11. ExitOfDead'
    BY <2>8 DEF Inv, ExitOfDead
  <2>13. OwnInstance' /\ SleepersBroken' /\ PidApart'
    BY <2>1, <2>3 DEF Inv, OwnInstance, SleepersBroken, PidApart
  <2>12. StatusHeld'
    <3>1. ASSUME NEW p \in Pids, proc'[p] = "stopped", status'[p] # "stop"
          PROVE  \E s \in list' : Owns(s, p)' /\ (Debmod(s).stored = "stop")'
      <4>1. proc[p] = "stopped" /\ status[p] # "stop" /\ ~Owns(current, p)
        BY <2>7, <2>8, <3>1 DEF Traced
      <4>2. PICK s \in list : Owns(s, p) /\ Debmod(s).stored = "stop"
        BY <2>1, <4>1 DEF Inv, StatusHeld
      <4>3. s \in list'
        BY <2>1, <4>1, <4>2
      <4> QED  BY <2>3, <2>4, <4>2, <4>3
    <3> QED  BY <3>1 DEF StatusHeld
  <2> QED  BY <2>5, <2>6, <2>9, <2>10, <2>11, <2>12, <2>13 DEF Inv
<1> QED  BY <1>2, <1>3

\* Attaching, detaching, killing and resuming the process of the session.
LEMMA OwnProcessStep ==
    ASSUME TypeOK, Inv, NEW p \in Pids,
           Attach(p) \/ Detach(p) \/ ExitProcess(p) \/ Continue(p)
    PROVE  Inv'
<1>1. current \in list /\ up /\ phase = "serving" /\ Debmod(current) \in DebmodObject
    BY CurrentServed, OwnerFacts
       DEF Attach, Detach, ExitProcess, Continue, Serving
<1>2. ~Debmod(current).broken_connection
    BY <1>1 DEF Inv, ServedUnbroken
<1>3. PICK c \in list : c = current
    BY <1>1
<1>4. PICK d \in DebmodObject : d = Debmod(c)
    BY <1>1, <1>3
<1>5. d.alive /\ \A u \in Pids : Owns(c, u) <=> d.handle /\ d.pid = u
    BY <1>4, OwnerFacts
<1>6. \A u \in Pids : Owns(c, u) => proc[u] # "free" /\ \A s \in list \ {c} : ~Owns(s, u)
    BY OwnerFacts
<1>7. \A u \in Pids : proc[u] = "free" => \A s \in list : ~Owns(s, u)
    BY DEF Inv, FreeUnowned
<1>8. \A u \in Pids : proc[u] = "stopped" /\ Owns(c, u) =>
          status[u] = "stop" \/ d.stored = "stop"
    BY <1>1, <1>4, OwnerFacts
<1>9. proc \in [Pids -> ProcStates] /\ status \in [Pids -> {"none", "stop", "exit"}]
    BY DEF TypeOK
<1>10. CASE Attach(p)
  <2> DEFINE r == [d EXCEPT !.pid = p, !.handle = TRUE, !.stored = "none"]
  <2>1. r.alive /\ r.handle /\ r.pid = p /\ r.broken_connection = d.broken_connection
    BY <1>5 DEF DebmodObject
  <2>2. /\ proc' = [proc EXCEPT ![p] = "held"] /\ status' = [status EXCEPT ![p] = "none"]
        /\ proc[p] = "free" /\ ~d.handle /\ SetDebmod(sv[c].dbg, r)
        /\ UNCHANGED <<accepted, list, current, phase, sv>>
    BY <1>3, <1>4, <1>10 DEF Attach, SetProc, MyDebmod
  <2>3. ExitOfDead'
    BY <1>9, <2>2 DEF Inv, ExitOfDead
  <2>4. \A s \in list \ {c} : Debmod(s).pid # p
    BY <1>3, <1>10 DEF Attach, Candidates, Asleep, Inv, SleepersBroken
  <2> HIDE DEF r
  <2> QED
    BY <1>1, <1>2, <1>3, <1>4, <1>5, <1>6, <1>7, <1>9, <2>1, <2>2, <2>3, <2>4, OneWritten
       DEF Traced
<1>11. CASE Detach(p)
  <2> DEFINE r == [d EXCEPT !.handle = FALSE, !.stored = "none"]
  <2>1. r.alive /\ ~r.handle /\ r.pid = d.pid /\ r.broken_connection = d.broken_connection
    BY <1>5 DEF DebmodObject
  <2>2. /\ proc' = [proc EXCEPT ![p] = "free"] /\ status' = [status EXCEPT ![p] = "none"]
        /\ Owns(c, p) /\ SetDebmod(sv[c].dbg, r)
        /\ UNCHANGED <<accepted, list, current, phase, sv>>
    BY <1>3, <1>4, <1>11 DEF Detach, SetProc, MyDebmod
  <2>3. ExitOfDead'
    BY <1>9, <1>11, <2>2 DEF Detach, Inv, ExitOfDead
  <2>4. \A u \in Pids : u # p => ~Owns(c, u)
    BY <1>5, <2>2
  <2> HIDE DEF r
  <2> QED
    BY <1>1, <1>2, <1>3, <1>4, <1>5, <1>6, <1>7, <1>9, <2>1, <2>2, <2>3, <2>4, OneWritten
       DEF Traced
<1>12. CASE ExitProcess(p)
  <2> DEFINE r == [d EXCEPT !.handle = FALSE]
  <2>1. r.alive /\ ~r.handle /\ r.pid = d.pid /\ r.broken_connection = d.broken_connection
    BY <1>5 DEF DebmodObject
  <2>2. /\ proc' = ProcWithout({p}) /\ status' = StatusWithout({p})
        /\ Owns(c, p) /\ SetDebmod(sv[c].dbg, r)
        /\ UNCHANGED <<accepted, list, current, phase, sv>>
    BY <1>3, <1>4, <1>12 DEF ExitProcess, KillAll, MyDebmod
  <2>3. \A u \in Pids : /\ proc'[u] = IF u = p THEN "killed" ELSE proc[u]
                        /\ status'[u] = IF u = p THEN "exit" ELSE status[u]
    BY <2>2 DEF ProcWithout, StatusWithout
  <2>4. ExitOfDead'
    BY <2>3 DEF Inv, ExitOfDead
  <2>5. \A u \in Pids : u # p => ~Owns(c, u)
    BY <1>5, <2>2
  <2>6. \A u \in Pids :
           /\ proc'[u] = "free" => \A s \in list \ {c} : ~Owns(s, u)
           /\ proc'[u] \in Traced => proc[u] \in Traced /\ ~Owns(c, u)
           /\ proc'[u] = "stopped" =>
                  proc[u] = "stopped" /\ ~Owns(c, u) /\ status'[u] = status[u]
    BY <1>7, <2>3, <2>5 DEF Traced
  <2> HIDE DEF r
  <2> QED
    BY <1>1, <1>2, <1>3, <1>4, <2>1, <2>2, <2>4, <2>6, OneWritten
<1>13. CASE Continue(p)
  <2>1. proc' = [proc EXCEPT ![p] = "running"] /\ proc[p] = "held"
    BY <1>13 DEF Continue
  <2>2. UNCHANGED <<accepted, list, dm, current, phase, sv, status>>
    BY <1>13 DEF Continue
  <2>3. ExitOfDead'
    BY <1>9, <2>1, <2>2 DEF Inv, ExitOfDead
  <2> QED  BY <1>1, <1>9, <2>1, <2>2, <2>3, NoneWritten DEF Traced, Inv, ObjectsExist
<1> QED  BY <1>10, <1>11, <1>12, <1>13

\* A process stops or ends by itself.
LEMMA ProcessMoves ==
    ASSUME TypeOK, Inv, NEW p \in Pids, Stops(p) \/ Dies(p)
    PROVE  Inv'
<1>1. \A u \in Pids : u # p => proc'[u] = proc[u] /\ status'[u] = status[u]
    BY DEF Stops, Dies, SetProc, TypeOK
<1>2. \/ proc[p] = "running" /\ proc'[p] = "stopped" /\ status'[p] = "stop"
      \/ proc[p] \in Traced /\ proc'[p] = "dead" /\ status'[p] = "exit"
    BY DEF Stops, Dies, SetProc, TypeOK
<1>3. up /\ UNCHANGED <<accepted, list, current, phase, sv, dm>>
    BY DEF Stops, Dies
<1>4. ExitOfDead'
    BY <1>1, <1>2 DEF Inv, ExitOfDead
<1> QED  BY <1>1, <1>2, <1>3, <1>4, NoneWritten DEF Traced, Inv, ObjectsExist

\* A status the kernel gives to the current session reaches the client or is
\* stored with the owner of the process.
LEMMA CollectStep ==
    ASSUME TypeOK, Inv, NEW p \in Pids, Collect(p)
    PROVE  Inv'
<1>1. up /\ phase = "serving" /\ current \in list /\ status[p] # "none"
    BY CurrentServed DEF Collect, Serving
<1>2. UNCHANGED <<accepted, list, current, phase, sv>>
    BY DEF Collect
<1>3. \A u \in Pids : status'[u] = IF u = p THEN "none" ELSE status[u]
    BY DEF Collect, TypeOK
<1>4. \A u \in Pids : u # p \/ ~Owns(current, p) => proc'[u] = proc[u]
    BY DEF Collect, Report, TypeOK
<1>5. Owns(current, p) => proc'[p] = IF proc[p] = "stopped" THEN "held" ELSE proc[p]
    BY DEF Collect, Report, TypeOK
<1>6. ExitOfDead'
    BY <1>3, <1>4, <1>5 DEF Inv, ExitOfDead
<1>7. \A u \in Pids : /\ proc'[u] \in Traced <=> proc[u] \in Traced
                      /\ proc'[u] = "free" <=> proc[u] = "free"
                      /\ proc'[u] = "stopped" => proc[u] = "stopped"
    BY <1>4, <1>5 DEF Traced
<1>8. CASE UNCHANGED dm /\ (Owns(current, p) \/ FindOwner(p) = {})
  <2>1. proc[p] # "stopped" \/ Owns(current, p)
    BY <1>8 DEF Inv, TracedHeld, Traced, FindOwner
  <2>2. proc'[p] # "stopped"
    BY <1>4, <1>5, <2>1
  <2> QED
    BY <1>1, <1>2, <1>3, <1>6, <1>7, <1>8, <2>2, NoneWritten DEF Inv, ObjectsExist
<1>9. ASSUME NEW q \in FindOwner(p), ~Owns(current, p),
             SetDebmod(sv[q].dbg, [Debmod(q) EXCEPT !.stored = status[p]])
      PROVE  Inv'
  <2>1. q \in list /\ Owns(q, p)
    BY <1>9 DEF FindOwner
  <2>2. PICK d \in DebmodObject : d = Debmod(q)
    BY <2>1, OwnerFacts
  <2> DEFINE r == [d EXCEPT !.stored = status[p]]
  <2>3. r.alive /\ r.handle /\ r.pid = p /\ r.broken_connection = d.broken_connection
        /\ r.stored = status[p]
    BY <2>1, <2>2 DEF DebmodObject, Owns
  <2>4. SetDebmod(sv[q].dbg, r) /\ q # current /\ d.pid = p
    BY <1>9, <2>1, <2>2 DEF Owns
  <2>9. d.broken_connection
    BY <2>1, <2>2, <2>4 DEF Inv, SleepersBroken
  <2>5. \A u \in Pids : u # p => ~Owns(q, u)
    BY <2>1 DEF Owns
  <2>6. proc[p] # "free" /\ \A s \in list \ {q} : ~Owns(s, p)
    BY <2>1, OwnerFacts
  <2>7. proc[p] = "stopped" => status[p] = "stop"
    BY <1>1 DEF Inv, ExitOfDead, TypeOK
  <2>8. \A u \in Pids : proc[u] = "free" => \A s \in list : ~Owns(s, u)
    BY DEF Inv, FreeUnowned
  <2>10. \A u \in Pids :
           /\ proc'[u] = "free" => \A s \in list \ {q} : ~Owns(s, u)
           /\ proc'[u] \in Traced => u = p \/ (proc[u] \in Traced /\ ~Owns(q, u))
           /\ proc'[u] = "stopped" =>
                 \/ u = p /\ status[p] = "stop"
                 \/ proc[u] = "stopped" /\ ~Owns(q, u) /\ status'[u] = status[u]
    BY <1>3, <1>7, <2>5, <2>7, <2>8
  <2>11. proc'[p] # "free" /\ (phase' \in {"login", "serving"} => phase \in {"login", "serving"})
    BY <1>2, <1>7, <2>6
  <2> HIDE DEF r
  <2>12. \A u \in Pids : r.handle /\ r.pid = u =>
             proc'[u] # "free" /\ \A s \in list \ {q} : ~Owns(s, u)
    BY <2>3, <2>6, <2>11
  <2>13. \A u \in Pids : proc'[u] \in Traced =>
             (r.handle /\ r.pid = u) \/ (proc[u] \in Traced /\ ~Owns(q, u))
    BY <2>3, <2>10
  <2>14. \A u \in Pids : proc'[u] = "stopped" =>
             \/ status'[u] = "stop"
             \/ r.handle /\ r.pid = u /\ r.stored = "stop"
             \/ /\ proc[u] = "stopped" /\ ~Owns(q, u)
                /\ status[u] = "stop" => status'[u] = "stop"
    BY <2>3, <2>10
  <2>15. r.pid = Debmod(q).pid /\ (q = current => ~r.broken_connection)
    BY <2>2, <2>3, <2>4
  <2> QED
    BY <1>1, <1>2, <1>6, <2>1, <2>3, <2>4, <2>9, <2>10, <2>11, <2>12, <2>13, <2>14, <2>15, OneWritten
<1> QED  BY <1>8, <1>9 DEF Collect

\* An instance that is not taken up stays with its session.
LEMMA RefusedStep ==
    ASSUME TypeOK, Inv, NEW p \in Pids, NEW q \in Ids, Refused(p, q)
    PROVE  Inv'
<1>1. /\ up /\ q \in list /\ q # current /\ Debmod(q).broken_connection /\ Debmod(q).pid = p
      /\ UNCHANGED <<accepted, list, current, phase, sv, proc>>
      /\ proc[p] \in {"dead", "killed"} /\ phase = "serving"
    BY DEF Refused, Candidates, Asleep, Serving, Gone
<1>2. PICK d \in DebmodObject : d = Debmod(q)
    BY <1>1, OwnerFacts
<1> DEFINE r == [d EXCEPT !.handle = TRUE]
<1>3. r.alive /\ r.handle /\ r.pid = p /\ r.broken_connection /\ SetDebmod(sv[q].dbg, r)
    BY <1>1, <1>2, OwnerFacts DEF DebmodObject, Refused
<1>4. \A u \in Pids : status'[u] = IF u = p THEN "none" ELSE status[u]
    BY DEF Refused, TypeOK
<1>5. ExitOfDead'
    BY <1>1, <1>4 DEF Inv, ExitOfDead
<1>6. \A s \in list \ {q} : ~Owns(s, p)
    BY <1>1, SessionsAssumption DEF Inv, PidApart, Owns, TypeOK
<1>7. \A u \in Pids : (proc[u] = "free" => \A s \in list : ~Owns(s, u)) /\ (u # p => ~Owns(q, u))
    BY <1>1 DEF Inv, FreeUnowned, Owns
<1> HIDE DEF r
<1> QED  BY <1>1, <1>2, <1>3, <1>4, <1>5, <1>6, <1>7, OneWritten DEF Traced

\* Adopting: q's instance goes with q's server object, and the session that took it
\* up has nothing else.  What the other sessions hold stays with them.
LEMMA AdoptDangles ==
    ASSUME TypeOK, Inv, up, NEW p \in Pids, NEW q \in Ids, Adopt(p, q)
    PROVE  Dangling' /\ AfterAdoption'
<1>1. q \in list /\ q # current /\ current \in list /\ phase' = "serving" /\ Debmod(q).pid = p
    BY CurrentServed DEF Adopt, Candidates, Asleep, Serving
<1>2. sv[q].dbg = q /\ sv[current].dbg = current /\ q \in Ids /\ current \in Ids
    BY <1>1, SessionsAssumption DEF Inv, OwnInstance, TypeOK, Ids
<1>3. /\ sv' = [sv EXCEPT ![current].dbg = q, ![q] = NoServer]
      /\ dm' = [dm EXCEPT ![current] = NoDebmod,
                          ![q] = [Debmod(q) EXCEPT !.alive = FALSE, !.handle = TRUE,
                                                   !.broken_connection = FALSE]]
      /\ current' = current /\ list' = list \ {q}
    BY <1>2 DEF Adopt, Unlisted
<1>4. sv'[current].dbg = q /\ Debmod(current)' = dm'[q]
    BY <1>1, <1>2, <1>3 DEF TypeOK, ServerObject, Debmod
<1>5. ~dm'[q].alive /\ dm'[q].handle /\ dm'[q].pid = p
    BY <1>1, <1>2, <1>3 DEF TypeOK, DebmodObject, Debmod
<1>6. Dangling' /\ Lost(p)'
    BY <1>1, <1>3, <1>4, <1>5 DEF Dangling, Lost, Usable
<1>7. \A s \in list' \ {current} : sv'[s] = sv[s] /\ sv[s].dbg = s /\ Debmod(s)' = Debmod(s)
  <2>1. \A s \in list' \ {current} : sv'[s] = sv[s] /\ sv[s].dbg = s /\ s \in Ids
    BY <1>3, SessionsAssumption DEF TypeOK, Ids, Inv, OwnInstance
  <2> QED  BY <1>3, <2>1 DEF Debmod, TypeOK
<1>8. /\ \A s \in list' \ {current}, u \in Pids : Owns(s, u)' = Owns(s, u)
      /\ \A u \in Pids : ~Owns(current, u)
  <2>1. \A s \in list' \ {current}, u \in Pids : Owns(s, u)' = Owns(s, u)
    BY <1>7 DEF Owns
  <2> QED  BY <2>1 DEF Adopt, Owns
<1>9. \A u \in Pids : ~Owns(current, u)'
    BY <1>3, <1>4, <1>5 DEF Owns
<1>10. proc' = proc /\ \A u \in Pids : u # p => status'[u] = status[u]
    BY DEF Adopt, Dropped, Killed, ProcWithout, StatusWithout, TypeOK
<1>11. \A u \in Pids, s \in list : Owns(s, u) /\ u # p => s \in list' \ {current}
  <2>1. \A u \in Pids : u # p => ~Owns(q, u)
    BY <1>1 DEF Owns
  <2> QED  BY <1>3, <1>8, <2>1
<1>12. DebuggersApart'
  <2>1. \A s \in list' \ {current} : sv'[s].alive /\ Debmod(s)'.alive /\ sv'[s].dbg = s
    BY <1>3, <1>7 DEF Inv, ObjectsExist
  <2>2. sv'[current].dbg = q /\ q # current /\ q \notin list' /\ current' = current
    BY <1>1, <1>3, <1>4
  <2>3. \A s \in list' : (Usable(s))' \/ (s = current' /\ sv'[s].dbg # s)
    BY <2>1, <2>2 DEF Usable
  <2>4. \A s, r \in list' : s # r => sv'[s].dbg # sv'[r].dbg
    BY <2>1, <2>2
  <2> QED  BY <2>3, <2>4 DEF DebuggersApart
<1>13. OneOwner'
    BY <1>3, <1>8, <1>9 DEF Inv, OneOwner
<1>14. TracedHeldOrLost'
    BY <1>6, <1>8, <1>10, <1>11 DEF Inv, TracedHeld, TracedHeldOrLost
<1>15. StatusKept'
  <2>1. ASSUME NEW u \in Pids, proc'[u] = "stopped", status'[u] # "stop", ~Lost(u)'
        PROVE  \E s \in list' : Owns(s, u)' /\ (Debmod(s).stored = "stop")'
    <3>1. u # p
      BY <1>6, <2>1
    <3>2. PICK s \in list : Owns(s, u) /\ Debmod(s).stored = "stop"
      BY <1>10, <2>1, <3>1 DEF Inv, StatusHeld
    <3> QED  BY <1>7, <1>8, <1>11, <3>1, <3>2
  <2> QED  BY <2>1 DEF StatusKept
<1> QED  BY <1>6, <1>12, <1>13, <1>14, <1>15 DEF AfterAdoption

\* With a deleted instance the session does nothing the model still describes.
LEMMA DanglingStays ==
    ASSUME TypeOK, Dangling, AfterAdoption, Next
    PROVE  (Dangling' /\ AfterAdoption') \/ ~up'
<1>1. ~Connection
    BY DEF Dangling, Connection, Accept, LoginAccepted, LoginFailed, ClientLeaves, CloseSession,
           InitDebugger, Serving, TypeOK
<1>2. ASSUME NEW p \in Pids, Process(p) PROVE Stops(p) \/ Dies(p)
    BY <1>2 DEF Dangling, Process, Attach, Adopt, Refused, Detach, ExitProcess, Collect,
                Continue, Serving
<1>3. ASSUME NEW p \in Pids, Stops(p) \/ Dies(p) PROVE Dangling' /\ AfterAdoption'
  <2>1. UNCHANGED <<up, list, current, phase, sv, dm>>
    BY <1>3 DEF Stops, Dies
  <2>2. /\ proc[p] \in Traced /\ \A u \in Pids : u # p => UNCHANGED <<proc[u], status[u]>>
        /\ proc'[p] = "stopped" => status'[p] = "stop"
    BY <1>3 DEF Stops, Dies, SetProc, TypeOK, Traced
  <2>3. \A u \in Pids : proc'[u] \in Traced => proc[u] \in Traced
    BY <2>2
  <2>4. Dangling' /\ DebuggersApart'
    BY <2>1 DEF Dangling, AfterAdoption, DebuggersApart, Usable, Debmod
  <2>5. (\A s : Debmod(s)' = Debmod(s)) /\ (\A u : Lost(u)' = Lost(u))
    BY <2>1 DEF Debmod, Lost, Usable
  <2>6. \A s, u : Owns(s, u)' = Owns(s, u)
    BY <2>5 DEF Owns
  <2>7. OneOwner' /\ TracedHeldOrLost'
    BY <2>1, <2>3, <2>5, <2>6 DEF AfterAdoption, OneOwner, TracedHeldOrLost
  <2>8. StatusKept'
    BY <2>1, <2>2, <2>5, <2>6 DEF AfterAdoption, StatusKept
  <2> QED  BY <2>4, <2>7, <2>8 DEF AfterAdoption
<1>4. Shutdown \/ Crash => ~up'
    BY DEF Shutdown, Crash
<1> QED  BY <1>1, <1>2, <1>3, <1>4 DEF Next

LEMMA StepNeedsServer == Next => up
BY DEF Next, Connection, Process, Shutdown, Crash, Refused, Accept, LoginAccepted, LoginFailed, ClientLeaves,
       CloseSession, InitDebugger, Attach, Adopt, Detach, ExitProcess, Stops, Dies, Collect,
       Continue, Serving

\* Every step keeps the invariant.
THEOREM NextInv == IInv /\ [Next]_vars => IInv'
<1> SUFFICES ASSUME IInv, [Next]_vars PROVE IInv'  OBVIOUS
<1>1. TypeOK'
  <2>1. CASE UNCHANGED vars
    BY <2>1 DEF vars, TypeOK, IInv
  <2> QED  BY <2>1, ConnectionTypes, ProcessTypes, EndTypes DEF Next, IInv
<1>2. CASE UNCHANGED vars
  <2>1. Inv' <=> Inv
    BY <1>2 DEF vars, Inv, ObjectsExist, NoneShared, OwnInstance, CurrentListed, ServedUnbroken,
                SleepersBroken, OneOwner, PidApart, FreeUnowned, TracedHeld, ExitOfDead,
                StatusHeld, Owns, Debmod
  <2>2. (Dangling /\ AfterAdoption)' <=> Dangling /\ AfterAdoption
    BY <1>2 DEF vars, Dangling, AfterAdoption, DebuggersApart, OneOwner, TracedHeldOrLost,
                StatusKept, Lost, Owns, Usable, Debmod
  <2> QED  BY <1>1, <1>2, <2>1, <2>2 DEF IInv, vars
<1>3. CASE Next /\ Dangling /\ AfterAdoption
    BY <1>1, <1>3, DanglingStays DEF IInv
<1>4. CASE Next /\ ~(Dangling /\ AfterAdoption)
  <2>1. up /\ Inv /\ TypeOK
    BY <1>4, StepNeedsServer DEF IInv
  <2>2. CASE Shutdown \/ Crash
    BY <1>1, <2>2 DEF Shutdown, Crash, IInv
  <2>3. CASE Connection
    BY <1>1, <2>1, <2>3, AcceptStep, CloseStep, ConnectionStep DEF Connection, IInv
  <2>4. ASSUME NEW p \in Pids, Process(p) PROVE Inv' \/ (Dangling' /\ AfterAdoption')
    BY <2>1, <2>4, RefusedStep, AdoptDangles, OwnProcessStep, ProcessMoves, CollectStep DEF Process
  <2> QED  BY <1>1, <1>4, <2>2, <2>3, <2>4 DEF Next, IInv
<1> QED  BY <1>2, <1>3, <1>4

LEMMA InitInv == Init => IInv
<1> SUFFICES ASSUME Init PROVE IInv  OBVIOUS
<1>1. TypeOK
    BY SessionsAssumption, SwitchesAssumption, NoDebmodTyped DEF Init, TypeOK, ProcStates
<1>2. Inv
    BY DEF Init, Inv, ObjectsExist, NoneShared, OwnInstance, CurrentListed, ServedUnbroken,
           SleepersBroken, OneOwner, PidApart, FreeUnowned, TracedHeld, ExitOfDead, StatusHeld,
           Traced
<1> QED  BY <1>1, <1>2 DEF IInv

-----------------------------------------------------------------------------
(* What holds in every state, and of every step *)

LEMMA AlwaysIInv == Spec => []IInv
BY InitInv, NextInv, PTL DEF Spec

\* Before an adoption every session has its instance and nothing is lost.
LEMMA InvProperties ==
    ASSUME Inv
    PROVE  /\ DebuggersAlive /\ DebuggersApart /\ TracedOwned /\ StatusKept
           /\ \A p \in Pids : ~Lost(p) \/ phase # "serving" \/ current = 0
<1>1. DebuggersAlive
    BY DEF Inv, ObjectsExist, NoneShared, DebuggersAlive, Usable
<1>2. DebuggersApart
    BY <1>1 DEF DebuggersAlive, DebuggersApart
<1>3. TracedOwned
  <2> SUFFICES ASSUME up, NEW p \in Pids, proc[p] \in Traced
               PROVE  Cardinality({s \in list : Owns(s, p)}) = 1
    BY DEF TracedOwned
  <2>1. PICK s \in list : Owns(s, p)
    BY DEF Inv, TracedHeld
  <2>2. {q \in list : Owns(q, p)} = {s}
    BY <2>1 DEF Inv, OneOwner
  <2> QED  BY <2>2, FS_Singleton
<1>4. StatusKept
    BY DEF Inv, StatusHeld, StatusKept
<1>5. current # 0 => Usable(current)
    BY DEF Inv, ObjectsExist, CurrentListed, Usable
<1> QED  BY <1>1, <1>2, <1>3, <1>4, <1>5 DEF Lost

\* After one the same holds of all that is left.
LEMMA AfterProperties ==
    ASSUME AfterAdoption
    PROVE  DebuggersApart /\ TracedOwned /\ StatusKept
<1>1. TracedOwned
  <2> SUFFICES ASSUME up, NEW p \in Pids, proc[p] \in Traced, ~Lost(p)
               PROVE  Cardinality({s \in list : Owns(s, p)}) = 1
    BY DEF TracedOwned
  <2>1. PICK s \in list : Owns(s, p)
    BY DEF AfterAdoption, TracedHeldOrLost
  <2>2. {q \in list : Owns(q, p)} = {s}
    BY <2>1 DEF AfterAdoption, OneOwner
  <2> QED  BY <2>2, FS_Singleton
<1> QED  BY <1>1 DEF AfterAdoption

LEMMA IInvProperties == IInv => DebuggersApart /\ TracedOwned /\ StatusKept
<1>1. ~up => DebuggersApart /\ TracedOwned /\ StatusKept
    BY DEF DebuggersApart, TracedOwned, StatusKept
<1> QED  BY <1>1, InvProperties, AfterProperties DEF IInv

\* However often sessions sleep and are taken up again, no sleeping session loses
\* its debugger instance and no two sessions share one: the deleted instance is
\* only ever the one the current session has taken up (handle_single_session,
\* check_broken_connection).
THEOREM InstancesApart == Spec => []DebuggersApart
BY IInvProperties, AlwaysIInv, PTL

\* Every traced process but that of the deleted instance belongs to exactly one
\* listed session: closing, sleeping, adopting, detaching and killing neither lose
\* nor share one.
THEOREM NoProcessLost == Spec => []TracedOwned
BY IInvProperties, AlwaysIInv, PTL

\* The status of a stopped process is in the kernel or with the owner of the
\* process, although waitpid(-1) hands it to whichever session asks.
THEOREM NoStatusLost == Spec => []StatusKept
BY IInvProperties, AlwaysIInv, PTL

\* Until a session serves with the instance of another one, every session has its
\* own and every traced process has its session: the adoption is the only step of
\* the server after which this fails.
THEOREM HoldsUntilAdopted ==
    Spec => [](up /\ (phase = "serving" => Usable(current)) =>
                   /\ DebuggersAlive
                   /\ \A p \in Pids : proc[p] \in Traced =>
                          Cardinality({s \in list : Owns(s, p)}) = 1)
<1>1. IInv => (up /\ (phase = "serving" => Usable(current)) =>
                   /\ DebuggersAlive
                   /\ \A p \in Pids : proc[p] \in Traced =>
                          Cardinality({s \in list : Owns(s, p)}) = 1)
    BY InvProperties DEF IInv, Dangling, TracedOwned, Lost
<1> QED  BY <1>1, AlwaysIInv, PTL

\* With -k no step of the server kills or lets go of a process whose client is
\* lost: only the process itself can end.
THEOREM AbandonedKept == Spec => ProcessKept
<1> DEFINE Kept == \A p \in Pids : Abandoned(p) /\ up' /\ proc[p] \in Traced =>
                       proc'[p] \in Traced \cup {"dead"}
<1>1. IInv /\ [Next]_vars => [Kept]_vars
  <2> SUFFICES ASSUME IInv, Next, NEW p \in Pids, Abandoned(p), up', proc[p] \in Traced
               PROVE  proc'[p] \in Traced \cup {"dead"}
    OBVIOUS
  <2>1. CASE proc'[p] = proc[p]
    BY <2>1
  <2>2. up
    BY StepNeedsServer
  <2>3. CASE Dangling /\ AfterAdoption
    <3>1. proc \in [Pids -> ProcStates]
      BY DEF IInv, TypeOK
    <3>2. ~Connection
      BY <2>3 DEF Dangling, Connection, Accept, LoginAccepted, LoginFailed, ClientLeaves,
                   CloseSession, InitDebugger, Serving, IInv, TypeOK
    <3>3. ASSUME NEW u \in Pids, Process(u) PROVE Stops(u) \/ Dies(u)
      BY <2>3, <3>3 DEF Dangling, Process, Attach, Adopt, Refused, Detach, ExitProcess, Collect,
                         Continue, Serving
    <3>4. ~Shutdown /\ ~Crash
      BY DEF Shutdown, Crash
    <3> QED  BY <3>1, <3>2, <3>3, <3>4 DEF Next, Stops, Dies, SetProc, Traced
  <2> SUFFICES ASSUME ~(Dangling /\ AfterAdoption) PROVE proc'[p] \in Traced \cup {"dead"}
    BY <2>3
  <2>4. TypeOK /\ Inv
    BY <2>2 DEF IInv
  <2>5. PICK s \in list : Owns(s, p) /\ Debmod(s).broken_connection
    BY DEF Abandoned
  <2>6. keep
    BY DEF Abandoned
  <2>7. \A r \in list : Owns(r, p) => r = s
    BY <2>2, <2>4, <2>5 DEF Inv, OneOwner
  <2>8. phase = "serving" => ~Owns(current, p)
    BY <2>2, <2>4, <2>5, <2>7, CurrentServed DEF Inv, ServedUnbroken
  <2>9. CASE CloseSession
    <3>1. current \in list /\ up
      BY <2>4, <2>9, CurrentServed DEF CloseSession
    <3>2. p \in Killed(Debmod(current)) => Owns(current, p)
      BY <2>4, <3>1, OwnerFacts DEF Killed
    <3>3. (keep /\ Debmod(current).broken_connection) \/ p \notin Killed(Debmod(current))
      BY <2>5, <2>6, <2>7, <3>1, <3>2
    <3>4. proc' = proc \/ proc' = ProcWithout(Killed(Debmod(current)))
      BY <2>9 DEF CloseSession, Terminate, KillAll
    <3>5. CASE keep /\ Debmod(current).broken_connection
      BY <2>9, <3>5 DEF CloseSession
    <3> QED  BY <3>3, <3>4, <3>5 DEF ProcWithout
  <2>10. CASE Connection /\ ~CloseSession
    BY <2>10 DEF Connection, Accept, LoginAccepted, LoginFailed, ClientLeaves, InitDebugger
  <2>11. ASSUME NEW u \in Pids, Process(u) PROVE proc'[p] \in Traced \cup {"dead"}
    <3>1. proc \in [Pids -> ProcStates]
      BY <2>2, <2>4 DEF TypeOK
    <3>2. CASE Attach(u)
      BY <3>1, <3>2 DEF Attach, SetProc, Traced
    <3>3. ASSUME NEW q \in Ids, Adopt(u, q) PROVE proc'[p] \in Traced \cup {"dead"}
      <4>1. Killed(Debmod(current)) = {}
        BY <3>3 DEF Adopt, Killed
      <4> QED  BY <3>3, <4>1 DEF Adopt, Dropped, ProcWithout
    <3>4. CASE Detach(u)
      <4>1. u # p
        BY <2>8, <3>4 DEF Detach, Serving
      <4> QED  BY <3>1, <3>4, <4>1 DEF Detach, SetProc
    <3>5. CASE ExitProcess(u)
      <4>1. u # p
        BY <2>8, <3>5 DEF ExitProcess, Serving
      <4> QED  BY <3>5, <4>1 DEF ExitProcess, KillAll, ProcWithout
    <3>6. CASE Stops(u) \/ Dies(u) \/ Continue(u)
      BY <3>1, <3>6 DEF Stops, Dies, Continue, SetProc, Traced
    <3>7. CASE Collect(u)
      BY <3>1, <3>7 DEF Collect, Report, Traced
    <3>8. ASSUME NEW q \in Ids, Refused(u, q) PROVE proc'[p] \in Traced \cup {"dead"}
      BY <3>8 DEF Refused
    <3> QED  BY <2>11, <3>2, <3>3, <3>4, <3>5, <3>6, <3>7, <3>8 DEF Process
  <2>12. CASE Shutdown \/ Crash
    BY <2>12 DEF Shutdown, Crash
  <2> QED  BY <2>9, <2>10, <2>11, <2>12 DEF Next
<1> QED  BY <1>1, AlwaysIInv, PTL DEF Spec, ProcessKept
=============================================================================
