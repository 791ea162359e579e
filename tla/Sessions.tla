------------------------------ MODULE Sessions ------------------------------
(***************************************************************************)
(* The sessions of the debug server: the accept loop and                   *)
(* handle_single_session (jni/server.cpp), the life of rpc_server_t and of *)
(* its debugger instance (jni/rpc_server.cpp), and what linux_debmod_t     *)
(* does to its process when a session ends or is taken up again.           *)
(*                                                                         *)
(* On Linux the server has one thread (__SINGLE_THREADED_SERVER__), so     *)
(* sessions follow one another; with -k a session whose connection broke   *)
(* goes to sleep and keeps its process until a later session attaches to   *)
(* it.  The processes and wait statuses of all sessions belong to the one  *)
(* server process: waitpid(-1) of the current session collects them all.   *)
(***************************************************************************)
EXTENDS Integers, FiniteSets

CONSTANTS MaxSessions,   \* bound on the sessions accepted
          Pids,          \* processes that can be debugged
          Keeps,         \* the values of keep_broken_connections (switch -k) to try
          Interrupts     \* TRUE: the server may be stopped with SIGINT, SIGTERM or SIGHUP

ASSUME SessionsAssumption == MaxSessions \in Nat \ {0} /\ Pids \subseteq Nat \ {0}
ASSUME SwitchesAssumption == Keeps \subseteq BOOLEAN /\ Interrupts \in BOOLEAN

Ids == 1 .. MaxSessions   \* a session, its rpc_server_t and the debmod_t made for it

VARIABLES keep,       \* keep_broken_connections
          up,         \* the server process runs
          accepted,   \* number of connections accepted
          list,       \* clients_list
          current,    \* the session being handled, 0 in the accept loop
          phase,      \* where handle_single_session is
          sv,         \* the rpc_server_t objects
          dm,         \* the debmod_t objects
          proc,       \* the processes
          status      \* wait statuses the kernel holds

vars == <<keep, up, accepted, list, current, phase, sv, dm, proc, status>>

\* open: irs is not NULL; handle: process_handle is valid; stored: pending status.
ServerObject == [alive : BOOLEAN, open : BOOLEAN, dbg : Ids \cup {0}]
DebmodObject == [alive : BOOLEAN, broken_connection : BOOLEAN, pid : Pids \cup {0},
                 handle : BOOLEAN, stored : {"none", "stop", "exit"}]
NoServer == [alive |-> FALSE, open |-> FALSE, dbg |-> 0]
NoDebmod == [alive |-> FALSE, broken_connection |-> FALSE, pid |-> 0,
             handle |-> FALSE, stored |-> "none"]

\* "held": stopped, and its client knows why; "wild": left behind by the server.
Traced == {"running", "stopped", "held"}
ProcStates == Traced \cup {"free", "dead", "killed", "wild"}

\* Every value is one the program can have; what is not in use is not listed.
TypeOK ==
    /\ keep \in BOOLEAN /\ up \in BOOLEAN
    /\ accepted \in 0 .. MaxSessions
    /\ list \subseteq 1 .. accepted
    /\ current \in 0 .. accepted
    /\ phase \in {"accept", "login", "serving", "closing"}
    /\ sv \in [Ids -> ServerObject] /\ dm \in [Ids -> DebmodObject]
    /\ proc \in [Pids -> ProcStates] /\ status \in [Pids -> {"none", "stop", "exit"}]
    /\ current = 0 <=> phase = "accept"

Init ==
    /\ keep \in Keeps /\ up = TRUE
    /\ accepted = 0 /\ list = {} /\ current = 0 /\ phase = "accept"
    /\ sv = [s \in Ids |-> NoServer] /\ dm = [s \in Ids |-> NoDebmod]
    /\ proc = [p \in Pids |-> "free"] /\ status = [p \in Pids |-> "none"]

-----------------------------------------------------------------------------
Debmod(s) == dm[sv[s].dbg]

\* The current session works with an object that exists.
Usable(s) == sv[s].alive /\ Debmod(s).alive
Serving == up /\ phase = "serving" /\ Usable(current)

Asleep == list \ {current}
Owns(s, p) == Debmod(s).alive /\ Debmod(s).handle /\ Debmod(s).pid = p

SetDebmod(d, r) == dm' = [dm EXCEPT ![d] = r]
MyDebmod(r) == SetDebmod(sv[current].dbg, r)
SetProc(p, state, s) == proc' = [proc EXCEPT ![p] = state] /\ status' = [status EXCEPT ![p] = s]

\* dbg_exit_process, as the tables of processes and statuses after it.
Killed(d) == IF d.handle THEN {p \in {d.pid} : proc[p] \in Traced} ELSE {}
ProcWithout(ps) == [p \in Pids |-> IF p \in ps THEN "killed" ELSE proc[p]]
StatusWithout(ps) == [p \in Pids |-> IF p \in ps THEN "exit" ELSE status[p]]
KillAll(ps) == proc' = ProcWithout(ps) /\ status' = StatusWithout(ps)

-----------------------------------------------------------------------------
(* Connections *)

Accept ==
    /\ up /\ current = 0 /\ accepted < MaxSessions
    /\ accepted' = accepted + 1
    /\ current' = accepted' /\ list' = list \cup {accepted'} /\ phase' = "login"
    /\ sv' = [sv EXCEPT ![accepted'] = [alive |-> TRUE, open |-> TRUE, dbg |-> accepted']]
    /\ dm' = [dm EXCEPT ![accepted'] = [NoDebmod EXCEPT !.alive = TRUE]]
    /\ UNCHANGED <<keep, up, proc, status>>

LoginAccepted ==
    /\ up /\ phase = "login"
    /\ phase' = "serving"
    /\ UNCHANGED <<keep, up, accepted, list, current, sv, dm, proc, status>>

\* Wrong version, wrong password or no login packet; or the connection is lost.
LoginFailed ==
    /\ up /\ phase = "login"
    /\ \E lost \in BOOLEAN : MyDebmod([Debmod(current) EXCEPT !.broken_connection = lost])
    /\ phase' = "closing"
    /\ UNCHANGED <<keep, up, accepted, list, current, sv, proc, status>>

\* The client closes with RPC_OK, or the connection breaks.
ClientLeaves ==
    /\ Serving
    /\ \E lost \in BOOLEAN :
          MyDebmod([Debmod(current) EXCEPT !.broken_connection = @ \/ lost])
    /\ phase' = "closing"
    /\ UNCHANGED <<keep, up, accepted, list, current, sv, proc, status>>

\* Seeded bug: no dbg_term for a broken connection.
TerminateUnbroken ==
    LET d == Debmod(current)
    IN /\ KillAll(IF d.broken_connection THEN {} ELSE Killed(d))
       /\ MyDebmod([NoDebmod EXCEPT !.alive = d.broken_connection,
                                    !.broken_connection = d.broken_connection])

\* dbg_term, then delete server: ~rpc_server_t deletes the debugger instance
\* unless the connection is broken.
Terminate ==
    LET d == Debmod(current)
    IN /\ KillAll(Killed(d))
       /\ MyDebmod([NoDebmod EXCEPT !.alive = d.broken_connection,
                                    !.broken_connection = d.broken_connection])

BackToAccept == current' = 0 /\ phase' = "accept"

\* The end of handle_single_session.
CloseSession ==
    /\ up /\ phase = "closing"
    /\ IF keep /\ Debmod(current).broken_connection
       THEN /\ sv' = [sv EXCEPT ![current].open = FALSE]
            /\ UNCHANGED <<list, dm, proc, status>>
       ELSE /\ Terminate
            /\ sv' = [sv EXCEPT ![current] = NoServer]
            /\ list' = list \ {current}
    /\ BackToAccept
    /\ UNCHANGED <<keep, up, accepted>>

-----------------------------------------------------------------------------
(* Attaching and detaching *)

\* Sleeping sessions that check_broken_connection looks at for process p.
Candidates(p) == {q \in Asleep : Debmod(q).broken_connection /\ Debmod(q).pid = p}

\* handle_process_start waits for a status of the process first; one that has ended
\* is reaped by then at the latest, has no /proc entry, and is not taken up.
Gone(p) == proc[p] \in {"dead", "killed"}

Attach(p) ==
    /\ Serving /\ ~Debmod(current).handle
    /\ Candidates(p) = {} /\ proc[p] = "free"
    /\ MyDebmod([Debmod(current) EXCEPT !.pid = p, !.handle = TRUE, !.stored = "none"])
    /\ SetProc(p, "held", "none")
    /\ UNCHANGED <<keep, up, accepted, list, current, phase, sv>>

\* RPC_INIT: dbg_init calls dbg_term; the client does so between two processes.
InitDebugger ==
    /\ Serving /\ \A p \in Pids : Owns(current, p) => proc[p] \notin Traced
    /\ MyDebmod([Debmod(current) EXCEPT !.pid = 0, !.handle = FALSE, !.stored = "none"])
    /\ UNCHANGED <<keep, up, accepted, list, current, phase, sv, proc, status>>

\* Seeded bug: the sleeping session stays in clients_list.
UnlistedNot(q) == list' = list

Unlisted(q) == list' = list \ {q}

\* Seeded bug: the new debugger instance is assigned before the old one is closed.
DroppedSwapped(q) == Killed(Debmod(q))

\* dbg_term of the instance the session had so far.
Dropped(q) == Killed(Debmod(current))

\* check_broken_connection: the current session drops its own instance and takes
\* the one of q.  dbg_continue_broken_connection has reset broken_connection by
\* then, so that deleting q's rpc_server_t deletes this instance.  A status the
\* process had is collected with it.
Adopt(p, q) ==
    /\ Serving /\ ~Debmod(current).handle /\ q \in Candidates(p) /\ ~Gone(p)
    /\ dm' = [dm EXCEPT ![sv[current].dbg] = NoDebmod,
                        ![sv[q].dbg] = [Debmod(q) EXCEPT !.alive = FALSE, !.handle = TRUE,
                                                         !.broken_connection = FALSE]]
    /\ sv' = [sv EXCEPT ![current].dbg = sv[q].dbg, ![q] = NoServer]
    /\ Unlisted(q)
    /\ proc' = ProcWithout(Dropped(q))
    /\ status' = [StatusWithout(Dropped(q)) EXCEPT ![p] = "none"]
    /\ UNCHANGED <<keep, up, accepted, current, phase>>

\* The instance of q finds no process: it stays as it is, but for the handle that
\* handle_process_start has set before it looks.
Refused(p, q) ==
    /\ Serving /\ ~Debmod(current).handle /\ q \in Candidates(p) /\ Gone(p)
    /\ SetDebmod(sv[q].dbg, [Debmod(q) EXCEPT !.handle = TRUE])
    /\ status' = [status EXCEPT ![p] = "none"]
    /\ UNCHANGED <<keep, up, accepted, list, current, phase, sv, proc>>

Detach(p) ==
    /\ Serving /\ Owns(current, p) /\ proc[p] = "held"
    /\ MyDebmod([Debmod(current) EXCEPT !.handle = FALSE, !.stored = "none"])
    /\ SetProc(p, "free", "none")
    /\ UNCHANGED <<keep, up, accepted, list, current, phase, sv>>

ExitProcess(p) ==
    /\ Serving /\ Owns(current, p) /\ proc[p] \in Traced
    /\ MyDebmod([Debmod(current) EXCEPT !.handle = FALSE])
    /\ KillAll({p})
    /\ UNCHANGED <<keep, up, accepted, list, current, phase, sv>>

-----------------------------------------------------------------------------
(* Processes and their statuses *)

Stops(p) ==
    /\ up /\ proc[p] = "running"
    /\ SetProc(p, "stopped", "stop")
    /\ UNCHANGED <<keep, up, accepted, list, current, phase, sv, dm>>

Dies(p) ==
    /\ up /\ proc[p] \in Traced
    /\ SetProc(p, "dead", "exit")
    /\ UNCHANGED <<keep, up, accepted, list, current, phase, sv, dm>>

\* The debug event of a status reaches the client.
Report(p) ==
    proc' = [proc EXCEPT ![p] = IF @ = "stopped" THEN "held" ELSE @]

\* Seeded bug: only the current session's threads are searched.
FindOwnerHere(p) == {s \in {current} : Owns(s, p)}

\* for_all_debuggers with linux_signal_storer_t.
FindOwner(p) == {s \in list : Owns(s, p)}

\* get_debug_event: waitpid(-1) returns the status of any child What is stored for a
\* sleeping session would be taken by retrieve_pending_signal when somebody takes that
\* session up, but its instance is then deleted, so that no action does it.
Collect(p) ==
    /\ Serving /\ Debmod(current).handle /\ status[p] # "none"
    /\ status' = [status EXCEPT ![p] = "none"]
    /\ IF Owns(current, p) THEN Report(p) /\ UNCHANGED dm
       ELSE /\ UNCHANGED proc
            /\ IF FindOwner(p) = {} THEN UNCHANGED dm
               ELSE \E q \in FindOwner(p) :
                       SetDebmod(sv[q].dbg, [Debmod(q) EXCEPT !.stored = status[p]])
    /\ UNCHANGED <<keep, up, accepted, list, current, phase, sv>>

Continue(p) ==
    /\ Serving /\ Owns(current, p) /\ proc[p] = "held"
    /\ proc' = [proc EXCEPT ![p] = "running"]
    /\ UNCHANGED <<keep, up, accepted, list, current, phase, sv, dm, status>>

\* shutdown_gracefully skips the sessions whose irs is NULL.
ShutdownKills == UNION {Killed(Debmod(s)) : s \in {r \in list : sv[r].open}}

\* What is still traced when the server process exits runs on without it.
Shutdown ==
    /\ up /\ Interrupts
    /\ up' = FALSE /\ list' = {}
    /\ proc' = [p \in Pids |-> IF p \in ShutdownKills THEN "killed"
                               ELSE IF proc[p] \in Traced THEN "wild" ELSE proc[p]]
    /\ sv' = [s \in Ids |-> IF s \in list THEN [sv[s] EXCEPT !.open = FALSE] ELSE sv[s]]
    /\ UNCHANGED <<keep, accepted, current, phase, dm, status>>

\* The next request of a session whose instance is deleted uses freed memory: the
\* server breaks down, at once or later.  What it does until then is not followed.
Crash ==
    /\ up /\ phase = "serving" /\ ~Usable(current)
    /\ up' = FALSE /\ list' = {}
    /\ proc' = [p \in Pids |-> IF proc[p] \in Traced THEN "wild" ELSE proc[p]]
    /\ UNCHANGED <<keep, accepted, current, phase, sv, dm, status>>

-----------------------------------------------------------------------------
Connection == Accept \/ LoginAccepted \/ LoginFailed \/ ClientLeaves \/ CloseSession \/ InitDebugger
Process(p) == \/ Attach(p) \/ (\E q \in Ids : Adopt(p, q) \/ Refused(p, q))
              \/ Detach(p) \/ ExitProcess(p)
              \/ Stops(p) \/ Dies(p) \/ Collect(p) \/ Continue(p)

Next == Connection \/ (\E p \in Pids : Process(p)) \/ Shutdown \/ Crash
Spec == Init /\ [][Next]_vars

-----------------------------------------------------------------------------
(* Properties *)

\* Every session in clients_list has its server object and a debugger instance
\* that has not been deleted, and no two of them share one.
DebuggersAlive ==
    up => \A s \in list : Usable(s) /\ \A r \in list \ {s} : sv[r].dbg # sv[s].dbg

\* Of all the sessions in clients_list, only the current one can be left with a
\* deleted instance, and only with one it has taken up from another session: no
\* sleeping session loses its own, and no two sessions ever share one, which
\* for_all_debuggers would visit twice.
DebuggersApart ==
    up => \A s \in list :
              /\ Usable(s) \/ (s = current /\ sv[s].dbg # s)
              /\ \A r \in list \ {s} : sv[r].dbg # sv[s].dbg

\* The process of an instance that was deleted when the current session took it up.
Lost(p) == phase = "serving" /\ ~Usable(current) /\ Debmod(current).handle /\ Debmod(current).pid = p

\* No process is forgotten: whoever is traced belongs to exactly one listed
\* session, which can report on it, resume it and kill it; only the process of the
\* deleted instance belongs to nobody.
TracedOwned ==
    up => \A p \in Pids : proc[p] \in Traced =>
              Cardinality({s \in list : Owns(s, p)}) = 1 \/ Lost(p)

\* The status of a stopped process is not lost, whichever session collects it: the
\* kernel has it, or the owner of the process.
StatusKept ==
    up => \A p \in Pids : proc[p] = "stopped" =>
              \/ status[p] = "stop" \/ Lost(p)
              \/ \E s \in list : Owns(s, p) /\ Debmod(s).stored = "stop"

\* With -k a process whose client is lost is kept: until its session is taken up,
\* no step of the server kills it or lets it go.
Abandoned(p) == keep /\ \E s \in list : Owns(s, p) /\ Debmod(s).broken_connection
ProcessKept ==
    [][\A p \in Pids : Abandoned(p) /\ up' /\ proc[p] \in Traced =>
           proc'[p] \in Traced \cup {"dead"}]_vars
=============================================================================
