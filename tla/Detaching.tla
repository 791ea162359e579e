------------------------------ MODULE Detaching ------------------------------
(***************************************************************************)
(* dbg_detach_process on top of the thread engine: the SIGSTOPs that are   *)
(* still on their way are taken in (cleanup_signals), then every thread of *)
(* the table is detached, in the order of the map.                         *)
(***************************************************************************)
EXTENDS DebugThreads

VARIABLES freed        \* tasks PTRACE_DETACH has released

dvars == <<vars, freed>>

First(S) == CHOOSE t \in S : \A u \in S : t <= u

\* Seeded bug: the SIGSTOPs that are on their way are forgotten.
OwesNothing(m) == {}

\* Seeded bug: every thread is waited for.
OwesAll(m) == m.threads

\* Threads that stopped for another reason than the SIGSTOP they have been sent.
OwesStop(m) == {t \in m.threads : m.waiting_sigstop[t]}

\* The client detaches while it holds an event.
StartDetach ==
    /\ pc = "idle" /\ dm.in_event /\ ~dm.exited
    /\ queue' = OwesStop(dm)
    /\ pc' = "cleanup" /\ job' = Idle
    /\ UNCHANGED <<dm, cur, failed, kernel, budget, freed>>

\* cleanup_signals, first half: QASSERT 30181 and PTRACE_CONT.
CleanupContinue ==
    /\ pc = "cleanup" /\ queue # {} /\ ~job.ready
    /\ LET t == First(queue)
       IN IF dm.state[t] # "STOPPED"
          THEN failed' = 30181 /\ pc' = "halt" /\ UNCHANGED <<job, kernel>>
          ELSE /\ job' = [job EXCEPT !.tid = t, !.ready = TRUE]
               /\ Restart({t} \cap {u \in Tids : task[u] = "stop"})
               /\ UNCHANGED <<pc, failed>>
    /\ UNCHANGED <<dm, cur, queue, budget, freed>>

\* Second half: whatever the thread reports is consumed, a SIGSTOP or not.
CleanupSignal ==
    /\ pc = "cleanup" /\ queue # {} /\ job.ready
    /\ Reportable(job.tid)
    /\ Collect(job.tid, FALSE)
    /\ queue' = queue \ {job.tid} /\ job' = Idle
    /\ UNCHANGED <<dm, cur, pc, failed, sigs, budget, freed>>

\* check_for_signal with an endless timeout blocks while there is no status.
CleanupWait ==
    /\ pc = "cleanup" /\ queue # {} /\ job.ready
    /\ ~Reportable(job.tid)
    /\ UNCHANGED dvars

\* Threads the loop detaches; it ends at the first that is not stopped.
Reached(m) == {t \in m.threads : \A u \in m.threads : u <= t => task[u] = "stop"}

DetachThreads ==
    /\ pc = "cleanup" /\ queue = {}
    /\ freed' = freed \cup Reached(dm)
    /\ task' = [t \in Tids |-> IF t \in Reached(dm) THEN "run" ELSE task[t]]
    /\ IF \A t \in dm.threads : task[t] = "stop"
       THEN dm' = [dm EXCEPT !.events = Append(@, Ev("PROCESS_DETACH", Main)),
                             !.may_run = FALSE, !.in_event = FALSE, !.exited = TRUE,
                             !.threads = {}, !.process_handle = 0]
       ELSE UNCHANGED dm
    /\ pc' = "detached"
    /\ UNCHANGED <<cur, job, queue, failed, sigs, wstat, stopsig, child, budget>>

Detach == StartDetach \/ CleanupContinue \/ CleanupSignal \/ CleanupWait \/ DetachThreads

DetachInit == Init /\ freed = {}
DetachNext ==
    \/ Detach
    \/ pc # "detached" /\ Next /\ UNCHANGED freed
    \/ pc = "detached" /\ UNCHANGED dvars

\* The blocking waits of cleanup_signals end when the kernel has a status.
DetachSpec ==
    /\ DetachInit /\ [][DetachNext]_dvars
    /\ WF_dvars(CleanupContinue \/ CleanupSignal \/ DetachThreads)
    /\ \A t \in Tids : WF_dvars(/\ \E s \in Signals \cup {"SIGSTOP"} : TakeSignal(t, s)
                                /\ UNCHANGED freed)

\* linux_debmod.cpp:1910 "can not leave pending sigstop": no thread is released
\* with a SIGSTOP of the debugger on its way, which would stop the process for good.
NoStopLeft == \A t \in freed : "SIGSTOP" \notin sigs[t]

\* A detach that succeeds releases every task of the process, except new ones
\* whose parent's clone event the server has not looked at yet.
OnlyUnseenStay ==
    pc = "detached" /\ dm.process_handle = 0 =>
        \A t \in Tids : task[t] \in {"run", "stop"} /\ t \notin freed =>
            \E p \in Tids : child[p] = t /\ p # t /\ dm.pending_status[p] = "CLONE"

\* The wait for a SIGSTOP ends: one is always owed to a thread so marked.
DetachEnds == pc = "cleanup" ~> pc \in {"detached", "halt"}

\* What the detached process is left with: no stop of the debugger's, and no task
\* it still traces.
CleanRelease == NoStopLeft /\ OnlyUnseenStay
=============================================================================
