------------------------------ MODULE Tracefork ------------------------------
(* How the server finds out whether the kernel reports the threads a process    *)
(* starts (linux_test_for_tracefork): it traces a child of its own, lets it      *)
(* fork, and takes both processes away again. Any of them may be killed from     *)
(* outside meanwhile.                                                           *)
EXTENDS Integers, FiniteSets

CONSTANTS Kernels,   \* of "reports", "refuses" the option, "ignores" it
          MaxKills   \* bound: processes killed from outside

VARIABLES step,      \* where linux_test_for_tracefork is
          flag,      \* linux_supports_tracefork_flag
          status,    \* what the last successful waitpid wrote
          child, second, \* the processes
          kernel, kills, failed \* failed: a call failed that need not have

vars == <<step, flag, status, child, second, kernel, kills, failed>>

\* A process: state; what it stopped with or ended by; told, when the tracer has waited
\* for that; at, what it executes next; chld, when a SIGCHLD is pending.
Absent == [state |-> "absent", by |-> "none", told |-> TRUE, at |-> "none", chld |-> FALSE]
Running(p, at) == [p EXCEPT !.state = "running", !.at = at, !.told = TRUE, !.by = "none"]
Stopped(p, by, at) == [p EXCEPT !.state = "stopped", !.by = by, !.told = FALSE, !.at = at]
Dead(p, by) == [p EXCEPT !.state = "zombie", !.by = by, !.told = FALSE, !.chld = FALSE]
Alive(p) == p.state \in {"running", "stopped"}
NoStatus == [state |-> "absent", by |-> "none"]

------------------------------------------------------------------------------
(* The kernel and the two processes. *)

\* linux_tracefork_child: PTRACE_TRACEME, SIGSTOP for itself, fork, _exit. A fork that
\* fails is followed by the same _exit; one that is traced stops both processes.
ChildRuns ==
    /\ child.state = "running" /\ ~child.chld
    /\ \/ /\ child.at = "traceme"
          /\ \/ child' = Running(child, "stop") /\ UNCHANGED failed
             \/ child' = Dead(child, "exit") /\ failed' = TRUE
          /\ UNCHANGED second
       \/ /\ child.at = "stop"
          /\ child' = Stopped(child, "SIGSTOP", "fork") /\ UNCHANGED <<second, failed>>
       \/ /\ child.at = "fork"
          /\ \/ /\ child' = Running(child, "exit") /\ failed' = TRUE /\ UNCHANGED second
             \/ /\ kernel # "reports"
                /\ child' = Running(child, "exit") /\ second' = Running(Absent, "exit")
                /\ UNCHANGED failed
             \/ /\ kernel = "reports"
                /\ child' = Stopped(child, "fork", "exit")
                /\ second' = Stopped(Absent, "SIGSTOP", "exit")
                /\ UNCHANGED failed
       \/ /\ child.at = "exit" /\ child' = Dead(child, "exit") /\ UNCHANGED <<second, failed>>
    /\ UNCHANGED <<step, flag, status, kernel, kills>>

\* A traced process stops for a signal it would ignore.
ChildGetsChld ==
    /\ child.state = "running" /\ child.chld
    /\ child' = [Stopped(child, "SIGCHLD", child.at) EXCEPT !.chld = FALSE]
    /\ UNCHANGED <<step, flag, status, second, kernel, kills, failed>>

\* The end of a process is told to its parent, once its tracer has been told.
Orphaned(c) == [c EXCEPT !.chld = Alive(c)]

SecondRuns ==
    /\ second.state = "running"
    /\ second' = Dead(second, "exit")
    /\ child' = IF kernel = "reports" THEN child ELSE Orphaned(child)
    /\ UNCHANGED <<step, flag, status, kernel, kills, failed>>

Killed ==
    /\ kills < MaxKills /\ kills' = kills + 1
    /\ \/ Alive(child) /\ child' = Dead(child, "SIGKILL") /\ UNCHANGED second
       \/ Alive(second) /\ second' = Dead(second, "SIGKILL") /\ UNCHANGED child
    /\ UNCHANGED <<step, flag, status, kernel, failed>>

------------------------------------------------------------------------------
(* The server. *)

\* PTRACE_KILL kills a process that stopped for a signal; one that stopped for an event
\* may just go on, and one that runs is left alone.
PtraceKill(p) ==
    CASE p.state = "stopped" /\ p.by # "fork" -> {Dead(p, "SIGKILL")}
      [] p.state = "stopped" -> {Dead(p, "SIGKILL"), Running(p, p.at)}
      [] OTHER -> {p}

PtraceCont(p) == IF p.state = "stopped" /\ p.told THEN Running(p, p.at) ELSE p

\* waitpid comes back with a change it has not told of, or with an error when there is no
\* such process, and then leaves the status alone.
Changed(p) == p.state \in {"stopped", "zombie"} /\ ~p.told
Waited(p) == [p EXCEPT !.told = TRUE, !.state = IF @ = "zombie" THEN "gone" ELSE @]
StatusOf(p) == IF Changed(p) THEN [state |-> p.state, by |-> p.by] ELSE status
Returns(p) == Changed(p) \/ p.state \in {"gone", "absent"}

Go(to) == step' = to /\ UNCHANGED <<kernel, kills, failed>>

Test ==
    /\ step = "start" /\ flag = -1 /\ flag' = 0
    /\ \/ child' = Running(Absent, "traceme") /\ step' = "first" /\ UNCHANGED failed
       \/ step' = "done" /\ failed' = TRUE /\ UNCHANGED child
    /\ UNCHANGED <<status, second, kernel, kills>>

\* Anything but a stop ends the test.
FirstWait ==
    /\ step = "first" /\ Returns(child)
    /\ status' = StatusOf(child) /\ child' = Waited(child)
    /\ Go(IF status'.state = "stopped" THEN "options" ELSE "done")
    /\ UNCHANGED <<flag, second>>

\* The option is refused by the kernel, and for a process that is gone.
SetOptions ==
    /\ step = "options"
    /\ Go(IF kernel = "refuses" \/ ~Alive(child) THEN "refused" ELSE "resume")
    /\ UNCHANGED <<flag, status, child, second>>

\* PTRACE_KILL fails for a process that has died by itself; it is not waited for.
Refused ==
    /\ step = "refused"
    /\ child' \in PtraceKill(child)
    /\ \E to \in IF Alive(child) THEN {"refused_wait"} ELSE {"refused_wait", "done"} : Go(to)
    /\ UNCHANGED <<flag, status, second>>

RefusedWait ==
    /\ step = "refused_wait" /\ Returns(child)
    /\ status' = StatusOf(child) /\ child' = Waited(child) /\ Go("done")
    /\ UNCHANGED <<flag, second>>

Resume ==
    /\ step = "resume"
    /\ child' = PtraceCont(child) /\ Go("event") /\ UNCHANGED <<flag, status, second>>

EventWait ==
    /\ step = "event" /\ Returns(child)
    /\ status' = StatusOf(child) /\ child' = Waited(child)
    /\ Go(IF Changed(child) /\ status'.by = "fork" THEN "message" ELSE "kill")
    /\ UNCHANGED <<flag, second>>

\* PTRACE_GETEVENTMSG needs a process that is still stopped.
GetEventMsg ==
    /\ step = "message"
    /\ IF Alive(child) THEN flag' = 1 /\ Go("second") ELSE flag' = flag /\ Go("kill")
    /\ UNCHANGED <<status, child, second>>

SecondWait(from, to) ==
    /\ step = from /\ Returns(second)
    /\ status' = (IF from = "second" THEN status ELSE StatusOf(second))
    /\ second' = Waited(second)
    /\ child' = IF second'.state = "gone" /\ second.state = "zombie" THEN Orphaned(child) ELSE child
    /\ Go(to) /\ UNCHANGED flag

SecondKill ==
    /\ step = "second_kill"
    /\ second' \in PtraceKill(second) /\ Go("second_end") /\ UNCHANGED <<flag, status, child>>

\* do ... while: until the child has not merely stopped.
Kill ==
    /\ step = "kill"
    /\ child' \in PtraceKill(child) /\ Go("kill_wait") /\ UNCHANGED <<flag, status, second>>

\* Seeded bug: the child is killed once, and taken for dead when it stops.
KillWaitOnce ==
    /\ step = "kill_wait" /\ Returns(child)
    /\ status' = StatusOf(child) /\ child' = Waited(child) /\ Go("done")
    /\ UNCHANGED <<flag, second>>

KillWait ==
    /\ step = "kill_wait" /\ Returns(child)
    /\ status' = StatusOf(child) /\ child' = Waited(child)
    /\ Go(IF status'.state = "stopped" THEN "kill" ELSE "done")
    /\ UNCHANGED <<flag, second>>

------------------------------------------------------------------------------
Init ==
    /\ step = "start" /\ flag = -1 /\ status = NoStatus /\ child = Absent /\ second = Absent
    /\ kernel \in Kernels /\ kills = 0 /\ failed = FALSE

Server ==
    \/ Test \/ FirstWait \/ SetOptions \/ Refused \/ RefusedWait \/ Resume \/ EventWait
    \/ GetEventMsg \/ SecondWait("second", "second_kill") \/ SecondKill
    \/ SecondWait("second_end", "kill") \/ Kill \/ KillWait

Next == Server \/ ChildRuns \/ ChildGetsChld \/ SecondRuns \/ Killed

Spec == Init /\ [][Next]_vars

------------------------------------------------------------------------------
\* What the test says is true: the kernel reports forks when it says so, and it says so
\* unless a call failed or somebody else killed one of the processes.
SaysWhatIs ==
    step = "done" =>
      /\ flag = 1 => kernel = "reports"
      /\ kernel = "reports" /\ ~failed /\ kills = 0 => flag = 1

\* After the test nobody is left that runs, or stays stopped for good, unless somebody
\* else killed one of the processes: what is left ends by itself.
NobodyStays ==
    step = "done" /\ kills = 0 =>
      /\ child.state \in {"gone", "absent"}
      /\ IF kernel = "reports" THEN second.state \in {"gone", "absent"} ELSE second.state # "stopped"

\* The server never waits for a process that has nothing more to tell: it would not come
\* back (waitpid, linux_test_for_tracefork).
WaitedFor ==
    CASE step \in {"first", "refused_wait", "event", "kill_wait"} -> child
      [] step \in {"second", "second_end"} -> second
      [] OTHER -> Absent
ComesBack == Returns(WaitedFor) \/ WaitedFor.state = "running"

TestHolds == SaysWhatIs /\ NobodyStays /\ ComesBack
==============================================================================
