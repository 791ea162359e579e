---------------------------- MODULE DebugThreads ----------------------------
(***************************************************************************)
(* The thread and signal engine of the Android debug server:               *)
(* linux_debmod_t (jni/linux_debmod.cpp) with the clone handling of        *)
(* jni/linux_threads.cpp.  One debug session, one debugged process, the    *)
(* kernel's ptrace machinery around it, and a client that issues the       *)
(* requests of debmod_t one at a time.                                     *)
(*                                                                         *)
(* The object linux_debmod_t is the record dm.  A C++ member function that *)
(* only changes the object is an operator from a record to a record; a     *)
(* request is an action, cut where the code blocks in check_for_signal.    *)
(* The kernel is external: task, sigs, wstat, stopsig and child.           *)
(***************************************************************************)
EXTENDS Integers, Sequences, FiniteSets

CONSTANTS Tids,        \* thread ids, ordered as in the std::map
          Main,        \* process_handle, the id of the thread group leader
          Signals,     \* application signals other than SIGTRAP and SIGSTOP
          BreakOn,     \* signals whose exception_info_t says break_on()
          Mask,        \* signals whose exception_info_t says handle()
          Client,      \* the optional requests this client uses
          World,       \* what the debugged process may do
          MaxWorld,    \* bound on the number of such happenings
          MaxUser,     \* bound on user_suspend of one thread
          DeletedMax,  \* capacity of deleted_threads (10 in del_thread)
          QwaitStub    \* TRUE: qwait_timed is the stub of this tree's pro.cpp

Exits == {"EXITED", "SIGNALED"}
Stops == Signals \cup {"SIGSTOP", "SIGTRAP", "CLONE"}
Status == Exits \cup Stops
None == "none"

ASSUME TidsAssumption == Tids \subseteq Nat \ {0} /\ Main \in Tids /\ IsFiniteSet(Tids)
ASSUME SignalsAssumption ==
    Signals \cap {"EXITED", "SIGNALED", "SIGSTOP", "SIGTRAP", "CLONE", None} = {}
ASSUME BoundsAssumption == MaxWorld \in Nat /\ MaxUser \in Nat /\ DeletedMax \in Nat \ {0}
ASSUME StubAssumption == QwaitStub \in BOOLEAN

VARIABLES dm,       \* the linux_debmod_t object
          cur,      \* the event the client holds after get_debug_event
          pc,       \* where the server thread is
          job,      \* what the blocking call in progress is for
          queue,    \* dbg_freeze_threads: threads whose SIGSTOP is awaited
          failed,   \* number of the QASSERT that fired, 0 if none
          task, sigs, wstat, stopsig, child,   \* the kernel
          budget    \* happenings left

kernel == <<task, sigs, wstat, stopsig, child>>
vars == <<dm, cur, pc, job, queue, failed, kernel, budget>>

EventIds == {"PROCESS_START", "PROCESS_ATTACH", "PROCESS_EXIT", "PROCESS_SUSPEND",
             "THREAD_START", "THREAD_EXIT", "BREAKPOINT", "STEP", "EXCEPTION", "LIBRARY_LOAD"}
Event == [eid : EventIds, tid : Tids, sig : Status \cup {None}]
SignalEv(e, t, s) == [eid |-> e, tid |-> t, sig |-> s]
Ev(e, t) == SignalEv(e, t, None)

Job(what, t) == [for |-> what, tid |-> t, status |-> None, ready |-> FALSE]
EventJob(t, s, ready) == [for |-> "event", tid |-> t, status |-> s, ready |-> ready]
Idle == Job("none", Main)
Jobs == [for : {"none", "event", "memory", "suspend", "exit"}, tid : Tids,
         status : Status \cup {None}, ready : BOOLEAN]

-----------------------------------------------------------------------------
(* The linux_debmod_t object *)

Debmod == [threads : SUBSET Tids,
           state : [Tids -> {"RUNNING", "STOPPED", "DEAD"}],
           suspend_count : [Tids -> Nat],
           user_suspend : [Tids -> Nat],
           waiting_sigstop : [Tids -> BOOLEAN],
           pending_status : [Tids -> Status \cup {None}],   \* None: not got_pending_status
           single_step : [Tids -> BOOLEAN],
           child_signum : [Tids -> Status \cup {None}],
           deleted_threads : Seq(Tids),
           seen_threads : SUBSET Tids,
           events : Seq(Event),
           npending_signals : Int,
           may_run : BOOLEAN,
           requested_to_suspend : BOOLEAN,
           in_event : BOOLEAN,
           exited : BOOLEAN,
           last_tid : Tids \cup {0},
           process_handle : {Main, 0}]                      \* 0: INVALID_HANDLE_VALUE

NoProcess == [threads |-> {},
              state |-> [t \in Tids |-> "STOPPED"],
              suspend_count |-> [t \in Tids |-> 0],
              user_suspend |-> [t \in Tids |-> 0],
              waiting_sigstop |-> [t \in Tids |-> FALSE],
              pending_status |-> [t \in Tids |-> None],
              single_step |-> [t \in Tids |-> FALSE],
              child_signum |-> [t \in Tids |-> None],
              deleted_threads |-> << >>,
              seen_threads |-> {},
              events |-> << >>,
              npending_signals |-> 0,
              may_run |-> FALSE,
              requested_to_suspend |-> FALSE,
              in_event |-> FALSE,
              exited |-> FALSE,
              last_tid |-> 0,
              process_handle |-> Main]

Deleted(m) == {m.deleted_threads[i] : i \in 1 .. Len(m.deleted_threads)}

IsRunning(m, t) ==
    m.state[t] = "RUNNING" /\ ~m.waiting_sigstop[t] /\ m.pending_status[t] = None

\* Seeded bug: only a thread already marked as stopped is looked at.
RetrievableStopped(m) ==
    {t \in m.threads : /\ m.pending_status[t] # None
                       /\ m.state[t] = "STOPPED"
                       /\ m.user_suspend[t] = 0
                       /\ m.suspend_count[t] = 0}

\* Threads whose stored signal may be taken now.
Retrievable(m) ==
    {t \in m.threads : /\ m.pending_status[t] # None
                       /\ m.user_suspend[t] = 0
                       /\ m.suspend_count[t] = 0}

HasPendingEvents(m) == m.events # << >> \/ Retrievable(m) # {}

Enqueue(m, ev) == [m EXCEPT !.events = Append(@, ev), !.may_run = FALSE]
EnqueueFront(m, ev) == [m EXCEPT !.events = <<ev>> \o @, !.may_run = FALSE]

\* The SIGSTOP that was waited for has come.
SigstopArrived(m, t) == [m EXCEPT !.waiting_sigstop[t] = FALSE, !.state[t] = "STOPPED"]

Held(m) == [m EXCEPT !.may_run = FALSE]

\* std::map::insert of a new thread_info_t; an existing entry stays.
AddThread(m, t) ==
    IF t \in m.threads THEN m
    ELSE [m EXCEPT !.threads = @ \cup {t},
                   !.state[t] = "STOPPED",
                   !.suspend_count[t] = 0,
                   !.user_suspend[t] = 0,
                   !.waiting_sigstop[t] = FALSE,
                   !.pending_status[t] = None,
                   !.single_step[t] = FALSE,
                   !.child_signum[t] = None]

\* Seeded bug: the counter goes down whether or not a signal was stored.
DelThreadAlwaysCounts(m, t) ==
    [m EXCEPT !.npending_signals = @ - 1,
              !.threads = @ \ {t},
              !.pending_status[t] = None,
              !.deleted_threads = Append(IF Len(@) >= DeletedMax THEN Tail(@) ELSE @, t)]

DelThread(m, t) ==
    [m EXCEPT !.npending_signals = IF m.pending_status[t] # None THEN @ - 1 ELSE @,
              !.threads = @ \ {t},
              !.pending_status[t] = None,
              !.deleted_threads = Append(IF Len(@) >= DeletedMax THEN Tail(@) ELSE @, t)]

DeadThread(m, t) == DelThread(Enqueue(m, Ev("THREAD_EXIT", t)), t)

\* Seeded bug: an unknown thread that stopped is not remembered.
StorePendingSignalForgets(m, t, s) ==
    IF t \in m.threads THEN
        IF m.waiting_sigstop[t] /\ s = "SIGSTOP"
        THEN SigstopArrived(m, t)
        ELSE [m EXCEPT !.pending_status[t] = s, !.npending_signals = @ + 1]
    ELSE m

\* The status of a thread that nobody is waiting for.
StorePendingSignal(m, t, s) ==
    IF t \in m.threads THEN
        IF m.waiting_sigstop[t] /\ s = "SIGSTOP"
        THEN SigstopArrived(m, t)
        ELSE [m EXCEPT !.pending_status[t] = s, !.npending_signals = @ + 1]
    ELSE IF t \notin Deleted(m) /\ s \in Stops
         THEN [m EXCEPT !.seen_threads = @ \cup {t}]
         ELSE m

\* Seeded bug: the assertion forgets that exits may overtake a stored signal.
StoreAssertStrict(m, t, s) == t \in m.threads => m.pending_status[t] = None \/ m.exited

\* QASSERT 30185, stated before a status is stored.
StoreAssert(m, t, s) ==
    t \in m.threads => m.pending_status[t] = None \/ m.exited \/ s = "EXITED"

\* Same thread as the last event if it can be taken, else the first one: the
\* break in the loop over priorities leaves only the inner loop.
PendingChoice(m) ==
    {t \in Retrievable(m) : IF m.last_tid \in Retrievable(m) THEN t = m.last_tid
                            ELSE \A u \in Retrievable(m) : t <= u}

TakePending(m, t) ==
    [m EXCEPT !.pending_status[t] = None, !.npending_signals = @ - 1]

-----------------------------------------------------------------------------
(* The kernel: ptrace stops, signals and the status queue (external) *)

Reportable(t) ==
    /\ ~QwaitStub
    /\ wstat[t] # None
    \* the exit of the leader is reported when no other task is left
    /\ t = Main /\ wstat[t] \in Exits => \A u \in Tids \ {Main} : task[u] \in {"none", "gone"}

\* waitpid consumes the status; an exit status reaps the task.  resume_dying_thread
\* restarts a task that stopped after the debugger forgot it.
Collect(t, restart) ==
    /\ wstat' = [wstat EXCEPT ![t] = None]
    /\ task' = [task EXCEPT ![t] = IF wstat[t] \in Exits THEN "gone"
                                   ELSE IF restart THEN "run" ELSE @]
    /\ UNCHANGED <<stopsig, child>>

\* tkill(SIGSTOP) to every thread of S that still lives.
SendSigstop(S) ==
    /\ sigs' = [t \in Tids |-> IF t \in S /\ task[t] \in {"run", "stop"}
                               THEN sigs[t] \cup {"SIGSTOP"} ELSE sigs[t]]

\* PTRACE_CONT or PTRACE_SINGLESTEP.
Restart(S) ==
    /\ task' = [t \in Tids |-> IF t \in S THEN "run" ELSE task[t]]
    /\ stopsig' = [t \in Tids |-> IF t \in S THEN None ELSE stopsig[t]]
    /\ wstat' = [t \in Tids |-> IF t \in S THEN None ELSE wstat[t]]
    /\ UNCHANGED <<sigs, child>>

\* SIGKILL, or exit_group, takes every task of the process down.
TakeDown(status) ==
    LET alive == {t \in Tids : task[t] \in {"run", "stop"}}
    IN /\ task' = [t \in Tids |-> IF t \in alive THEN "zombie" ELSE task[t]]
       /\ wstat' = [t \in Tids |-> IF t \in alive THEN status ELSE wstat[t]]
       /\ sigs' = [t \in Tids |-> {}]
       /\ stopsig' = [t \in Tids |-> None]
       /\ UNCHANGED child

-----------------------------------------------------------------------------
(* Freezing and thawing *)

FreezeSet(m, S) == {t \in m.threads \cap S : IsRunning(m, t)}

\* dbg_freeze_threads up to the wait.  (Its ESRCH branch needs a thread that
\* is running for the debugger and already reaped; NoThreadLeftBehind says
\* that there is none.)
Freeze(m, S) ==
    [m EXCEPT !.suspend_count = [t \in Tids |-> IF t \in m.threads \cap S THEN @[t] + 1 ELSE @[t]],
              !.waiting_sigstop = [t \in Tids |-> @[t] \/ t \in FreezeSet(m, S)]]

StartFreeze(m, S, j) ==
    /\ dm' = Freeze(m, S)
    /\ queue' = FreezeSet(m, S)
    /\ job' = j
    /\ pc' = "freeze"

\* Seeded bug: may_run is not consulted.
RestartableAlways(m, S) ==
    {t \in m.threads \cap S : /\ m.state[t] = "STOPPED"
                              /\ m.suspend_count[t] <= 1
                              /\ m.user_suspend[t] = 0
                              /\ m.pending_status[t] = None
                              /\ ~m.exited}

\* Seeded bug: the suspension of the user is not consulted.
RestartableUser(m, S) ==
    {t \in m.threads \cap S : /\ m.state[t] = "STOPPED"
                              /\ m.suspend_count[t] <= 1
                              /\ m.pending_status[t] = None
                              /\ m.may_run
                              /\ ~m.exited}

\* Threads of S that dbg_thaw_threads tries to restart.
Restartable(m, S) ==
    {t \in m.threads \cap S : /\ m.state[t] = "STOPPED"
                              /\ m.suspend_count[t] <= 1
                              /\ m.user_suspend[t] = 0
                              /\ m.pending_status[t] = None
                              /\ m.may_run
                              /\ ~m.exited}

\* The loop runs in the order of the map.  The first zombie it meets is
\* reported, which clears may_run: later threads are not restarted.
Zombies(m, S) == {t \in Restartable(m, S) : task[t] = "zombie"}
FirstZombies(m, S) == {t \in Zombies(m, S) : \A u \in Zombies(m, S) : t <= u}
Restarted(m, S) ==
    {t \in Restartable(m, S) : task[t] = "stop" /\ \A z \in Zombies(m, S) : t < z}

\* Seeded bug: suspend_count is decremented without looking at it.
ThawedBelowZero(m, S) ==
    [m EXCEPT !.suspend_count = [t \in Tids |->
                  IF t \in m.threads \cap S /\ ~IsRunning(m, t) THEN @[t] - 1 ELSE @[t]],
              !.state = [t \in Tids |-> IF t \in Restarted(m, S) THEN "RUNNING"
                                        ELSE IF t \in FirstZombies(m, S) THEN "DEAD"
                                        ELSE @[t]]]

\* Seeded bug: a thread with a stored signal is skipped before its count is
\* decremented.
ThawedSkips(m, S) ==
    [m EXCEPT !.suspend_count = [t \in Tids |->
                  IF t \in m.threads \cap S /\ m.pending_status[t] = None /\ @[t] > 0
                  THEN @[t] - 1 ELSE @[t]],
              !.state = [t \in Tids |-> IF t \in Restarted(m, S) THEN "RUNNING"
                                        ELSE IF t \in FirstZombies(m, S) THEN "DEAD"
                                        ELSE @[t]]]

Thawed(m, S) ==
    [m EXCEPT !.suspend_count = [t \in Tids |->
                  IF t \in m.threads \cap S /\ ~IsRunning(m, t) /\ @[t] > 0
                  THEN @[t] - 1 ELSE @[t]],
              !.state = [t \in Tids |-> IF t \in Restarted(m, S) THEN "RUNNING"
                                        ELSE IF t \in FirstZombies(m, S) THEN "DEAD"
                                        ELSE @[t]]]

Thaw(m, S) ==
    IF FirstZombies(m, S) = {} THEN Thawed(m, S)
    ELSE Enqueue(Thawed(m, S), Ev("THREAD_EXIT", CHOOSE t \in FirstZombies(m, S) : TRUE))

\* QASSERT 30188
ThawAssert(m, S) == \A t \in m.threads \cap S : IsRunning(m, t) => m.suspend_count[t] = 0

Interr(code) ==
    /\ failed' = code
    /\ pc' = "halt"
    /\ UNCHANGED <<dm, cur, job, queue, kernel, budget>>

\* A thaw of S that ends the request (next = "idle") or the current
\* get_debug_event() call.
DoThaw(m, S, next) ==
    IF ThawAssert(m, S)
    THEN /\ dm' = Thaw(m, S)
         /\ Restart(Restarted(m, S))
         /\ pc' = next
         /\ job' = Idle
         /\ UNCHANGED <<cur, queue, failed, budget>>
    ELSE Interr(30188)

\* Seeded bug: may_run keeps its value.
RunnableStale(m) == m

Runnable(m) == [m EXCEPT !.may_run = ~HasPendingEvents(m)]

ResumeApp(m) == DoThaw(Runnable(m), Tids, "idle")

-----------------------------------------------------------------------------
(* Starting and attaching: handle_process_start *)

Started(events) ==
    [NoProcess EXCEPT !.threads = {Main}, !.events = events]

Init ==
    /\ \E events \in {<<Ev("PROCESS_START", Main)>>,
                      <<Ev("PROCESS_START", Main), Ev("PROCESS_ATTACH", Main)>>} :
           dm = Started(events)
    /\ cur = Ev("PROCESS_START", Main)
    /\ pc = "idle" /\ job = Idle /\ queue = {} /\ failed = 0
    /\ task = [t \in Tids |-> IF t = Main THEN "stop" ELSE "none"]
    /\ sigs = [t \in Tids |-> {}]
    /\ wstat = [t \in Tids |-> None]
    /\ stopsig = [t \in Tids |-> None]
    /\ child = [t \in Tids |-> t]                \* no child yet
    /\ budget = MaxWorld

-----------------------------------------------------------------------------
(* dbg_get_debug_event *)

\* The client asks only when it holds no event (QASSERT 30059).
GetDebugEvent ==
    /\ pc = "idle"
    /\ ~dm.in_event \/ dm.exited
    /\ cur.eid # "PROCESS_EXIT"
    /\ pc' = "poll"
    /\ UNCHANGED <<dm, cur, job, queue, failed, kernel, budget>>

Deliver ==
    /\ pc = "poll" /\ dm.events # << >>
    /\ cur' = Head(dm.events)
    /\ dm' = [dm EXCEPT !.events = Tail(@), !.in_event = TRUE, !.requested_to_suspend = FALSE]
    /\ pc' = "idle"
    /\ UNCHANGED <<job, queue, failed, kernel, budget>>

\* check_for_new_events returned a status of a known thread: get_debug_event
\* marks the thread stopped and freezes the others.
BeginEvent(m, t, s, ready) ==
    IF m.state[t] # "STOPPED" \/ m.exited \/ s \in Exits
    THEN /\ StartFreeze([m EXCEPT !.state[t] = "STOPPED"], Tids, EventJob(t, s, ready))
         /\ UNCHANGED <<cur, failed, budget>>
    ELSE /\ failed' = 30057
         /\ pc' = "halt"
         /\ dm' = m
         /\ UNCHANGED <<cur, job, queue, budget>>

\* handle_extended_wait: the new thread joins the table.  If its own stop was
\* seen before, the event is ready, else the server waits for that stop.
Newborn(m, t, s) ==
    /\ dm' = AddThread(m, child[t])
    /\ job' = EventJob(t, s, TRUE)
    /\ pc' = "newborn"
    /\ UNCHANGED <<cur, queue, failed, budget>>

SeenNewborn(m, t) ==
    EnqueueFront([AddThread(m, child[t]) EXCEPT !.seen_threads = @ \ {child[t]}],
                 Ev("THREAD_START", child[t]))

TakeStatus(m, t, s) ==
    IF s = "CLONE"
    THEN IF child[t] \in m.seen_threads
         THEN BeginEvent(SeenNewborn(m, t), t, s, TRUE)
         ELSE Newborn(m, t, s)
    ELSE BeginEvent(m, t, s, FALSE)

\* check_for_signal(-1) found a status.
PollStatus(t) ==
    /\ pc = "poll" /\ dm.events = << >>
    /\ Reportable(t)
    /\ IF t \in dm.threads
       THEN TakeStatus(dm, t, wstat[t])
       ELSE /\ dm' = StorePendingSignal(dm, t, wstat[t])
            /\ UNCHANGED <<cur, pc, job, queue, failed, budget>>
    /\ Collect(t, t \in Deleted(dm) \ dm.threads)
    /\ SendSigstop(queue')

\* No new status, but a stored one: retrieve_pending_signal.
PollPending ==
    /\ pc = "poll" /\ dm.events = << >>
    /\ \A t \in Tids : ~Reportable(t)
    /\ dm.npending_signals # 0
    /\ \E t \in PendingChoice(dm) : TakeStatus(TakePending(dm, t), t, dm.pending_status[t])
    /\ SendSigstop(queue')
    /\ UNCHANGED <<task, wstat, stopsig, child>>

PollNothing ==
    /\ pc = "poll" /\ dm.events = << >>
    /\ \A t \in Tids : ~Reportable(t)
    /\ dm.npending_signals = 0 \/ Retrievable(dm) = {}
    /\ pc' = "idle"
    /\ UNCHANGED <<dm, cur, job, queue, failed, kernel, budget>>

\* The status of a new thread that handle_extended_wait did not know yet.
NewbornStopped ==
    /\ pc = "newborn"
    /\ LET u == child[job.tid]
           s == wstat[u]
           m == IF s = "SIGSTOP" THEN dm
                ELSE StorePendingSignal([dm EXCEPT !.waiting_sigstop[u] = TRUE], u, s)
       IN /\ Reportable(u)
          /\ BeginEvent(EnqueueFront(m, Ev("THREAD_START", u)), job.tid, job.status, TRUE)
          /\ Collect(u, FALSE)
    /\ SendSigstop(queue')

\* The blocking check_for_signal(new_pid) of handle_extended_wait.  INTERR 1200
\* if the thread is gone; a kill takes the parent and the child down at once
\* here, so that the parent's clone stop is never taken after that.
NewbornStatus ==
    IF pc = "newborn" /\ task[child[job.tid]] = "gone" THEN Interr(1200) ELSE NewbornStopped

-----------------------------------------------------------------------------
(* The waiting loop of dbg_freeze_threads and what follows it *)

\* Seeded bug: a thread that stopped with another signal stays in the queue.
FreezeStatusWaitsOn(t) ==
    /\ pc = "freeze" /\ queue # {}
    /\ Reportable(t)
    /\ IF t \in queue /\ wstat[t] = "SIGSTOP"
       THEN /\ dm' = SigstopArrived(dm, t)
            /\ queue' = queue \ {t}
       ELSE dm' = StorePendingSignal(dm, t, wstat[t]) /\ UNCHANGED queue
    /\ Collect(t, t \in Deleted(dm) \ dm.threads)
    /\ UNCHANGED <<cur, job, pc, failed, sigs, budget>>

FreezeStatus(t) ==
    /\ pc = "freeze" /\ queue # {}
    /\ Reportable(t)
    /\ LET s == wstat[t]
       IN IF t \in queue /\ s = "SIGSTOP"
          THEN /\ dm' = SigstopArrived(dm, t)
               /\ queue' = queue \ {t}
               /\ UNCHANGED <<pc, failed>>
          ELSE IF StoreAssert(dm, t, s)
               THEN /\ dm' = StorePendingSignal(dm, t, s)
                    /\ queue' = queue \ {t}
                    /\ UNCHANGED <<pc, failed>>
               ELSE /\ failed' = 30185
                    /\ pc' = "halt"
                    /\ UNCHANGED <<dm, queue>>
    /\ Collect(t, t \in Deleted(dm) \ dm.threads)
    /\ UNCHANGED <<cur, job, sigs, budget>>

\* check_for_signal with timeout 0 found nothing: the loop goes on polling.
FreezePoll ==
    /\ pc = "freeze" /\ queue # {}
    /\ \A t \in Tids : ~Reportable(t)
    /\ UNCHANGED vars

Frozen(for) == pc = "freeze" /\ queue = {} /\ job.for = for

\* get_debug_event returned true: the event goes to the back of the queue and
\* dbg_get_debug_event looks at the queue again.
Return(m) ==
    /\ dm' = m
    /\ pc' = "poll"
    /\ job' = Idle
    /\ UNCHANGED <<cur, queue, failed, kernel, budget>>

Report(m, e) ==
    Return([Enqueue(m, e) EXCEPT !.single_step[e.tid] = FALSE, !.last_tid = e.tid])

\* The label RESUME of get_debug_event.
Resume(m) ==
    IF ~m.requested_to_suspend /\ ~m.in_event
    THEN ResumeApp(m)
    ELSE Return(Enqueue(m, Ev("PROCESS_SUSPEND", job.tid)))

\* The event had been prepared by handle_extended_wait.
EventReady ==
    /\ Frozen("event") /\ job.ready
    /\ Return([Held(dm) EXCEPT !.single_step[job.tid] = FALSE, !.last_tid = 0])

\* Seeded bug: the mark stays after the SIGSTOP has come.
AwaitedSigstopStays ==
    /\ Frozen("event") /\ ~job.ready
    /\ job.status = "SIGSTOP" /\ dm.waiting_sigstop[job.tid]
    /\ Resume(Held(dm))

\* The SIGSTOP of an earlier freeze or pause.
AwaitedSigstop ==
    /\ Frozen("event") /\ ~job.ready
    /\ job.status = "SIGSTOP" /\ dm.waiting_sigstop[job.tid]
    /\ Resume([Held(dm) EXCEPT !.waiting_sigstop[job.tid] = FALSE])

\* gen_library_events before a bpt-related event may find a new module.
LibraryEvents(m, found) == IF found THEN Enqueue(m, Ev("LIBRARY_LOAD", Main)) ELSE m

\* SIGTRAP: one of our breakpoints (own), a finished step, or the application's.
Trap ==
    /\ Frozen("event") /\ ~job.ready /\ job.status = "SIGTRAP"
    /\ \E own \in BOOLEAN, found \in {FALSE, "library" \in World} :
         LET t == job.tid
             id == IF own THEN "BREAKPOINT" ELSE IF dm.single_step[t] THEN "STEP" ELSE "EXCEPTION"
             signum == IF id # "EXCEPTION" \/ "SIGTRAP" \in Mask THEN None ELSE "SIGTRAP"
             m == LibraryEvents([Held(dm) EXCEPT !.child_signum[t] = signum], found)
         IN IF id = "EXCEPTION" /\ "SIGTRAP" \notin BreakOn
            THEN Resume(m)
            ELSE Report(m, SignalEv(id, t, "SIGTRAP"))

\* Any other signal; exception_info_t says whether to stop and whether to mask it.
Signalled ==
    /\ Frozen("event") /\ ~job.ready
    /\ job.status \in Signals \cup {"SIGSTOP"}
    /\ ~(job.status = "SIGSTOP" /\ dm.waiting_sigstop[job.tid])
    /\ LET s == job.status
           suspend == s \in BreakOn
           m == [Held(dm) EXCEPT !.child_signum[job.tid] =
                                IF ~suspend /\ s \in Mask THEN None ELSE s]
       IN IF suspend
          THEN Report(m, SignalEv("EXCEPTION", job.tid, s))
          ELSE Resume(m)

\* Seeded bug: only the leader's exit ends the process.
LastThreadLeader == job.tid = dm.process_handle

LastThread == Cardinality(dm.threads) <= 1 \/ job.tid = dm.process_handle

ProcessExit ==
    /\ Frozen("event") /\ ~job.ready /\ job.status \in Exits /\ LastThread
    /\ Report([Held(dm) EXCEPT !.exited = TRUE], Ev("PROCESS_EXIT", job.tid))

\* (The write to single_step of the erased entry at the end of
\* get_debug_event hits freed memory and is not represented.)
ThreadExit ==
    /\ Frozen("event") /\ ~job.ready /\ job.status \in Exits /\ ~LastThread
    /\ Return([DeadThread(Held(dm), job.tid) EXCEPT !.last_tid = job.tid])

-----------------------------------------------------------------------------
(* The other requests of the client *)

\* dbg_continue_after_event with the event the client holds.
ContinueAfterEvent ==
    /\ pc = "idle" /\ dm.in_event
    /\ \E handled \in BOOLEAN :
         LET t == cur.tid
             keeps == \/ cur.eid \in {"THREAD_START", "THREAD_EXIT", "LIBRARY_LOAD"}
                      \/ cur.eid = "EXCEPTION" /\ ~handled
             m1 == IF t \in dm.threads /\ ~keeps
                   THEN [dm EXCEPT !.child_signum[t] = None] ELSE dm
             m2 == IF t \in dm.threads /\ dm.state[t] = "DEAD" THEN DelThread(m1, t) ELSE m1
         IN IF t \notin dm.threads /\ cur.eid # "THREAD_EXIT" /\ ~dm.exited
            THEN UNCHANGED vars
            ELSE ResumeApp([m2 EXCEPT !.in_event = FALSE])

\* Reading or writing memory freezes every thread around the access.
AccessMemory ==
    /\ pc = "idle" /\ "memory" \in Client /\ ~dm.exited
    /\ StartFreeze(dm, Tids, Job("memory", Main))
    /\ SendSigstop(queue')
    /\ UNCHANGED <<cur, failed, task, wstat, stopsig, child, budget>>

MemoryAccessed == Frozen("memory") /\ DoThaw(dm, Tids, "idle")

ThreadSuspend(t) ==
    /\ pc = "idle" /\ "suspend" \in Client /\ ~dm.exited
    /\ t \in dm.threads /\ dm.user_suspend[t] < MaxUser
    /\ StartFreeze(dm, {t}, Job("suspend", t))
    /\ SendSigstop(queue')
    /\ UNCHANGED <<cur, failed, task, wstat, stopsig, child, budget>>

ThreadSuspended ==
    /\ Frozen("suspend")
    /\ dm' = [dm EXCEPT !.user_suspend[job.tid] = @ + 1]
    /\ pc' = "idle" /\ job' = Idle
    /\ UNCHANGED <<cur, queue, failed, kernel, budget>>

ThreadContinue(t) ==
    /\ pc = "idle" /\ "suspend" \in Client /\ t \in dm.threads /\ dm.user_suspend[t] > 0
    /\ LET m == [dm EXCEPT !.user_suspend[t] = @ - 1]
       IN IF m.user_suspend[t] > 0
          THEN dm' = m /\ UNCHANGED <<cur, pc, job, queue, failed, kernel, budget>>
          ELSE DoThaw(m, {t}, "idle")

SetResumeMode(t) ==
    /\ pc = "idle" /\ "step" \in Client /\ dm.in_event /\ t \in dm.threads
    /\ dm' = [dm EXCEPT !.single_step[t] = TRUE]
    /\ UNCHANGED <<cur, pc, job, queue, failed, kernel, budget>>

\* The SIGSTOP goes to the process, the mark to the first thread of the map.
PrepareToPause ==
    /\ pc = "idle" /\ "pause" \in Client /\ dm.threads # {} /\ ~dm.exited
    /\ dm.requested_to_suspend => "pause again" \in Client
    /\ \E first \in {t \in dm.threads : \A u \in dm.threads : t <= u} :
          IF dm.events = << >>
          THEN /\ dm' = [dm EXCEPT !.waiting_sigstop[first] = TRUE,
                                   !.may_run = FALSE, !.requested_to_suspend = TRUE]
               /\ SendSigstop({Main})
          ELSE /\ dm' = [dm EXCEPT !.may_run = FALSE, !.requested_to_suspend = TRUE]
               /\ UNCHANGED sigs
    /\ UNCHANGED <<cur, pc, job, queue, failed, task, wstat, stopsig, child, budget>>

ExitProcess ==
    /\ pc = "idle" /\ "exit" \in Client /\ ~dm.exited
    /\ StartFreeze(dm, Tids, Job("exit", Main))
    /\ SendSigstop(queue')
    /\ UNCHANGED <<cur, failed, task, wstat, stopsig, child, budget>>

\* Every thread gets SIGKILL; user_suspend keeps its value.
ProcessKilled ==
    /\ Frozen("exit")
    /\ dm' = [dm EXCEPT !.state = [t \in Tids |-> IF t \in dm.threads THEN "RUNNING" ELSE @[t]],
                        !.suspend_count = [t \in Tids |-> IF t \in dm.threads THEN 0 ELSE @[t]],
                        !.may_run = TRUE, !.exited = TRUE, !.process_handle = 0]
    /\ TakeDown("SIGNALED")
    /\ pc' = "idle" /\ job' = Idle
    /\ UNCHANGED <<cur, queue, failed, budget>>

-----------------------------------------------------------------------------
(* The debugged process *)

Spend == budget > 0 /\ budget' = budget - 1
ServerUnchanged == UNCHANGED <<dm, cur, pc, job, queue, failed>>

\* A task about to return to user mode takes its signals first.
InUserMode(t) == task[t] = "run" /\ sigs[t] = {}

StopTask(t, s) ==
    /\ task' = [task EXCEPT ![t] = "stop"]
    /\ wstat' = [wstat EXCEPT ![t] = s]
    /\ stopsig' = [stopsig EXCEPT ![t] = s]

TakeSignal(t, s) ==
    /\ task[t] = "run" /\ s \in sigs[t]
    /\ StopTask(t, s)
    /\ sigs' = [sigs EXCEPT ![t] = @ \ {s}]
    /\ UNCHANGED child /\ UNCHANGED budget /\ ServerUnchanged

HitTrap(t) ==
    /\ "trap" \in World /\ InUserMode(t) /\ Spend
    /\ StopTask(t, "SIGTRAP")
    /\ UNCHANGED <<sigs, child>> /\ ServerUnchanged

RaiseSignal(t, s) ==
    /\ "signal" \in World /\ InUserMode(t) /\ Spend
    /\ sigs' = [sigs EXCEPT ![t] = @ \cup {s}]
    /\ UNCHANGED <<task, wstat, stopsig, child>> /\ ServerUnchanged

\* The new task starts with a SIGSTOP of its own.
Clone(t, u) ==
    /\ "clone" \in World /\ InUserMode(t) /\ task[u] = "none" /\ Spend
    /\ \A v \in Tids : v < u => task[v] # "none"
    /\ task' = [task EXCEPT ![t] = "stop", ![u] = "run"]
    /\ wstat' = [wstat EXCEPT ![t] = "CLONE"]
    /\ stopsig' = [stopsig EXCEPT ![t] = "CLONE"]
    /\ sigs' = [sigs EXCEPT ![u] = {"SIGSTOP"}]
    /\ child' = [child EXCEPT ![t] = u]
    /\ ServerUnchanged

ExitThread(t) ==
    /\ (IF t = Main THEN "leader exit" ELSE "exit") \in World /\ InUserMode(t) /\ Spend
    /\ task' = [task EXCEPT ![t] = "zombie"]
    /\ wstat' = [wstat EXCEPT ![t] = "EXITED"]
    /\ UNCHANGED <<sigs, stopsig, child>> /\ ServerUnchanged

ExitGroup(t) ==
    /\ "exit" \in World /\ InUserMode(t) /\ Spend
    /\ TakeDown("EXITED") /\ ServerUnchanged

\* Somebody else kills the process.
Killed ==
    /\ "kill" \in World /\ (\E t \in Tids : task[t] \in {"run", "stop"}) /\ Spend
    /\ TakeDown("SIGNALED") /\ ServerUnchanged

Process ==
    \/ \E t \in Tids : \/ HitTrap(t) \/ ExitThread(t) \/ ExitGroup(t)
                       \/ \E s \in Signals : RaiseSignal(t, s)
                       \/ \E u \in Tids : Clone(t, u)
    \/ Killed

Signal == \E t \in Tids, s \in Signals \cup {"SIGSTOP"} : TakeSignal(t, s)

Poll == Deliver \/ PollPending \/ PollNothing \/ NewbornStatus \/ \E t \in Tids : PollStatus(t)

Finish ==
    \/ EventReady \/ AwaitedSigstop \/ Trap \/ Signalled \/ ProcessExit \/ ThreadExit
    \/ MemoryAccessed \/ ThreadSuspended \/ ProcessKilled

Wait == FreezePoll \/ \E t \in Tids : FreezeStatus(t)

Request ==
    \/ AccessMemory \/ PrepareToPause \/ ExitProcess
    \/ \E t \in Tids : ThreadSuspend(t) \/ ThreadContinue(t) \/ SetResumeMode(t)

\* The session is over: the client leaves after PROCESS_EXIT, and nothing is
\* said of a server that ran into a failed assertion.
Over == (pc = "halt" \/ cur.eid = "PROCESS_EXIT") /\ UNCHANGED vars

Next ==
    \/ GetDebugEvent \/ ContinueAfterEvent \/ Poll \/ Wait \/ Finish \/ Request
    \/ Signal \/ Process \/ Over

Spec == Init /\ [][Next]_vars
-----------------------------------------------------------------------------
(* Properties *)

\* The object, the client's event and the kernel's tables have their types; in
\* particular no counter of suspensions goes below zero (dbg_thaw_threads).
TypeOK ==
    /\ dm \in Debmod
    /\ cur \in Event
    /\ pc \in {"idle", "poll", "newborn", "freeze", "halt"}
    /\ job \in Jobs
    /\ queue \subseteq Tids
    /\ failed \in {0, 1200, 30057, 30185, 30188}
    /\ task \in [Tids -> {"none", "run", "stop", "zombie", "gone"}]
    /\ sigs \in [Tids -> SUBSET (Signals \cup {"SIGSTOP"})]
    /\ wstat \in [Tids -> Status \cup {None}]
    /\ stopsig \in [Tids -> Stops \cup {None}]
    /\ child \in [Tids -> Tids]
    /\ budget \in Nat

Flagged(m) == {t \in m.threads : m.pending_status[t] # None}
Counted(m) == m.npending_signals >= Cardinality(Flagged(m))

\* retrieve_pending_signal looks at the threads only when npending_signals is
\* not zero.  A stored signal is never invisible to it, and the counter never
\* goes below zero (QASSERT 30186).
PendingNeverHidden == Counted(dm)

\* While the client holds an event nothing of the process executes: a task
\* that dbg_freeze_threads did not wait for has a signal to take before it
\* returns to user mode.
EventMeansSuspended ==
    pc = "idle" /\ dm.in_event /\ ~dm.exited => \A t \in Tids : ~InUserMode(t)

\* A thread the user suspended does not execute, whatever events come and go.
UserSuspended ==
    pc = "idle" /\ ~dm.exited =>
        \A t \in dm.threads : dm.user_suspend[t] > 0 => ~InUserMode(t)

\* The table agrees with the kernel.  A thread recorded as running runs or has
\* a status to collect; one recorded as stopped does not run; and a stopped
\* task that is not in the table yet will be recognised when its parent's
\* clone event arrives (seen_threads).
NoThreadLeftBehind ==
    ~dm.exited /\ pc # "newborn" =>
        \A t \in Tids :
            /\ t \in dm.threads /\ IsRunning(dm, t) => task[t] = "run" \/ wstat[t] # None
            /\ t \in dm.threads /\ dm.state[t] = "STOPPED"
                 => task[t] # "run" \/ dm.waiting_sigstop[t]
            /\ task[t] = "stop" /\ t \notin dm.threads
                 => wstat[t] # None \/ t \in dm.seen_threads

\* Between events the server holds no thread back: what is left of
\* suspend_count is what the user asked for.
FreezeReleased ==
    pc = "idle" /\ ~dm.in_event /\ ~dm.exited /\ dm.events = << >> =>
        \A t \in dm.threads : dm.suspend_count[t] <= dm.user_suspend[t]

\* Between events a thread that neither the user nor a stored signal holds
\* back is running: every path that stops a thread also resumes it.
NobodyForgotten ==
    /\ pc = "idle" /\ ~dm.in_event /\ ~dm.exited
    /\ ~HasPendingEvents(dm) /\ ~dm.requested_to_suspend
    => \A t \in dm.threads :
           dm.user_suspend[t] = 0 /\ dm.pending_status[t] = None => dm.state[t] = "RUNNING"

\* waiting_sigstop is believed by is_running: when it is set the SIGSTOP is
\* still to come.
SigstopOwed ==
    \A t \in dm.threads :
        task[t] \in {"run", "stop"} /\ dm.waiting_sigstop[t] =>
            "SIGSTOP" \in sigs[t] \/ wstat[t] = "SIGSTOP" \/ pc = "freeze"

\* The SIGSTOPs of the debugger are not shown to the client as exceptions of
\* the application (which raises none here).
NoStraySigstop ==
    \A e \in {cur} \cup {dm.events[i] : i \in 1 .. Len(dm.events)} :
        e.eid = "EXCEPTION" => e.sig # "SIGSTOP"

\* The SIGSTOPs the debugger sends are accounted for: each one that is_running
\* counts on is still to come, and none is shown to the client.
SigstopsAccounted == SigstopOwed /\ NoStraySigstop

\* None of the assertions 30057, 30185, 30188 and 1200 fails.
NoInterr == failed = 0

\* linux_debmod.cpp:819-823: the SIGTRAP is not sent to the process "except in
\* the case where the program generated the signal by itself".  A task is
\* resumed with no signal or with the one it stopped with.
SignalSentOnce ==
    [][\A t \in dm.threads : task[t] = "stop" /\ task'[t] = "run" =>
           dm'.child_signum[t] \in {None, stopsig[t]}]_vars

\* What the loops of the server, the regular calls of the client (idd.hpp:814)
\* and the kernel's delivery of signals justify.
Fairness ==
    /\ WF_vars(Poll) /\ WF_vars(Wait) /\ WF_vars(Finish)
    /\ SF_vars(GetDebugEvent) /\ SF_vars(ContinueAfterEvent)
    /\ \A t \in Tids : WF_vars(\E s \in Signals \cup {"SIGSTOP"} : TakeSignal(t, s))

FairSpec == Spec /\ Fairness

\* dbg_freeze_threads comes to an end: every thread whose SIGSTOP is awaited
\* reports something.
FreezeEnds == pc = "freeze" ~> pc # "freeze"

\* idd.hpp:803-805: after exit_process get_debug_event is called until
\* PROCESS_EXIT, which also follows when the process dies by itself.
ProcessDead == dm.exited \/ \A t \in Tids : task[t] \notin {"run", "stop"}
ExitReported == ProcessDead ~> cur.eid = "PROCESS_EXIT"

\* A signal put aside is taken up again, unless the thread or the process goes.
StoredSignalTaken ==
    \A t \in Tids : t \in dm.threads /\ dm.pending_status[t] # None
                    ~> \/ t \notin dm.threads \/ dm.pending_status[t] = None
                       \/ cur.eid = "PROCESS_EXIT"
=============================================================================
