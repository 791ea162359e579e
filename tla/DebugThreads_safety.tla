------------------------ MODULE DebugThreads_safety -------------------------
(*****************************************************************************)
(* Four properties of DebugThreads and one of Detaching for any number of    *)
(* threads and signals, each from invariants of its own beside IInv and      *)
(* Agree:                                                                    *)
(*   Unbroken  no assertion has failed, and while the process is debugged no *)
(*             thread has died of a signal;                                  *)
(*   Accounts  every SIGSTOP of the debugger is one that an entry waits for  *)
(*             (waiting_sigstop), so the client never sees one;              *)
(*   Balanced  the freezes of an entry are the user's and one for the event  *)
(*             or the request in hand: all of them are released;             *)
(*   Roused    a thread found dead is announced, and between events every    *)
(*             thread runs: nobody is forgotten;                             *)
(*   Lonely    a stopped task with a signal of the application to take has   *)
(*             no SIGSTOP to take, and                                       *)
(*   Cleaning  cleanup_signals takes every SIGSTOP in: a process that is     *)
(*             detached has none left.                                       *)
(*****************************************************************************)
EXTENDS DebugThreads_proofs, Detaching

-----------------------------------------------------------------------------
(* The assertions: a process that has exited stays so *)

\* The object has the mark that the process has exited, and a handle.
Marked(m) == "exited" \in DOMAIN m /\ "process_handle" \in DOMAIN m

\* The new object keeps them.
Alike(m, n) ==
    Marked(m) /\ Marked(n) /\ n.exited = m.exited /\ n.process_handle = m.process_handle

\* The operators of the engine that leave both alone.
LEMMA AlikeOperators ==
    ASSUME NEW m, Marked(m)
    PROVE  /\ Alike(m, m) /\ Alike(m, Held(m)) /\ Alike(m, Runnable(m))
           /\ \A e : Alike(m, Enqueue(m, e)) /\ Alike(m, EnqueueFront(m, e))
           /\ \A t : /\ Alike(m, AddThread(m, t)) /\ Alike(m, DelThread(m, t))
                     /\ Alike(m, SigstopArrived(m, t)) /\ Alike(m, TakePending(m, t))
                     /\ Alike(m, MarkStopped(m, t))
                     /\ \A s : Alike(m, StorePendingSignal(m, t, s))
           /\ \A S : Alike(m, Freeze(m, S)) /\ Alike(m, Thaw(m, S))
<1>1. Alike(m, m) /\ Alike(m, Held(m)) /\ Alike(m, Runnable(m))
    BY DEF Alike, Marked, Held, Runnable
<1>2. \A e : Alike(m, Enqueue(m, e)) /\ Alike(m, EnqueueFront(m, e))
    BY DEF Alike, Marked, Enqueue, EnqueueFront
<1>3. \A t : Alike(m, AddThread(m, t)) /\ Alike(m, DelThread(m, t))
    BY DEF Alike, Marked, AddThread, DelThread
<1>4. \A t : Alike(m, SigstopArrived(m, t)) /\ Alike(m, TakePending(m, t)) /\ Alike(m, MarkStopped(m, t))
    BY DEF Alike, Marked, SigstopArrived, TakePending, MarkStopped
<1>5. \A t, s : Alike(m, StorePendingSignal(m, t, s))
    BY <1>4, <1>1 DEF Alike, Marked, StorePendingSignal
<1>6. \A S : Alike(m, Freeze(m, S)) /\ Alike(m, Thawed(m, S))
    BY DEF Alike, Marked, Freeze, Thawed
<1>7. \A S : Alike(m, Thaw(m, S))
  <2> TAKE S
  <2>1. Alike(m, Thawed(m, S))
    BY <1>6
  <2> DEFINE k == Thawed(m, S)
  <2>2. \A e : Alike(k, Enqueue(k, e))
    BY <2>1 DEF Alike, Marked, Enqueue
  <2> QED BY <2>1, <2>2 DEF Alike, Marked, Thaw
<1> QED BY <1>1, <1>2, <1>3, <1>4, <1>5, <1>6, <1>7

\* Of a step: a process that has exited stays so, and until then has its handle.
Persists == (dm.exited => dm'.exited) /\ (dm'.exited \/ dm'.process_handle = dm.process_handle)

\* Of one operator after another.
LEMMA AlikeChain ==
    ASSUME NEW m, NEW n, Alike(m, n), NEW k, Alike(n, k)
    PROVE  Alike(m, k)
BY DEF Alike, Marked

\* The debugger has both.
LEMMA ExitedField ==
    ASSUME IInv
    PROVE  Marked(dm) /\ dm.exited \in BOOLEAN
BY DEF IInv, Good, Shaped, Typed, Fields, Marked

\* dbg_thaw_threads does not touch them.
LEMMA ThawPersists ==
    ASSUME NEW m, NEW S, Alike(dm, m), DoThaw(m, S, "idle")
    PROVE  Persists
<1>1. Marked(m) /\ m.exited = dm.exited /\ m.process_handle = dm.process_handle
    BY DEF Alike, Marked
<1>2. CASE dm' = Thaw(m, S)
    BY <1>1, <1>2, AlikeOperators DEF Alike, Marked, Persists
<1>3. CASE dm' = dm
    BY <1>3 DEF Persists
<1> QED BY <1>2, <1>3 DEF DoThaw, Interr

\* Nor does resume_app.
LEMMA ResumeAppPersists ==
    ASSUME NEW m, Alike(dm, m), ResumeApp(m)
    PROVE  Persists
<1>1. Alike(dm, Runnable(m))
    BY AlikeOperators DEF Alike, Marked
<1> QED BY <1>1, ThawPersists DEF ResumeApp

\* Nor does the freeze for an event.
LEMMA BeginPersists ==
    ASSUME NEW m, Alike(dm, m), NEW t, NEW s, NEW r, BeginEvent(m, t, s, r)
    PROVE  Persists
<1>1. Marked(m) /\ m.exited = dm.exited /\ m.process_handle = dm.process_handle
    BY DEF Alike, Marked
<1>2. Alike(m, MarkStopped(m, t))
    BY <1>1, AlikeOperators
<1>3. Alike(MarkStopped(m, t), Freeze(MarkStopped(m, t), Tids))
    BY <1>2, AlikeOperators, ZenonT(40) DEF Alike, Marked
<1>4. CASE dm' = m
    BY <1>1, <1>4 DEF Persists
<1>5. CASE dm' = Freeze(MarkStopped(m, t), Tids)
    BY <1>1, <1>2, <1>3, <1>5 DEF Persists, Alike, Marked
<1> QED BY <1>4, <1>5 DEF BeginEvent, StartFreeze, MarkStopped

\* Nor does taking a status, whatever it is.
LEMMA TakePersists ==
    ASSUME NEW m, Alike(dm, m), NEW t, NEW s, TakeStatus(m, t, s)
    PROVE  Persists
<1>1. Marked(m) /\ m.exited = dm.exited /\ m.process_handle = dm.process_handle
    BY DEF Alike, Marked
<1> DEFINE k == AddThread(m, child[t])
<1>2. Alike(m, k)
    BY <1>1, AlikeOperators
<1>3. ASSUME Newborn(m, t, s) PROVE Persists
    BY <1>1, <1>2, <1>3 DEF Newborn, Alike, Marked, Persists
<1>4. Alike(k, [k EXCEPT !.seen_threads = @ \ {child[t]}])
    BY <1>2 DEF Alike, Marked
<1> DEFINE n == [k EXCEPT !.seen_threads = @ \ {child[t]}]
<1>5. Alike(n, EnqueueFront(n, Ev("THREAD_START", child[t])))
    BY <1>4, AlikeOperators, SMTT(20) DEF Alike, Marked
<1>6. SeenNewborn(m, t) = EnqueueFront(n, Ev("THREAD_START", child[t]))
    BY DEF SeenNewborn
<1>7. Alike(dm, SeenNewborn(m, t))
    <2> HIDE DEF k, n
    <2> QED BY <1>2, <1>4, <1>5, <1>6 DEF Alike, Marked, n
<1> QED BY <1>3, <1>7, BeginPersists DEF TakeStatus

\* Nor does the end of get_debug_event.
LEMMA ReturnPersists ==
    ASSUME NEW m, m.exited \/ (m.exited = dm.exited /\ m.process_handle = dm.process_handle), Return(m)
    PROVE  Persists
BY DEF Return, Persists

\* Nor does queueing an event.
LEMMA ReportPersists ==
    ASSUME NEW m, Alike(dm, m), NEW e, Report(m, e)
    PROVE  Persists
<1>1. Marked(m) /\ m.exited = dm.exited /\ m.process_handle = dm.process_handle
    BY DEF Alike, Marked
<1> DEFINE k == Enqueue(m, e)
           n == [k EXCEPT !.single_step[e.tid] = FALSE, !.last_tid = e.tid]
<1>2. Alike(m, k)
    BY <1>1, AlikeOperators
<1>3. n.exited = k.exited /\ n.process_handle = k.process_handle
    BY <1>2 DEF Alike, Marked
<1>4. Return(n)
    BY DEF Report
<1> QED BY <1>1, <1>2, <1>3, <1>4 DEF Return, Persists, Alike, Marked

\* Nor does the label RESUME.
LEMMA ResumePersists ==
    ASSUME NEW m, Alike(dm, m), Resume(m)
    PROVE  Persists
<1>1. Marked(m) /\ m.exited = dm.exited /\ m.process_handle = dm.process_handle
    BY DEF Alike, Marked
<1>2. CASE ResumeApp(m)
    BY <1>2, ResumeAppPersists
<1>3. CASE Return(Enqueue(m, Ev("PROCESS_SUSPEND", job.tid)))
  <2>1. PICK e : e = Ev("PROCESS_SUSPEND", job.tid)
    OBVIOUS
  <2>2. Alike(m, Enqueue(m, e))
    BY <1>1, AlikeOperators
  <2>3. dm' = Enqueue(m, e)
    BY <1>3, <2>1 DEF Return
  <2>4. dm'.exited = dm.exited /\ dm'.process_handle = dm.process_handle
    BY <1>1, <2>2, <2>3 DEF Alike
  <2> QED BY <2>4 DEF Persists
<1> QED BY <1>2, <1>3 DEF Resume

\* dbg_get_debug_event keeps them.
LEMMA PollPersists ==
    ASSUME IInv, Poll
    PROVE  Persists
<1>1. Marked(dm) /\ Alike(dm, dm)
    BY ExitedField, AlikeOperators
<1>2. CASE Deliver
    BY <1>1, <1>2 DEF Deliver, Persists
<1>3. CASE PollPending
  <2>1. PICK t \in PendingChoice(dm) : TakeStatus(TakePending(dm, t), t, dm.pending_status[t])
    BY <1>3 DEF PollPending
  <2> QED BY <1>1, <2>1, AlikeOperators, TakePersists
<1>4. CASE PollNothing
    BY <1>4 DEF PollNothing, Persists
<1>5. CASE NewbornStatus
  <2>1. CASE Interr(1200)
    BY <2>1 DEF Interr, Persists
  <2>2. CASE NewbornStopped
    <3> DEFINE u == child[job.tid]
               k == [dm EXCEPT !.waiting_sigstop[u] = TRUE]
               m == IF wstat[u] = "SIGSTOP" THEN dm ELSE StorePendingSignal(k, u, wstat[u])
               n == EnqueueFront(m, Ev("THREAD_START", u))
    <3>1. Alike(dm, k)
      BY <1>1 DEF Alike, Marked
    <3>2. Alike(dm, m)
      <4>1. Alike(k, StorePendingSignal(k, u, wstat[u]))
        <5>1. Marked(k)
          BY <3>1 DEF Alike, Marked
        <5> HIDE DEF k, u
        <5> QED BY <5>1, AlikeOperators
      <4>2. CASE wstat[u] = "SIGSTOP"
        BY <1>1, <4>2
      <4>3. CASE wstat[u] # "SIGSTOP"
        BY <3>1, <4>1, <4>3, AlikeChain
      <4> QED BY <4>2, <4>3
    <3>3. Alike(m, n)
      BY <3>2, AlikeOperators DEF Alike, Marked
    <3>4. BeginEvent(n, job.tid, job.status, TRUE)
      BY <2>2 DEF NewbornStopped
    <3> HIDE DEF u, k, m, n
    <3>5. Alike(dm, n)
      BY <3>2, <3>3 DEF Alike, Marked
    <3> QED BY <3>4, <3>5, BeginPersists
  <2> QED BY <1>5, <2>1, <2>2 DEF NewbornStatus
<1>6. ASSUME NEW t \in Tids, PollStatus(t) PROVE Persists
  <2>1. CASE TakeStatus(dm, t, wstat[t])
    BY <1>1, <2>1, TakePersists
  <2>2. CASE dm' = StorePendingSignal(dm, t, wstat[t])
    BY <1>1, <2>2, AlikeOperators DEF Alike, Marked, Persists
  <2> QED BY <1>6, <2>1, <2>2 DEF PollStatus
<1> QED BY <1>2, <1>3, <1>4, <1>5, <1>6 DEF Poll

\* The waiting loop keeps them.
LEMMA WaitPersists ==
    ASSUME IInv, Wait
    PROVE  Persists
<1>1. Marked(dm)
    BY ExitedField
<1>2. CASE FreezePoll
    BY <1>2 DEF FreezePoll, vars, Persists
<1>3. ASSUME NEW t \in Tids, FreezeStatus(t) PROVE Persists
  <2>1. \/ dm' = SigstopArrived(dm, t) \/ dm' = StorePendingSignal(dm, t, wstat[t]) \/ dm' = dm
    BY <1>3 DEF FreezeStatus
  <2> QED BY <1>1, <2>1, AlikeOperators DEF Alike, Marked, Persists
<1> QED BY <1>2, <1>3 DEF Wait

\* What follows a freeze keeps them, or sets the mark.
LEMMA FinishPersists ==
    ASSUME IInv, Finish
    PROVE  Persists
<1>1. Marked(dm) /\ Alike(dm, dm) /\ Alike(dm, Held(dm))
    BY ExitedField, AlikeOperators
<1> DEFINE h == Held(dm)
<1>h. Marked(h) /\ h.exited = dm.exited /\ h.process_handle = dm.process_handle
    BY <1>1 DEF Alike, Marked
<1>2. CASE EventReady
  <2>1. PICK n : n = [h EXCEPT !.single_step[job.tid] = FALSE, !.last_tid = 0]
    OBVIOUS
  <2>2. n.exited = dm.exited /\ n.process_handle = dm.process_handle
    BY <1>h, <2>1 DEF Marked
  <2> QED BY <1>2, <2>1, <2>2, ReturnPersists DEF EventReady
<1>3. CASE AwaitedSigstop
  <2> DEFINE n == [h EXCEPT !.waiting_sigstop[job.tid] = FALSE]
  <2>1. Alike(dm, n)
    BY <1>1, <1>h DEF Alike, Marked
  <2> QED BY <1>3, <2>1, ResumePersists DEF AwaitedSigstop
<1>4. CASE Trap
  <2>1. PICK own \in BOOLEAN, found \in {FALSE, "library" \in World} :
          LET t == job.tid
              id == IF own THEN "BREAKPOINT" ELSE IF dm.single_step[t] THEN "STEP" ELSE "EXCEPTION"
              signum == IF id # "EXCEPTION" \/ "SIGTRAP" \in Mask THEN None ELSE "SIGTRAP"
              m == LibraryEvents([h EXCEPT !.child_signum[t] = signum], found)
          IN IF id = "EXCEPTION" /\ "SIGTRAP" \notin BreakOn
             THEN Resume(m)
             ELSE Report(m, SignalEv(id, t, "SIGTRAP"))
    BY <1>4 DEF Trap
  <2>2. ASSUME NEW s PROVE Alike(dm, LibraryEvents([h EXCEPT !.child_signum[job.tid] = s], found))
    <3> DEFINE k == [h EXCEPT !.child_signum[job.tid] = s]
    <3>1. Alike(dm, k)
      BY <1>h, <1>1 DEF Alike, Marked
    <3>2. Marked(k)
      BY <3>1 DEF Alike
    <3>3. \A e : Alike(k, Enqueue(k, e))
      BY <3>2, AlikeOperators
    <3> HIDE DEF k
    <3>4. Alike(dm, LibraryEvents(k, found))
      BY <3>1, <3>3 DEF LibraryEvents, Alike, Marked
    <3> QED BY <3>4 DEF k
  <2> QED BY <2>1, <2>2, ResumePersists, ReportPersists
<1>5. CASE Signalled
  <2>1. PICK s, n : /\ n = [h EXCEPT !.child_signum[job.tid] = s]
                    /\ Resume(n) \/ Report(n, SignalEv("EXCEPTION", job.tid, job.status))
    BY <1>5 DEF Signalled
  <2>2. Alike(dm, n)
    BY <1>1, <1>h, <2>1 DEF Alike, Marked
  <2> QED BY <2>1, <2>2, ResumePersists, ReportPersists
<1>6. CASE ProcessExit
  <2> DEFINE k == [h EXCEPT !.exited = TRUE]
             e == Ev("PROCESS_EXIT", job.tid)
             n == [Enqueue(k, e) EXCEPT !.single_step[e.tid] = FALSE, !.last_tid = e.tid]
  <2>1. Marked(k) /\ k.exited
    BY <1>h DEF Marked
  <2>2. Marked(Enqueue(k, e)) /\ Enqueue(k, e).exited
    BY <2>1, AlikeOperators DEF Alike, Marked
  <2>3. n.exited
    BY <2>2
  <2>4. Return(n)
    BY <1>6 DEF ProcessExit, Report
  <2> QED BY <2>3, <2>4, ReturnPersists
<1>7. CASE ThreadExit
  <2> DEFINE k == Enqueue(h, Ev("THREAD_EXIT", job.tid))
             d == DelThread(k, job.tid)
             n == [d EXCEPT !.last_tid = job.tid]
  <2>1. Alike(h, k)
    BY <1>h, AlikeOperators
  <2>2. Alike(k, d)
    BY <2>1, AlikeOperators DEF Alike, Marked
  <2>3. n.exited = d.exited /\ n.process_handle = d.process_handle
    BY <2>2 DEF Alike, Marked
  <2>4. Return(n)
    BY <1>7 DEF ThreadExit, DeadThread
  <2> HIDE DEF k, d, n
  <2> QED BY <1>h, <2>1, <2>2, <2>3, <2>4, ReturnPersists DEF Alike, Marked
<1>8. CASE MemoryAccessed
    BY <1>1, <1>8, ThawPersists DEF MemoryAccessed
<1>9. CASE ThreadSuspended
    BY <1>1, <1>9 DEF ThreadSuspended, Persists
<1>10. CASE ProcessKilled
    BY <1>1, <1>10 DEF ProcessKilled, Persists
<1> HIDE DEF h
<1> QED BY <1>2, <1>3, <1>4, <1>5, <1>6, <1>7, <1>8, <1>9, <1>10 DEF Finish

\* The other requests keep them.
LEMMA RequestPersists ==
    ASSUME IInv, Request \/ ContinueAfterEvent
    PROVE  Persists
<1>1. Marked(dm) /\ Alike(dm, dm)
    BY ExitedField, AlikeOperators
<1>2. ASSUME NEW S, NEW j, StartFreeze(dm, S, j) PROVE Persists
    BY <1>1, <1>2, AlikeOperators DEF StartFreeze, Alike, Marked, Persists
<1>3. CASE AccessMemory \/ ExitProcess \/ \E t \in Tids : ThreadSuspend(t)
    BY <1>2, <1>3 DEF AccessMemory, ExitProcess, ThreadSuspend
<1>4. CASE PrepareToPause
    BY <1>1, <1>4 DEF PrepareToPause, Persists, Marked
<1>5. ASSUME NEW t \in Tids, ThreadContinue(t) PROVE Persists
  <2> DEFINE m == [dm EXCEPT !.user_suspend[t] = @ - 1]
  <2>1. Alike(dm, m)
    BY <1>1 DEF Alike, Marked
  <2>2. dm' = m \/ DoThaw(m, {t}, "idle")
    BY <1>5 DEF ThreadContinue
  <2>3. CASE dm' = m
    BY <2>1, <2>3 DEF Alike, Marked, Persists
  <2> QED BY <2>1, <2>2, <2>3, ThawPersists
<1>6. ASSUME NEW t \in Tids, SetResumeMode(t) PROVE Persists
    BY <1>1, <1>6 DEF SetResumeMode, Persists
<1>7. CASE ContinueAfterEvent
  <2>1. PICK k, d, n : /\ k = [dm EXCEPT !.child_signum[cur.tid] = None] \/ k = dm
                       /\ d = DelThread(k, cur.tid) \/ d = k
                       /\ n = [d EXCEPT !.in_event = FALSE]
                       /\ UNCHANGED vars \/ ResumeApp(n)
    BY <1>7 DEF ContinueAfterEvent
  <2>2. Alike(dm, k)
    BY <1>1, <2>1 DEF Alike, Marked
  <2>3. Alike(k, d)
    <3>1. Alike(k, k) /\ Alike(k, DelThread(k, cur.tid))
      BY <2>2, AlikeOperators DEF Alike, Marked
    <3> QED BY <2>1, <3>1
  <2>4. Alike(dm, n)
    BY <2>1, <2>2, <2>3 DEF Alike, Marked
  <2>5. CASE UNCHANGED vars
    BY <2>5 DEF vars, Persists
  <2> QED BY <2>1, <2>4, <2>5, ResumeAppPersists
<1> QED BY <1>3, <1>4, <1>5, <1>6, <1>7 DEF Request

\* The mark that the process has exited is never taken back, and the handle is kept
\* until then.
LEMMA ExitedStays ==
    ASSUME IInv, [Next]_vars
    PROVE  Persists
<1>1. CASE UNCHANGED vars \/ Over \/ GetDebugEvent
    BY <1>1 DEF Over, GetDebugEvent, vars, Persists
<1>2. CASE Process \/ Signal
    BY <1>2 DEF Process, Signal, HitTrap, ExitThread, ExitGroup, RaiseSignal, Clone, Killed, TakeSignal,
                ServerUnchanged, Persists
<1> QED BY <1>1, <1>2, PollPersists, WaitPersists, FinishPersists, RequestPersists DEF Next, Persists

-----------------------------------------------------------------------------
(* The assertions: who dies of a signal *)

\* No assertion has failed, and while the process is debugged no thread has died
\* of a signal.
Unbroken == failed = 0 /\ \A t \in Tids : wstat[t] = "SIGNALED" => dm.exited

\* Of a step: the deaths by a signal are those that there were.
Spared == \A t \in Tids : wstat'[t] = "SIGNALED" => wstat[t] = "SIGNALED"

\* Resuming tasks kills none.
LEMMA RestartSpares ==
    ASSUME IInv, NEW S, Restart(S)
    PROVE  Spared
BY StatusFacts DEF IInv, KernelTyped, Restart, Spared

\* Nor does waitpid.
LEMMA CollectSpares ==
    ASSUME IInv, NEW t \in Tids, NEW r, Collect(t, r)
    PROVE  Spared
BY StatusFacts DEF IInv, KernelTyped, Collect, Spared

\* Nor does a step that leaves the statuses alone.
LEMMA SameSpares ==
    ASSUME wstat' = wstat
    PROVE  Spared
BY DEF Spared

\* Nor does dbg_thaw_threads.
LEMMA ThawSpares ==
    ASSUME IInv, NEW m, NEW S, DoThaw(m, S, "idle")
    PROVE  Spared
BY RestartSpares, SameSpares DEF DoThaw, Interr, kernel

\* Nor does the label RESUME.
LEMMA ResumeSpares ==
    ASSUME IInv, NEW m, Resume(m)
    PROVE  Spared
<1>1. CASE ResumeApp(m)
    BY <1>1, ThawSpares DEF ResumeApp
<1>2. CASE Return(Enqueue(m, Ev("PROCESS_SUSPEND", job.tid)))
    BY <1>2, SameSpares DEF Return, kernel
<1> QED BY <1>1, <1>2 DEF Resume

\* Of what follows a freeze only dbg_exit_process kills.
LEMMA FinishSpares ==
    ASSUME IInv, Finish
    PROVE  Spared \/ ProcessKilled
<1>1. CASE EventReady \/ ProcessExit \/ ThreadExit \/ ThreadSuspended
    BY <1>1, SameSpares DEF EventReady, ProcessExit, ThreadExit, ThreadSuspended, Return, Report, kernel
<1>2. CASE AwaitedSigstop
    BY <1>2, ResumeSpares DEF AwaitedSigstop
<1>3. CASE Trap
  <2>1. PICK m, e : Resume(m) \/ Report(m, e)
    BY <1>3 DEF Trap
  <2> QED BY <2>1, ResumeSpares, SameSpares DEF Report, Return, kernel
<1>4. CASE Signalled
  <2>1. PICK m, e : Resume(m) \/ Report(m, e)
    BY <1>4 DEF Signalled
  <2> QED BY <2>1, ResumeSpares, SameSpares DEF Report, Return, kernel
<1>5. CASE MemoryAccessed
    BY <1>5, ThawSpares DEF MemoryAccessed
<1> QED BY <1>1, <1>2, <1>3, <1>4, <1>5 DEF Finish

\* So it is with every step, unless somebody else kills the process.
LEMMA StepSpares ==
    ASSUME IInv, "kill" \notin World, [Next]_vars
    PROVE  Spared \/ ProcessKilled
<1>1. CASE UNCHANGED vars \/ Over \/ GetDebugEvent
    BY <1>1, SameSpares DEF Over, GetDebugEvent, vars, kernel
<1>2. CASE ContinueAfterEvent
  <2>1. PICK m : ResumeApp(m) \/ UNCHANGED vars
    BY <1>2 DEF ContinueAfterEvent
  <2> QED BY <2>1, ThawSpares, SameSpares DEF ResumeApp, vars, kernel
<1>3. CASE Poll
  <2>1. CASE Deliver \/ PollPending \/ PollNothing
    BY <2>1, SameSpares DEF Deliver, PollPending, PollNothing, kernel
  <2>2. CASE NewbornStatus
    <3>1. child[job.tid] \in Tids
      BY DEF IInv, ServerTyped, KernelTyped, Jobs
    <3> QED BY <2>2, <3>1, CollectSpares, SameSpares, ZenonT(40) DEF NewbornStatus, NewbornStopped, Interr, kernel
  <2>3. ASSUME NEW t \in Tids, PollStatus(t) PROVE Spared
    BY <2>3, CollectSpares DEF PollStatus
  <2> QED BY <1>3, <2>1, <2>2, <2>3 DEF Poll
<1>4. CASE Wait
    BY <1>4, CollectSpares, SameSpares DEF Wait, FreezePoll, FreezeStatus, vars, kernel
<1>5. CASE Finish
    BY <1>5, FinishSpares
<1>6. CASE Request
  <2>1. CASE AccessMemory \/ PrepareToPause \/ ExitProcess
    BY <2>1, SameSpares DEF AccessMemory, PrepareToPause, ExitProcess
  <2>2. ASSUME NEW t \in Tids, ThreadContinue(t) PROVE Spared
    BY <2>2, ThawSpares, SameSpares DEF ThreadContinue, kernel
  <2>3. CASE \E t \in Tids : ThreadSuspend(t) \/ SetResumeMode(t)
    BY <2>3, SameSpares DEF ThreadSuspend, SetResumeMode, kernel
  <2> QED BY <1>6, <2>1, <2>2, <2>3 DEF Request
<1>7. ASSUME NEW t \in Tids, NEW s, s # "SIGNALED", StopTask(t, s) PROVE Spared
    BY <1>7 DEF StopTask, Spared, IInv, KernelTyped
<1>8. CASE Signal
    BY <1>7, <1>8, SignalsAssumption DEF Signal, TakeSignal
<1>9. CASE Process
  <2>1. ~Killed
    BY DEF Killed
  <2>2. ASSUME NEW t \in Tids, HitTrap(t) PROVE Spared
    BY <1>7, <2>2 DEF HitTrap
  <2>3. ASSUME NEW t \in Tids, ExitThread(t) PROVE Spared
    BY <2>3 DEF ExitThread, Spared, IInv, KernelTyped
  <2>4. ASSUME NEW t \in Tids, ExitGroup(t) PROVE Spared
    BY <2>4 DEF ExitGroup, TakeDown, Spared, IInv, KernelTyped
  <2>5. ASSUME NEW t \in Tids, NEW s \in Signals, RaiseSignal(t, s) PROVE Spared
    BY <2>5, SameSpares DEF RaiseSignal
  <2>6. ASSUME NEW t \in Tids, NEW u \in Tids, Clone(t, u) PROVE Spared
    BY <2>6 DEF Clone, Spared, IInv, KernelTyped
  <2> QED BY <1>9, <2>1, <2>2, <2>3, <2>4, <2>5, <2>6 DEF Process
<1> QED BY <1>1, <1>2, <1>3, <1>4, <1>5, <1>6, <1>8, <1>9 DEF Next

-----------------------------------------------------------------------------
(* The assertions hold *)

\* The assertion before a status is stored (QASSERT 30185) holds.
LEMMA StoreAsserted ==
    ASSUME IInv, Agree, Unbroken, NEW t \in Tids, FreezeStatus(t)
    PROVE  failed' = 0
<1>1. pc = "freeze" /\ wstat[t] # None
    BY DEF FreezeStatus, Reportable
<1>2. wstat[t] \in Exits \cup Stops
    BY <1>1, AgreeFacts, StatusFacts DEF Tables
<1>3. ASSUME t \in dm.threads, dm.pending_status[t] # None, ~dm.exited, wstat[t] # "EXITED"
      PROVE  FALSE
  <2>1. wstat[t] # "SIGNALED"
    BY <1>3 DEF Unbroken
  <2>2. wstat[t] \in Stops
    BY <1>2, <1>3, <2>1 DEF Exits
  <2>3. task[t] = "stop"
    BY <1>1, <2>2, AgreeFacts, StatusFacts DEF Kernel
  <2>4. Taken[t] \notin Exits
    <3>1. SUFFICES ASSUME Taken[t] \in Exits PROVE FALSE
      OBVIOUS
    <3>2. job.for = "event" /\ job.tid = t /\ job.status \in Exits
      BY <1>1, <3>1, StatusFacts DEF Taken
    <3> QED BY <1>1, <2>3, <3>2, AgreeFacts DEF Freezing
  <2>5. Known(dm, Taken[t], task, wstat, sigs, t)
    BY AgreeFacts, FitAt
  <2> QED BY <1>1, <1>3, <2>3, <2>4, <2>5 DEF Known, Alive
<1>4. StoreAssert(dm, t, wstat[t])
    BY <1>3 DEF StoreAssert
<1> QED BY <1>4 DEF FreezeStatus, Unbroken

\* Every assertion but that one is known to hold.
LEMMA StepAsserted ==
    ASSUME IInv, Agree, Agree', [Next]_vars, failed = 0, \A t \in Tids : ~FreezeStatus(t)
    PROVE  failed' = 0
<1>1. failed' \in {0, 30185}
    BY DEF Agree
<1>2. ASSUME NEW m, NEW S, DoThaw(m, S, "idle") PROVE failed' \in {0, 30188}
    BY <1>2 DEF DoThaw, Interr
<1>3. ASSUME NEW m, Resume(m) PROVE failed' \in {0, 30188}
    BY <1>2, <1>3 DEF Resume, ResumeApp, Return
<1>4. ASSUME NEW m, NEW t, NEW s, NEW r, BeginEvent(m, t, s, r) PROVE failed' \in {0, 30057}
    BY <1>4 DEF BeginEvent
<1>5. ASSUME NEW m, NEW t, NEW s, TakeStatus(m, t, s) PROVE failed' \in {0, 30057}
  <2>1. CASE Newborn(m, t, s)
    BY <2>1 DEF Newborn
  <2>2. CASE BeginEvent(SeenNewborn(m, t), t, s, TRUE)
    BY <2>2 DEF BeginEvent, StartFreeze, EventJob
  <2>3. CASE BeginEvent(m, t, s, FALSE)
    BY <2>3 DEF BeginEvent, StartFreeze, EventJob
  <2>4. CASE s = "CLONE" /\ child[t] \in m.seen_threads
    BY <1>5, <2>2, <2>4 DEF TakeStatus
  <2>5. CASE s = "CLONE" /\ child[t] \notin m.seen_threads
    BY <1>5, <2>1, <2>5 DEF TakeStatus
  <2>6. CASE s # "CLONE"
    BY <1>5, <2>3, <2>6 DEF TakeStatus
  <2> QED BY <2>4, <2>5, <2>6
<1>6. CASE UNCHANGED vars \/ Over \/ GetDebugEvent \/ Signal \/ Process
    BY <1>6 DEF Over, GetDebugEvent, vars, Process, Signal, HitTrap, ExitThread, ExitGroup, RaiseSignal,
                Clone, Killed, TakeSignal, ServerUnchanged
<1>7. CASE ContinueAfterEvent
  <2>1. PICK m : ResumeApp(m) \/ UNCHANGED vars
    BY <1>7 DEF ContinueAfterEvent
  <2> QED BY <1>1, <1>2, <2>1 DEF ResumeApp, vars
<1>8. CASE Poll
  <2>1. CASE Deliver \/ PollNothing
    BY <2>1 DEF Deliver, PollNothing
  <2>2. CASE PollPending
    BY <1>1, <1>5, <2>2 DEF PollPending
  <2>3. CASE NewbornStatus
    <3>1. CASE Interr(1200)
      BY <1>1, <3>1 DEF Interr
    <3>2. CASE NewbornStopped
      <4>1. PICK k : BeginEvent(k, job.tid, job.status, TRUE)
        BY <3>2 DEF NewbornStopped
      <4>2. failed' \in {0, 30057}
        BY <4>1 DEF BeginEvent, StartFreeze, EventJob
      <4> QED BY <1>1, <4>2
    <3> QED BY <2>3, <3>1, <3>2 DEF NewbornStatus
  <2>4. ASSUME NEW t \in Tids, PollStatus(t) PROVE failed' = 0
    BY <1>1, <1>5, <2>4 DEF PollStatus
  <2> QED BY <1>8, <2>1, <2>2, <2>3, <2>4 DEF Poll
<1>9. CASE Wait
    BY <1>9 DEF Wait, FreezePoll, vars
<1>10. CASE Finish
  <2>1. CASE EventReady \/ ProcessExit \/ ThreadExit \/ ThreadSuspended \/ ProcessKilled
    BY <2>1 DEF EventReady, ProcessExit, ThreadExit, ThreadSuspended, ProcessKilled, Return, Report
  <2>2. CASE AwaitedSigstop
    BY <1>1, <1>3, <2>2 DEF AwaitedSigstop
  <2>3. CASE Trap
    <3>1. PICK m, e : Resume(m) \/ Report(m, e)
      BY <2>3 DEF Trap
    <3> QED BY <1>1, <1>3, <3>1 DEF Report, Return
  <2>4. CASE Signalled
    <3>1. PICK m, e : Resume(m) \/ Report(m, e)
      BY <2>4 DEF Signalled
    <3> QED BY <1>1, <1>3, <3>1 DEF Report, Return
  <2>5. CASE MemoryAccessed
    BY <1>1, <1>2, <2>5 DEF MemoryAccessed
  <2> QED BY <1>10, <2>1, <2>2, <2>3, <2>4, <2>5 DEF Finish
<1>11. CASE Request
  <2>1. CASE AccessMemory \/ PrepareToPause \/ ExitProcess \/ \E t \in Tids : ThreadSuspend(t) \/ SetResumeMode(t)
    BY <2>1 DEF AccessMemory, PrepareToPause, ExitProcess, ThreadSuspend, SetResumeMode
  <2>2. ASSUME NEW t \in Tids, ThreadContinue(t) PROVE failed' = 0
    BY <1>1, <1>2, <2>2 DEF ThreadContinue
  <2> QED BY <1>11, <2>1, <2>2 DEF Request
<1> QED BY <1>6, <1>7, <1>8, <1>9, <1>10, <1>11 DEF Next

\* No step breaks an assertion.
LEMMA NextUnbroken ==
    ASSUME LeaderFirst, "kill" \notin World, IInv, Agree, Unbroken, [Next]_vars
    PROVE  Unbroken'
<1>1. Agree'
    BY NextAgree
<1>2. failed' = 0
    BY <1>1, StoreAsserted, StepAsserted DEF Unbroken
<1>3. ASSUME NEW t \in Tids, wstat'[t] = "SIGNALED" PROVE dm'.exited
  <2>1. CASE ProcessKilled
    <3>1. dm'.exited
      BY <2>1, ExitedField DEF ProcessKilled, Marked
    <3> QED BY <3>1
  <2>2. CASE Spared
    BY <1>3, <2>2, ExitedStays DEF Persists, Spared, Unbroken
  <2> QED BY <2>1, <2>2, StepSpares
<1> QED BY <1>2, <1>3 DEF Unbroken

\* Unless the process is killed from outside, none of the assertions of the
\* engine fails (QASSERTs 30057, 30185 and 30188, INTERR 1200 of
\* linux_debmod.cpp and linux_threads.cpp), in any instance (NoInterr).
THEOREM AssertionsHold ==
    ASSUME LeaderFirst, "kill" \notin World
    PROVE  Spec => []NoInterr
<1>1. Init => IInv /\ Agree /\ Unbroken
  <2>1. Init => Unbroken
    BY StatusFacts DEF Init, Unbroken
  <2> QED BY <2>1, InitIInv, InitAgree
<1>2. (IInv /\ Agree /\ Unbroken) /\ [Next]_vars => (IInv /\ Agree /\ Unbroken)'
    BY NextIInv, NextAgree, NextUnbroken
<1>3. Unbroken => NoInterr
    BY DEF Unbroken, NoInterr
<1> QED BY <1>1, <1>2, <1>3, PTL DEF Spec

-----------------------------------------------------------------------------
(* The SIGSTOPs of the debugger: what an object owes *)

\* An exception that shows a SIGSTOP to the client.
Stray(e) == e.eid = "EXCEPTION" /\ e.sig = "SIGSTOP"

\* No such exception is queued.
Clean(m) == \A i \in 1 .. Len(m.events) : ~Stray(m.events[i])

\* The SIGSTOPs of t are those the entry waits for, and there is one at most.
Owed(m, x, st, sg, t) ==
    t \in m.threads =>
        /\ m.pending_status[t] # "SIGSTOP"
        /\ m.waiting_sigstop[t] \/ ("SIGSTOP" \notin sg[t] /\ st[t] # "SIGSTOP" /\ x # "SIGSTOP")
        /\ "SIGSTOP" \in sg[t] => st[t] # "SIGSTOP" /\ x # "SIGSTOP"
        /\ st[t] = "SIGSTOP" => x # "SIGSTOP"

\* n waits for the same SIGSTOPs as m and has stored nothing new.
Eases(m, n) ==
    /\ Good(n) /\ (Clean(m) => Clean(n))
    /\ n.threads \in SUBSET m.threads
    /\ \A t \in Tids : /\ n.waiting_sigstop[t] = m.waiting_sigstop[t]
                       /\ n.pending_status[t] = m.pending_status[t] \/ n.pending_status[t] = None

\* Where fewer SIGSTOPs are to come and no mark is lost, the account still holds.
LEMMA OwedEases ==
    ASSUME NEW m, NEW n, Eases(m, n), NEW t \in Tids, NEW x, NEW st, NEW sg, Owed(m, x, st, sg, t),
           NEW x2, x2 # "SIGSTOP" \/ x2 = x,
           NEW st2, st2[t] # "SIGSTOP" \/ st2[t] = st[t],
           NEW sg2, "SIGSTOP" \in sg2[t] => "SIGSTOP" \in sg[t]
    PROVE  Owed(n, x2, st2, sg2, t)
BY StatusFacts DEF Eases, Owed, None

\* One operator after another.
LEMMA EasesChain ==
    ASSUME NEW m, NEW n, Eases(m, n), NEW k, Eases(n, k)
    PROVE  Eases(m, k)
BY DEF Eases

\* A change to the other fields.
LEMMA SameEases ==
    ASSUME NEW m, NEW n, Good(n),
           \A f \in {"threads", "events", "waiting_sigstop", "pending_status"} : n[f] = m[f]
    PROVE  Eases(m, n)
<1>1. /\ n.threads = m.threads /\ n.events = m.events /\ n.waiting_sigstop = m.waiting_sigstop
      /\ n.pending_status = m.pending_status
    OBVIOUS
<1> QED BY <1>1 DEF Eases, Clean

\* An event is queued.
LEMMA EnqueueEases ==
    ASSUME NEW m, Good(m), NEW e \in Event, ~Stray(e)
    PROVE  Eases(m, Enqueue(m, e)) /\ Eases(m, EnqueueFront(m, e))
<1>1. m.events \in Seq(Event) /\ "events" \in DOMAIN m
    BY DEF Good, Typed, Shaped, Fields
<1>2. ASSUME NEW n, n = Enqueue(m, e) PROVE Eases(m, n)
  <2>1. /\ n.threads = m.threads /\ n.waiting_sigstop = m.waiting_sigstop
        /\ n.pending_status = m.pending_status /\ n.events = Append(m.events, e)
    BY <1>1, <1>2 DEF Enqueue, Good, Shaped, Fields
  <2>2. Clean(m) => Clean(n)
    BY <1>1, <2>1 DEF Clean
  <2> QED BY <1>2, <2>1, <2>2, EnqueueGood DEF Eases
<1>3. ASSUME NEW n, n = EnqueueFront(m, e) PROVE Eases(m, n)
  <2>1. /\ n.threads = m.threads /\ n.waiting_sigstop = m.waiting_sigstop
        /\ n.pending_status = m.pending_status /\ n.events = <<e>> \o m.events
    BY <1>1, <1>3 DEF EnqueueFront, Good, Shaped, Fields
  <2>2. Clean(m) => Clean(n)
    <3>1. SUFFICES ASSUME Clean(m), NEW i \in 1 .. Len(n.events) PROVE ~Stray(n.events[i])
      BY DEF Clean
    <3>2. n.events[i] = IF i = 1 THEN e ELSE m.events[i - 1]
      BY <1>1, <2>1, <3>1
    <3>3. i # 1 => i - 1 \in 1 .. Len(m.events)
      BY <1>1, <2>1, <3>1
    <3> QED BY <3>1, <3>2, <3>3 DEF Clean
  <2> QED BY <1>3, <2>1, <2>2, EnqueueGood DEF Eases
<1> QED BY <1>2, <1>3

\* may_run, in_event and the end of the process are changed.
LEMMA HeldEases ==
    ASSUME NEW m, Good(m)
    PROVE  Eases(m, Held(m)) /\ Eases(m, Runnable(m)) /\ Eases(m, Acknowledged(m)) /\ Eases(m, Slain(m))
<1>1. ASSUME NEW n, n \in {Held(m), Runnable(m)}
      PROVE  \A f \in {"threads", "events", "waiting_sigstop", "pending_status"} : n[f] = m[f]
    BY <1>1 DEF Held, Runnable, Good, Shaped, Fields
<1> QED BY <1>1, RunnableGood, AcknowledgedFields, SlainFields, SameEases DEF Fields

\* The signal to pass on, the step flag, the last thread and a state are changed.
LEMMA AsideEases ==
    ASSUME NEW m, Good(m), NEW t \in Tids, NEW s \in Status \cup {None}, NEW l \in Tids \cup {0}
    PROVE  /\ Eases(m, Signum(m, t, s)) /\ Eases(m, Stepped(m, t, l)) /\ Eases(m, LastTid(m, l))
           /\ Eases(m, MarkStopped(m, t))
<1>1. ASSUME NEW n, n \in {Signum(m, t, s), Stepped(m, t, l)}
      PROVE  \A f \in {"threads", "events", "waiting_sigstop", "pending_status"} : n[f] = m[f]
    BY <1>1 DEF Signum, Stepped, Good, Shaped, Fields
<1>2. Good(Signum(m, t, s)) /\ Good(Stepped(m, t, l))
    BY FieldsGood, SteppedGood DEF Signum
<1>3. Eases(m, LastTid(m, l))
    BY LastTidGood, SameEases DEF Fields
<1>4. ASSUME NEW n, n = MarkStopped(m, t) PROVE Eases(m, n)
    BY <1>4, StoppedFields, SameEases
<1> QED BY <1>1, <1>2, <1>3, <1>4, SameEases

\* An entry is removed, a stored signal is taken.
LEMMA RemoveEases ==
    ASSUME NEW m, Good(m), NEW t \in Tids
    PROVE  /\ Eases(m, DelThread(m, t))
           /\ t \in Flagged(m) => Eases(m, TakePending(m, t))
<1>1. ASSUME NEW n, n = DelThread(m, t) PROVE Eases(m, n)
  <2>1. /\ n.threads = m.threads \ {t} /\ n.events = m.events /\ n.waiting_sigstop = m.waiting_sigstop
        /\ \A u \in Tids : n.pending_status[u] = IF u = t THEN None ELSE m.pending_status[u]
    BY <1>1, DelThreadFields DEF Fields
  <2> QED BY <1>1, <2>1, DelThreadGood DEF Eases, Clean
<1>2. ASSUME t \in Flagged(m), NEW n, n = TakePending(m, t) PROVE Eases(m, n)
    BY <1>2, TakePendingFields DEF Eases, Clean
<1> QED BY <1>1, <1>2

\* dbg_thaw_threads.
LEMMA ThawEases ==
    ASSUME NEW m, Good(m), NEW S \in SUBSET Tids
    PROVE  Eases(m, Thaw(m, S))
<1> SUFFICES ASSUME NEW n, n = Thaw(m, S) PROVE Eases(m, n)
    OBVIOUS
<1>1. /\ n.threads = m.threads /\ n.waiting_sigstop = m.waiting_sigstop
      /\ n.pending_status = m.pending_status
    BY ThawFields DEF FitFields
<1>2. m.events \in Seq(Event) /\ FirstZombies(m, S) \in SUBSET Tids
    BY DEF Good, Typed, FirstZombies, Zombies, Restartable
<1>3. n.events = m.events \/ \E z \in Tids : n.events = Append(m.events, Ev("THREAD_EXIT", z))
    BY <1>2, ThawFields
<1>4. Clean(m) => Clean(n)
  <2>1. CASE n.events = m.events
    BY <2>1 DEF Clean
  <2>2. CASE \E z \in Tids : n.events = Append(m.events, Ev("THREAD_EXIT", z))
    <3>1. PICK z \in Tids : n.events = Append(m.events, Ev("THREAD_EXIT", z))
      BY <2>2
    <3>2. ~Stray(Ev("THREAD_EXIT", z))
      BY DEF Stray, Ev, SignalEv
    <3> QED BY <1>2, <3>1, <3>2 DEF Clean
  <2> QED BY <1>3, <2>1, <2>2
<1> QED BY <1>1, <1>4, ThawGood DEF Eases

-----------------------------------------------------------------------------
(* The SIGSTOPs: freezing, thawing and reporting *)

\* The SIGSTOPs of the debugger are accounted for wherever the server is; the
\* entry of a new thread is exempt until its own SIGSTOP has been collected.
Accounts ==
    /\ pc # "halt" => \A t \in Tids : \/ Owed(dm, Taken[t], wstat, sigs, t)
                                      \/ pc = "newborn" /\ t = child[job.tid]
    /\ ~Stray(cur) /\ Clean(dm)

\* The object m is accounted for, and no status is in the server's hands.
Settled(m) == Good(m) /\ Clean(m) /\ \A t \in Tids : Owed(m, None, wstat, sigs, t)

\* The same of an object of which nothing is in the server's hands.
LEMMA SettledEases ==
    ASSUME NEW m, Settled(m), NEW n, Eases(m, n)
    PROVE  Settled(n)
<1>1. \A t \in Tids : Owed(n, None, wstat, sigs, t)
    BY OwedEases DEF Settled
<1> QED BY <1>1 DEF Settled, Eases

\* After dbg_thaw_threads the SIGSTOPs are accounted for.
LEMMA ThawAccounts ==
    ASSUME IInv, ~Stray(cur), Clean(dm), NEW m, Settled(m), NEW S \in SUBSET Tids, DoThaw(m, S, "idle")
    PROVE  Accounts'
<1>1. CASE Interr(30188)
    BY <1>1 DEF Interr, Accounts
<1>2. CASE /\ dm' = Thaw(m, S) /\ Restart(Restarted(m, S)) /\ pc' = "idle" /\ cur' = cur
  <2>1. Settled(Thaw(m, S))
    BY SettledEases, ThawEases DEF Settled
  <2>2. \A t \in Tids : Taken'[t] = None
    BY <1>2 DEF Taken
  <2>3. sigs' = sigs /\ \A t \in Tids : wstat'[t] = wstat[t] \/ wstat'[t] = None
    BY <1>2 DEF Restart, IInv, KernelTyped
  <2>4. ASSUME NEW t \in Tids PROVE Owed(dm', None, wstat', sigs', t)
    BY <1>2, <2>1, <2>3, StatusFacts DEF Owed, Settled
  <2> QED BY <1>2, <2>1, <2>2, <2>4 DEF Accounts, Settled
<1> QED BY <1>1, <1>2 DEF DoThaw

\* After resume_app.
LEMMA ResumeAppAccounts ==
    ASSUME IInv, ~Stray(cur), Clean(dm), NEW m, Settled(m), ResumeApp(m)
    PROVE  Accounts'
<1>1. Settled(Runnable(m))
    BY HeldEases, SettledEases DEF Settled
<1> QED BY <1>1, ThawAccounts DEF ResumeApp

\* At the end of get_debug_event.
LEMMA ReturnAccounts ==
    ASSUME IInv, ~Stray(cur), NEW m, Settled(m), Return(m)
    PROVE  Accounts'
<1>1. \A t \in Tids : Taken'[t] = None
    BY DEF Return, Taken
<1>2. dm' = m /\ wstat' = wstat /\ sigs' = sigs /\ pc' = "poll" /\ cur' = cur
    BY DEF Return, kernel
<1> QED BY <1>1, <1>2 DEF Accounts, Settled

\* An event is queued and get_debug_event ends.
LEMMA ReportAccounts ==
    ASSUME IInv, ~Stray(cur), NEW m, Settled(m), NEW e \in Event, ~Stray(e), Report(m, e)
    PROVE  Accounts'
<1>1. Settled(Enqueue(m, e))
    BY SettledEases, EnqueueEases DEF Settled
<1>2. e.tid \in Tids
    BY DEF Event
<1>3. Settled(Stepped(Enqueue(m, e), e.tid, e.tid))
    <2>1. None \in Status \cup {None}
      OBVIOUS
    <2> QED BY <1>1, <1>2, <2>1, SettledEases, AsideEases DEF Settled
<1> QED BY <1>3, ReturnAccounts DEF Report, Stepped

\* The label RESUME.
LEMMA ResumeAccounts ==
    ASSUME IInv, ~Stray(cur), Clean(dm), NEW m, Settled(m), Resume(m)
    PROVE  Accounts'
<1>1. CASE ResumeApp(m)
    BY <1>1, ResumeAppAccounts
<1>2. CASE Return(Enqueue(m, Ev("PROCESS_SUSPEND", job.tid)))
  <2>1. Ev("PROCESS_SUSPEND", job.tid) \in Event /\ ~Stray(Ev("PROCESS_SUSPEND", job.tid))
    BY DEF IInv, ServerTyped, Jobs, Ev, SignalEv, Event, EventIds, Stray
  <2>2. Settled(Enqueue(m, Ev("PROCESS_SUSPEND", job.tid)))
    BY <2>1, SettledEases, EnqueueEases DEF Settled
  <2> QED BY <1>2, <2>2, ReturnAccounts
<1> QED BY <1>1, <1>2 DEF Resume

\* dbg_freeze_threads asks only threads that owe no SIGSTOP.
LEMMA FreezeAccounts ==
    ASSUME NEW m, Good(m), Clean(m), NEW S \in SUBSET Tids,
           \A t \in Tids : Owed(m, Taken'[t], wstat', sigs, t),
           dm' = Freeze(m, S), SendSigstop(FreezeSet(m, S)), ~Stray(cur), cur' = cur
    PROVE  Accounts'
<1>1. \A f \in Fields \ {"suspend_count", "waiting_sigstop"} : dm'[f] = m[f]
    BY FreezeFields
<1>2. dm'.threads = m.threads /\ dm'.events = m.events /\ dm'.pending_status = m.pending_status
    BY <1>1 DEF Fields
<1>3. \A t \in Tids : dm'.waiting_sigstop[t] = (m.waiting_sigstop[t] \/ t \in FreezeSet(m, S))
    BY FreezeFields
<1>4. Clean(dm')
    BY <1>2 DEF Clean
<1>5. ASSUME NEW t \in Tids PROVE Owed(dm', Taken'[t], wstat', sigs', t)
  <2>1. CASE t \in FreezeSet(m, S)
    <3>1. t \in m.threads /\ ~m.waiting_sigstop[t]
      BY <2>1 DEF FreezeSet, IsRunning
    <3> QED BY <1>2, <1>3, <2>1, <3>1 DEF Owed
  <2>2. CASE t \notin FreezeSet(m, S)
    <3>1. sigs'[t] = sigs[t]
      BY <2>2 DEF SendSigstop
    <3>2. dm'.waiting_sigstop[t] = m.waiting_sigstop[t]
      BY <1>3, <2>2 DEF Good, Typed
    <3> QED BY <1>2, <3>1, <3>2 DEF Owed
  <2> QED BY <2>1, <2>2
<1> QED BY <1>4, <1>5 DEF Accounts

\* The freeze for an event.
LEMMA BeginAccounts ==
    ASSUME NEW m, Good(m), Clean(m), NEW t \in Tids, NEW s, NEW r,
           \A u \in Tids : Owed(m, IF u = t THEN s ELSE None, wstat', sigs, u),
           BeginEvent(m, t, s, r), SendSigstop(queue'), ~Stray(cur)
    PROVE  Accounts'
<1>1. CASE pc' = "halt" /\ dm' = m /\ cur' = cur
    BY <1>1 DEF Accounts
<1>2. CASE StartFreeze(MarkStopped(m, t), Tids, EventJob(t, s, r)) /\ cur' = cur
  <2> DEFINE n == MarkStopped(m, t)
  <2>1. Eases(m, n)
    BY StatusFacts, AsideEases
  <2>2. /\ dm' = Freeze(n, Tids) /\ queue' = FreezeSet(n, Tids) /\ pc' = "freeze"
        /\ job'.for = "event" /\ job'.tid = t /\ job'.status = s
    BY <1>2 DEF StartFreeze, EventJob
  <2>3. \A u \in Tids : Taken'[u] = IF u = t THEN s ELSE None
    BY <2>2 DEF Taken
  <2>4. Good(n) /\ Clean(n)
    BY <2>1 DEF Eases
  <2> HIDE DEF n
  <2>5. \A u \in Tids : Owed(n, Taken'[u], wstat', sigs, u)
    BY <2>1, <2>3, OwedEases
  <2>6. SendSigstop(FreezeSet(n, Tids))
    BY <2>2
  <2> QED BY <1>2, <2>2, <2>4, <2>5, <2>6, FreezeAccounts
<1> QED BY <1>1, <1>2 DEF BeginEvent, MarkStopped

-----------------------------------------------------------------------------
(* The SIGSTOPs: dbg_get_debug_event *)

\* The server has looked for an event and holds nothing.
LEMMA PollOwed ==
    ASSUME IInv, Agree, Accounts, pc = "poll", dm.events = << >>
    PROVE  /\ \A t \in Tids : Owed(dm, None, wstat, sigs, t)
           /\ ~Stray(cur) /\ Clean(dm) /\ Good(dm)
<1>1. \A t \in Tids : Taken[t] = None
    BY PollFacts
<1>2. \A t \in Tids : Owed(dm, Taken[t], wstat, sigs, t)
    BY DEF Accounts
<1> QED BY <1>1, <1>2, AgreeFacts DEF Accounts

\* The clone event of p: the new thread joins the table owing nothing, or it is
\* exempt until its SIGSTOP has come.
LEMMA CloneAccounts ==
    ASSUME IInv, Agree, Accounts, pc = "poll", dm.events = << >>,
           NEW p \in Tids, OpenClone(dm, task, wstat, p),
           NEW k, Eases(dm, k), k.threads = dm.threads, k.seen_threads = dm.seen_threads,
           \A t \in Tids : Owed(k, None, wstat', sigs, t),
           TakeStatus(k, p, "CLONE"), SendSigstop(queue'), child' = child,
           \A t \in Tids : wstat'[t] = wstat[t] \/ wstat'[t] = None
    PROVE  Accounts'
<1> DEFINE u == child[p]
<1>0. u = child[p]
    OBVIOUS
<1> HIDE DEF u
<1>1. Good(k) /\ Clean(k) /\ ~Stray(cur) /\ queue = {}
    BY PollOwed, PollFacts DEF Eases
<1>2. u \in Tids /\ u \notin k.threads /\ Alive(task, u)
    BY <1>0, AgreeFacts DEF OpenClone, Fit, Clones
<1>3. ASSUME u \in dm.seen_threads PROVE sigs[u] = {} /\ wstat[u] = None
  <2>1. Unseen(dm, task, wstat, sigs, u)
    BY <1>2, AgreeFacts, FitAt
  <2> QED BY <1>2, <1>3, <2>1 DEF Unseen, Alive
<1>4. CASE u \in k.seen_threads
  <2> DEFINE l == SeenNewborn(k, p)
  <2>0. l = SeenNewborn(k, p)
    OBVIOUS
  <2> HIDE DEF l
  <2>1. /\ Good(l) /\ l.threads = k.threads \cup {u} /\ ~l.waiting_sigstop[u]
        /\ \A v \in Tids : /\ l.pending_status[v] = IF v = u THEN None ELSE k.pending_status[v]
                           /\ v # u => l.waiting_sigstop[v] = k.waiting_sigstop[v]
    BY <1>0, <1>1, <1>2, <2>0, SeenNewbornFields
  <2>2. BeginEvent(l, p, "CLONE", TRUE)
    BY <1>0, <1>4, <2>0 DEF TakeStatus
  <2>3. Clean(l)
    <3> DEFINE a == [AddThread(k, u) EXCEPT !.seen_threads = @ \ {u}]
    <3>1. Good(a)
      <4>1. Good(AddThread(k, u))
        BY <1>1, <1>2, AddThreadGood
      <4>2. AddThread(k, u).seen_threads \ {u} \in FreeType["seen_threads"]
        BY <4>1 DEF Good, Typed, FreeType
      <4>3. "seen_threads" \in DOMAIN FreeType
        BY DEF FreeType
      <4> QED BY <4>1, <4>2, <4>3, SetField
    <3>2. a.events = k.events
      BY <1>1, <1>2 DEF AddThread, Good, Shaped, Fields
    <3>3. Clean(a)
      BY <1>1, <3>2 DEF Clean
    <3>4. l = EnqueueFront(a, Ev("THREAD_START", u))
      BY <1>0, <2>0 DEF SeenNewborn
    <3>5. Ev("THREAD_START", u) \in Event /\ ~Stray(Ev("THREAD_START", u))
      BY <1>2 DEF Ev, SignalEv, Event, EventIds, Stray
    <3> HIDE DEF a
    <3> QED BY <3>1, <3>3, <3>4, <3>5, EnqueueEases DEF Eases
  <2>4. ASSUME NEW t \in Tids PROVE Owed(l, IF t = p THEN "CLONE" ELSE None, wstat', sigs, t)
    <3>1. CASE t = u
      <4>1. sigs[u] = {} /\ (wstat'[u] = wstat[u] \/ wstat'[u] = None) /\ wstat[u] = None
        BY <1>2, <1>3, <1>4
      <4> QED BY <2>1, <3>1, <4>1, StatusFacts DEF Owed
    <3>2. CASE t # u
      <4>1. /\ l.pending_status[t] = k.pending_status[t] /\ l.waiting_sigstop[t] = k.waiting_sigstop[t]
            /\ t \in l.threads <=> t \in k.threads
        BY <2>1, <3>2
      <4>2. Owed(k, None, wstat', sigs, t)
        OBVIOUS
      <4> QED BY <4>1, <4>2 DEF Owed
    <3> QED BY <3>1, <3>2
  <2> QED BY <1>1, <2>1, <2>2, <2>3, <2>4, BeginAccounts
<1>5. CASE u \notin k.seen_threads
  <2>1. dm' = AddThread(k, u) /\ job' = EventJob(p, "CLONE", TRUE) /\ pc' = "newborn" /\ cur' = cur /\ queue' = queue
    BY <1>0, <1>5 DEF TakeStatus, Newborn
  <2>2. /\ dm'.threads = k.threads \cup {u} /\ dm'.events = k.events
        /\ \A v \in Tids : /\ dm'.pending_status[v] = IF v = u THEN None ELSE k.pending_status[v]
                           /\ v # u => dm'.waiting_sigstop[v] = k.waiting_sigstop[v]
    BY <1>1, <1>2, <2>1, AddThreadFields
  <2>3. job'.tid = p /\ child'[job'.tid] = u
    BY <1>0, <2>1 DEF EventJob
  <2>4. \A t \in Tids \ {u} : Taken'[t] # "SIGSTOP"
    BY <2>1, <2>3, StatusFacts DEF Taken
  <2>5. \A t \in Tids : sigs'[t] = sigs[t]
    BY <1>1, <2>1 DEF SendSigstop
  <2>6. ASSUME NEW t \in Tids, t # u PROVE Owed(dm', Taken'[t], wstat', sigs', t)
    <3>1. /\ dm'.pending_status[t] = k.pending_status[t] /\ dm'.waiting_sigstop[t] = k.waiting_sigstop[t]
          /\ t \in dm'.threads <=> t \in k.threads
      BY <2>2, <2>6
    <3>2. Owed(k, None, wstat', sigs, t)
      OBVIOUS
    <3> QED BY <2>4, <2>5, <2>6, <3>1, <3>2 DEF Owed
  <2>7. Clean(dm')
    BY <1>1, <2>2 DEF Clean
  <2> QED BY <1>1, <2>1, <2>3, <2>6, <2>7 DEF Accounts
<1> QED BY <1>4, <1>5

\* waitpid hands over a status.
LEMMA PollStatusAccounts ==
    ASSUME IInv, Agree, Accounts, NEW t \in Tids, PollStatus(t)
    PROVE  Accounts'
<1>0. /\ pc = "poll" /\ dm.events = << >> /\ Reportable(t)
      /\ Collect(t, t \in Deleted(dm) \ dm.threads) /\ SendSigstop(queue')
    BY DEF PollStatus
<1>1. /\ Collects(t, task, wstat, task', wstat') /\ child' = child
      /\ wstat[t] # None /\ wstat[t] \in Status
    BY <1>0, CollectStep
<1>2. \A u \in Tids : wstat'[u] = IF u = t THEN None ELSE wstat[u]
    BY <1>1 DEF Collects
<1>3. /\ \A u \in Tids : Owed(dm, None, wstat, sigs, u)
      /\ ~Stray(cur) /\ Clean(dm) /\ Good(dm)
    BY <1>0, PollOwed
<1>4. CASE t \notin dm.threads
  <2>1. dm' = StorePendingSignal(dm, t, wstat[t]) /\ UNCHANGED <<cur, pc, job, queue, failed, budget>>
    BY <1>4 DEF PollStatus
  <2>2. /\ dm'.threads = dm.threads /\ dm'.events = dm.events
        /\ \A u \in Tids : /\ dm'.waiting_sigstop[u] = dm.waiting_sigstop[u]
                           /\ dm'.pending_status[u] = dm.pending_status[u]
    BY <1>1, <1>3, <1>4, <2>1, StoreFields
  <2>3. queue = {} /\ \A u \in Tids : sigs'[u] = sigs[u]
    BY <1>0, <2>1, PollFacts DEF SendSigstop
  <2>4. \A u \in Tids : Taken'[u] = None
    BY <1>0, <2>1 DEF Taken
  <2>5. ASSUME NEW u \in Tids PROVE Owed(dm', None, wstat', sigs', u)
    <3>1. Owed(dm, None, wstat, sigs, u)
      BY <1>3
    <3>2. wstat'[u] = wstat[u] \/ wstat'[u] = None
      BY <1>2
    <3> QED BY <2>2, <2>3, <3>1, <3>2, StatusFacts DEF Owed
  <2> QED BY <1>3, <2>1, <2>2, <2>4, <2>5 DEF Accounts, Clean
<1>5. CASE t \in dm.threads /\ wstat[t] # "CLONE"
  <2>1. BeginEvent(dm, t, wstat[t], FALSE)
    BY <1>5 DEF PollStatus, TakeStatus
  <2>2. ASSUME NEW u \in Tids PROVE Owed(dm, IF u = t THEN wstat[t] ELSE None, wstat', sigs, u)
    <3>1. Owed(dm, None, wstat, sigs, u)
      BY <1>3
    <3>2. wstat'[u] = IF u = t THEN None ELSE wstat[u]
      BY <1>2
    <3> QED BY <3>1, <3>2, StatusFacts DEF Owed
  <2> QED BY <1>0, <1>3, <2>1, <2>2, BeginAccounts
<1>6. CASE t \in dm.threads /\ wstat[t] = "CLONE"
  <2>1. TakeStatus(dm, t, "CLONE")
    BY <1>6 DEF PollStatus
  <2>2. Alive(task, t)
    BY <1>6, StatusFacts, AgreeFacts DEF Kernel, Alive
  <2>3. OpenClone(dm, task, wstat, t)
    BY <1>6, <2>2 DEF OpenClone
  <2>4. Eases(dm, dm)
    BY <1>3 DEF Eases
  <2>5. ASSUME NEW u \in Tids PROVE Owed(dm, None, wstat', sigs, u)
    <3>1. Owed(dm, None, wstat, sigs, u)
      BY <1>3
    <3>2. wstat'[u] = IF u = t THEN None ELSE wstat[u]
      BY <1>2
    <3> QED BY <3>1, <3>2, StatusFacts DEF Owed
  <2>6. \A u \in Tids : wstat'[u] = wstat[u] \/ wstat'[u] = None
    BY <1>2
  <2> QED BY <1>0, <1>1, <2>1, <2>3, <2>4, <2>5, <2>6, CloneAccounts
<1> QED BY <1>4, <1>5, <1>6

\* retrieve_pending_signal hands over a stored one.
LEMMA PollPendingAccounts ==
    ASSUME IInv, Agree, Accounts, PollPending
    PROVE  Accounts'
<1>0. PICK t \in PendingChoice(dm) : TakeStatus(TakePending(dm, t), t, dm.pending_status[t])
    BY DEF PollPending
<1>1. /\ pc = "poll" /\ dm.events = << >> /\ \A u \in Tids : ~Reportable(u)
      /\ SendSigstop(queue') /\ wstat' = wstat /\ child' = child
    BY DEF PollPending
<1>2. /\ t \in Flagged(dm) /\ t \in dm.threads /\ t \in Tids /\ dm.pending_status[t] # None
    BY <1>0, AgreeFacts DEF PendingChoice, Retrievable, Flagged
<1>3. /\ \A u \in Tids : Owed(dm, None, wstat, sigs, u)
      /\ ~Stray(cur) /\ Clean(dm) /\ Good(dm)
    BY <1>1, PollOwed
<1> DEFINE k == TakePending(dm, t)
<1>4. Eases(dm, k) /\ k.threads = dm.threads /\ k.seen_threads = dm.seen_threads
    BY <1>2, <1>3, RemoveEases, TakePendingFields
<1>5. TakeStatus(k, t, dm.pending_status[t])
    BY <1>0
<1> HIDE DEF k
<1>6. \A u \in Tids : Owed(k, None, wstat', sigs, u)
    BY <1>1, <1>3, <1>4, OwedEases
<1>7. CASE dm.pending_status[t] = "CLONE"
  <2>1. Alive(task, t)
    BY <1>1, <1>2, <1>7, StatusFacts, PendingAlive
  <2>2. OpenClone(dm, task, wstat, t)
    BY <1>2, <1>7, <2>1 DEF OpenClone
  <2>3. TakeStatus(k, t, "CLONE")
    BY <1>5, <1>7
  <2> QED BY <1>1, <1>2, <1>4, <1>6, <2>2, <2>3, CloneAccounts
<1>8. CASE dm.pending_status[t] # "CLONE"
  <2>1. BeginEvent(k, t, dm.pending_status[t], FALSE)
    BY <1>5, <1>8 DEF TakeStatus
  <2>2. dm.pending_status[t] # "SIGSTOP"
    BY <1>2, <1>3 DEF Owed
  <2>3. ASSUME NEW u \in Tids PROVE Owed(k, IF u = t THEN dm.pending_status[t] ELSE None, wstat', sigs, u)
    <3>1. Owed(k, None, wstat', sigs, u)
      BY <1>6
    <3> QED BY <2>2, <3>1 DEF Owed
  <2>4. Good(k) /\ Clean(k)
    BY <1>3, <1>4 DEF Eases
  <2> QED BY <1>1, <1>2, <1>3, <2>1, <2>3, <2>4, BeginAccounts
<1> QED BY <1>7, <1>8

\* The SIGSTOP of a new thread is collected, or still to come if it did something else.
LEMMA NewbornAccounts ==
    ASSUME IInv, Agree, Accounts, NewbornStopped
    PROVE  Accounts'
<1> DEFINE p == job.tid
           u == child[p]
           s == wstat[u]
           k == Born(dm, u, s)
           l == EnqueueFront(k, Ev("THREAD_START", u))
<1>0. u = child[p] /\ p = job.tid /\ s = wstat[u]
    OBVIOUS
<1>1. /\ pc = "newborn" /\ Reportable(u) /\ BeginEvent(l, p, "CLONE", TRUE)
      /\ Collect(u, FALSE) /\ SendSigstop(queue')
  <2>1. pc = "newborn" /\ job.status = "CLONE"
    BY AgreeFacts DEF NewbornStopped, Birth
  <2>2. l = EnqueueFront(IF s = "SIGSTOP" THEN dm
                         ELSE StorePendingSignal([dm EXCEPT !.waiting_sigstop[u] = TRUE], u, s),
                         Ev("THREAD_START", u))
    BY DEF Born
  <2> QED BY <2>1, <2>2 DEF NewbornStopped
<1>2. k = Born(dm, u, s) /\ l = EnqueueFront(k, Ev("THREAD_START", u))
    OBVIOUS
<1> HIDE DEF k, l
<1>3. /\ u # p /\ p \in dm.threads /\ u \in dm.threads /\ p \in Tids /\ u \in Tids
      /\ dm.pending_status[u] = None /\ ~dm.waiting_sigstop[u]
      /\ Alive(task, u) => \/ task[u] = "run" /\ sigs[u] = {"SIGSTOP"}
                           \/ task[u] = "stop" /\ sigs[u] = {} /\ wstat[u] = "SIGSTOP"
    BY <1>1, AgreeFacts DEF Birth
<1> HIDE DEF p, u, s
<1>4. Collects(u, task, wstat, task', wstat') /\ wstat[u] # None /\ wstat[u] \in Status
    BY <1>1, <1>3, CollectStep
<1>5. wstat'[u] = None /\ \A t \in Tids : t # u => wstat'[t] = wstat[t]
    BY <1>3, <1>4 DEF Collects
<1>6. sigs[u] = {} /\ (s # "SIGSTOP" => s \in Exits)
  <2>1. CASE Alive(task, u)
    BY <1>0, <1>3, <1>4, <2>1, AgreeFacts, StatusFacts DEF Kernel
  <2>2. CASE ~Alive(task, u)
    <3>1. task[u] = "zombie" /\ sigs[u] = {} /\ wstat[u] \in Exits
      BY <1>3, <1>4, <2>2, AgreeFacts DEF Kernel, Alive
    <3> QED BY <1>0, <3>1
  <2> QED BY <2>1, <2>2
<1>7. /\ Good(k) /\ k.threads = dm.threads /\ k.events = dm.events
      /\ \A t \in Tids :
           /\ k.pending_status[t] = IF t = u /\ s # "SIGSTOP" THEN s ELSE dm.pending_status[t]
           /\ t # u => k.waiting_sigstop[t] = dm.waiting_sigstop[t]
    BY <1>0, <1>2, <1>3, <1>4, AgreeFacts, BornFields
<1>8. Clean(k)
    BY <1>7 DEF Accounts, Clean
<1>9. Ev("THREAD_START", u) \in Event /\ ~Stray(Ev("THREAD_START", u))
    BY <1>3 DEF Ev, SignalEv, Event, EventIds, Stray
<1>10. Eases(k, l)
    BY <1>2, <1>7, <1>9, EnqueueEases
<1>11. Good(l) /\ Clean(l)
    BY <1>8, <1>10 DEF Eases
<1>12. ASSUME NEW t \in Tids PROVE Owed(k, IF t = p THEN "CLONE" ELSE None, wstat', sigs, t)
  <2>1. CASE t = u
    <3>1. k.pending_status[u] # "SIGSTOP"
      BY <1>3, <1>6, <1>7, StatusFacts
    <3> QED BY <1>3, <1>5, <1>6, <2>1, <3>1, StatusFacts DEF Owed
  <2>2. CASE t # u
    <3>1. Owed(dm, Taken[t], wstat, sigs, t)
      BY <1>0, <1>1, <2>2 DEF Accounts
    <3>2. k.pending_status[t] = dm.pending_status[t] /\ k.waiting_sigstop[t] = dm.waiting_sigstop[t]
          /\ wstat'[t] = wstat[t]
      BY <1>5, <1>7, <2>2
    <3> QED BY <1>7, <3>1, <3>2, StatusFacts DEF Owed
  <2> QED BY <2>1, <2>2
<1>13. ASSUME NEW t \in Tids PROVE Owed(l, IF t = p THEN "CLONE" ELSE None, wstat', sigs, t)
  <2>1. Owed(k, IF t = p THEN "CLONE" ELSE None, wstat', sigs, t)
    BY <1>12
  <2> QED BY <1>10, <2>1, OwedEases
<1>14. ~Stray(cur)
    BY DEF Accounts
<1> QED BY <1>1, <1>3, <1>11, <1>13, <1>14, BeginAccounts

\* dbg_get_debug_event.
LEMMA PollAccounts ==
    ASSUME IInv, Agree, Accounts, Poll
    PROVE  Accounts'
<1>1. CASE Deliver
  <2>1. /\ dm' = Delivered(dm) /\ dm.events # << >> /\ cur' = Head(dm.events)
        /\ pc = "poll" /\ pc' = "idle" /\ wstat' = wstat /\ sigs' = sigs
    BY <1>1 DEF Deliver, Delivered, kernel
  <2>2. \A f \in Fields \ {"events", "in_event", "requested_to_suspend"} : dm'[f] = dm[f]
    BY <2>1, AgreeFacts, DeliverFields
  <2>3. dm'.events = Tail(dm.events) /\ dm.events \in Seq(Event)
    BY <2>1, AgreeFacts, DeliverFields DEF Good, Typed
  <2>4. /\ dm'.threads = dm.threads /\ dm'.waiting_sigstop = dm.waiting_sigstop
        /\ dm'.pending_status = dm.pending_status
    BY <2>2 DEF Fields
  <2>5. ~Stray(cur') /\ Clean(dm')
    <3>1. Clean(dm)
      BY DEF Accounts
    <3>2. Head(dm.events) = dm.events[1] /\ 1 \in 1 .. Len(dm.events)
      BY <2>1, <2>3
    <3>3. ASSUME NEW i \in 1 .. Len(dm'.events) PROVE ~Stray(dm'.events[i])
      <4>1. dm'.events[i] = dm.events[i + 1] /\ i + 1 \in 1 .. Len(dm.events)
        BY <2>1, <2>3
      <4> QED BY <3>1, <4>1 DEF Clean
    <3> QED BY <2>1, <3>1, <3>2, <3>3 DEF Clean
  <2>6. \A t \in Tids : Taken[t] = None /\ Taken'[t] = None
    BY <2>1 DEF Taken
  <2>7. ASSUME NEW t \in Tids PROVE Owed(dm', Taken'[t], wstat', sigs', t)
    <3>1. Owed(dm, Taken[t], wstat, sigs, t)
      BY <2>1 DEF Accounts
    <3> QED BY <2>1, <2>4, <2>6, <3>1 DEF Owed
  <2> QED BY <2>5, <2>7 DEF Accounts
<1>2. CASE PollPending
    BY <1>2, PollPendingAccounts
<1>3. CASE PollNothing
  <2>1. /\ dm' = dm /\ cur' = cur /\ wstat' = wstat /\ sigs' = sigs /\ pc = "poll" /\ pc' = "idle"
        /\ dm.events = << >>
    BY <1>3 DEF PollNothing, kernel
  <2>2. \A t \in Tids : Taken'[t] = None
    BY <2>1 DEF Taken
  <2>3. Clean(dm) /\ ~Stray(cur) /\ \A t \in Tids : Owed(dm, None, wstat, sigs, t)
    BY <2>1, PollOwed
  <2> QED BY <2>1, <2>2, <2>3 DEF Accounts
<1>4. CASE NewbornStatus
    BY <1>4, NewbornAccounts DEF NewbornStatus, Interr, Accounts
<1> QED BY <1>1, <1>2, <1>3, <1>4, PollStatusAccounts DEF Poll

\* The waiting loop of dbg_freeze_threads.
LEMMA WaitAccounts ==
    ASSUME IInv, Agree, Accounts, Wait
    PROVE  Accounts'
<1>1. CASE FreezePoll
  <2>1. UNCHANGED vars
    BY <1>1 DEF FreezePoll
  <2>2. Taken' = Taken
    BY <2>1 DEF Taken, vars, kernel
  <2> QED BY <2>1, <2>2 DEF vars, kernel, Accounts
<1>2. ASSUME NEW t \in Tids, FreezeStatus(t) PROVE Accounts'
  <2> DEFINE s == wstat[t]
  <2>1. /\ pc = "freeze" /\ Reportable(t) /\ cur' = cur /\ job' = job /\ sigs' = sigs
        /\ Collect(t, t \in Deleted(dm) \ dm.threads)
    BY <1>2 DEF FreezeStatus
  <2>2. /\ s # None /\ s \in Status /\ child' = child
        /\ \A u \in Tids : wstat'[u] = IF u = t THEN None ELSE wstat[u]
    BY <2>1, CollectStep DEF Collects
  <2>3. CASE dm' = dm /\ pc' = "halt"
    BY <2>1, <2>3 DEF Accounts
  <2>4. CASE pc' = pc
    <3>1. \A u \in Tids : Taken'[u] = Taken[u]
      BY <2>1, <2>2, <2>4 DEF Taken
    <3>2. \A u \in Tids : Owed(dm, Taken[u], wstat, sigs, u)
      BY <2>1 DEF Accounts
    <3>3. /\ dm'.threads = dm.threads /\ dm'.events = dm.events
          /\ \A u \in Tids : u # t => /\ dm'.waiting_sigstop[u] = dm.waiting_sigstop[u]
                                      /\ dm'.pending_status[u] = dm.pending_status[u]
          /\ s = "SIGSTOP" => dm'.pending_status[t] = dm.pending_status[t]
          /\ s # "SIGSTOP" => dm'.waiting_sigstop[t] = dm.waiting_sigstop[t]
                              /\ (t \in dm.threads => dm'.pending_status[t] = s)
      <4>1. ASSUME s = "SIGSTOP", t \in dm.threads PROVE dm.waiting_sigstop[t]
        BY <3>2, <4>1 DEF Owed
      <4>2. CASE t \in queue /\ s = "SIGSTOP"
        <5>1. dm' = SigstopArrived(dm, t)
          BY <1>2, <4>2 DEF FreezeStatus
        <5> QED BY <4>2, <5>1, AgreeFacts DEF SigstopArrived, Good, Shaped, Typed, Fields
      <4>3. CASE ~(t \in queue /\ s = "SIGSTOP")
        <5>1. dm' = StorePendingSignal(dm, t, s)
          BY <1>2, <2>1, <2>4, <4>3 DEF FreezeStatus
        <5> QED BY <2>2, <4>1, <5>1, AgreeFacts, StoreFields
      <4> QED BY <4>2, <4>3
    <3>4. ASSUME NEW u \in Tids PROVE Owed(dm', Taken'[u], wstat', sigs', u)
      <4>1. Owed(dm, Taken[u], wstat, sigs, u) /\ Taken'[u] = Taken[u]
        BY <3>1, <3>2
      <4>2. CASE u # t
        BY <2>1, <2>2, <3>3, <4>1, <4>2 DEF Owed
      <4>3. CASE u = t
        <5>1. wstat'[t] = None
          BY <2>2
        <5> QED BY <2>1, <2>2, <3>3, <4>1, <4>3, <5>1, StatusFacts DEF Owed
      <4> QED BY <4>2, <4>3
    <3> QED BY <2>1, <3>3, <3>4 DEF Accounts, Clean
  <2> QED BY <1>2, <2>3, <2>4 DEF FreezeStatus
<1> QED BY <1>1, <1>2 DEF Wait

-----------------------------------------------------------------------------
(* The SIGSTOPs: what get_debug_event makes of a status *)

\* Between the freeze and what follows it only an awaited SIGSTOP is in the
\* server's hands.
LEMMA EventSettled ==
    ASSUME IInv, Agree, Accounts, Frozen("event")
    PROVE  /\ ~Stray(cur) /\ Clean(dm) /\ job.tid \in Tids
           /\ job.status # "SIGSTOP" => Settled(Held(dm))
           /\ job.status = "SIGSTOP" => dm.waiting_sigstop[job.tid] /\ Settled(Arrived(Held(dm), job.tid))
<1>1. /\ ~Stray(cur) /\ Clean(dm) /\ Good(dm) /\ job.tid \in Tids
      /\ job.tid \in dm.threads
      /\ \A t \in Tids : Taken[t] = IF t = job.tid THEN job.status ELSE None
      /\ \A t \in Tids : Owed(dm, Taken[t], wstat, sigs, t)
    BY EventFacts, AgreeFacts DEF Accounts
<1> DEFINE h == Held(dm)
<1>2. Eases(dm, h)
    BY <1>1, HeldEases
<1> HIDE DEF h
<1>3. Good(h) /\ Clean(h)
    BY <1>1, <1>2 DEF Eases
<1>4. \A t \in Tids : Owed(h, Taken[t], wstat, sigs, t)
    BY <1>1, <1>2, OwedEases
<1>5. ASSUME job.status # "SIGSTOP" PROVE Settled(h)
  <2>1. ASSUME NEW t \in Tids PROVE Owed(h, None, wstat, sigs, t)
    BY <1>4, StatusFacts DEF Owed
  <2> QED BY <1>3, <2>1 DEF Settled
<1>6. ASSUME job.status = "SIGSTOP" PROVE dm.waiting_sigstop[job.tid] /\ Settled(Arrived(h, job.tid))
  <2> DEFINE n == Arrived(h, job.tid)
  <2>1. Good(n)
    BY <1>1, <1>3, FieldsGood, StatusFacts DEF Arrived
  <2>2. /\ n.threads = h.threads /\ n.events = h.events /\ n.pending_status = h.pending_status
        /\ \A t \in Tids : t # job.tid => n.waiting_sigstop[t] = h.waiting_sigstop[t]
    BY <1>3 DEF Arrived, Good, Shaped, Fields, Typed
  <2> HIDE DEF n
  <2>3. ASSUME NEW t \in Tids PROVE Owed(n, None, wstat, sigs, t)
    <3>1. Owed(h, Taken[t], wstat, sigs, t)
      BY <1>4
    <3>2. CASE t = job.tid
      <4>1. Taken[t] = "SIGSTOP"
        BY <1>1, <1>6, <3>2
      <4> QED BY <2>2, <3>1, <4>1, StatusFacts DEF Owed
    <3>3. CASE t # job.tid
      BY <2>2, <3>1, <3>3, StatusFacts DEF Owed
    <3> QED BY <3>2, <3>3
  <2>4. dm.waiting_sigstop[job.tid]
    BY <1>1, <1>6 DEF Owed
  <2>5. Clean(n)
    BY <1>3, <2>2 DEF Clean
  <2> QED BY <2>1, <2>3, <2>4, <2>5 DEF Settled, n
<1> QED BY <1>1, <1>5, <1>6 DEF h

\* SIGTRAP.
LEMMA TrapAccounts ==
    ASSUME IInv, Agree, Accounts, Trap
    PROVE  Accounts'
<1> DEFINE h == Held(dm)
<1>1. Frozen("event") /\ job.status = "SIGTRAP"
    BY DEF Trap
<1>2. ~Stray(cur) /\ Clean(dm) /\ Settled(h) /\ job.tid \in Tids
    BY <1>1, EventSettled
<1>3. PICK own \in BOOLEAN, found \in {FALSE, "library" \in World} :
          LET t == job.tid
              id == IF own THEN "BREAKPOINT" ELSE IF dm.single_step[t] THEN "STEP" ELSE "EXCEPTION"
              signum == IF id # "EXCEPTION" \/ "SIGTRAP" \in Mask THEN None ELSE "SIGTRAP"
              m == LibraryEvents(Signum(h, t, signum), found)
          IN IF id = "EXCEPTION" /\ "SIGTRAP" \notin BreakOn
             THEN Resume(m)
             ELSE Report(m, SignalEv(id, t, "SIGTRAP"))
    BY DEF Trap, Signum
<1> HIDE DEF h
<1> DEFINE id == IF own THEN "BREAKPOINT"
                 ELSE IF dm.single_step[job.tid] THEN "STEP" ELSE "EXCEPTION"
           signum == IF id # "EXCEPTION" \/ "SIGTRAP" \in Mask THEN None ELSE "SIGTRAP"
           k == Signum(h, job.tid, signum)
           m == LibraryEvents(k, found)
           e == SignalEv(id, job.tid, "SIGTRAP")
<1>4. Resume(m) \/ Report(m, e)
    BY <1>3
<1>5. signum \in Status \cup {None} /\ id \in EventIds /\ 0 \in Tids \cup {0}
    BY StatusFacts DEF EventIds
<1> HIDE DEF id, signum
<1>6. e \in Event /\ ~Stray(e)
    BY <1>2, <1>5, StatusFacts DEF SignalEv, Event, Stray
<1>7. Settled(k)
    BY <1>2, <1>5, AsideEases, SettledEases DEF Settled
<1> HIDE DEF e, k
<1>8. Ev("LIBRARY_LOAD", Main) \in Event /\ ~Stray(Ev("LIBRARY_LOAD", Main))
    BY TidsAssumption DEF Ev, SignalEv, Event, EventIds, Stray
<1>9. Settled(m)
    BY <1>7, <1>8, EnqueueEases, SettledEases DEF LibraryEvents, Settled
<1> HIDE DEF m
<1> QED BY <1>2, <1>4, <1>6, <1>9, ResumeAccounts, ReportAccounts

\* Any other signal: a SIGSTOP that arrives unasked would be shown, and there is none.
LEMMA SignalledAccounts ==
    ASSUME IInv, Agree, Accounts, Signalled
    PROVE  Accounts'
<1> DEFINE s == job.status
           signum == IF s \notin BreakOn /\ s \in Mask THEN None ELSE s
           k == Signum(Held(dm), job.tid, signum)
           e == SignalEv("EXCEPTION", job.tid, s)
<1>1. /\ Frozen("event") /\ s \in Signals \cup {"SIGSTOP"}
      /\ s # "SIGSTOP" \/ ~dm.waiting_sigstop[job.tid]
    BY DEF Signalled
<1>2. ~Stray(cur) /\ Clean(dm) /\ job.tid \in Tids /\ s # "SIGSTOP" /\ Settled(Held(dm))
    BY <1>1, EventSettled
<1>3. Resume(k) \/ Report(k, e)
    BY DEF Signalled, Signum
<1>4. s \in Status
    BY <1>1, <1>2 DEF Status, Stops
<1>5. e \in Event /\ ~Stray(e)
    BY <1>2, <1>4 DEF SignalEv, Event, EventIds, Stray
<1>6. signum \in Status \cup {None} /\ 0 \in Tids \cup {0}
    BY <1>4
<1> HIDE DEF e, signum
<1>7. Settled(k)
    BY <1>2, <1>6, AsideEases, SettledEases DEF Settled
<1> HIDE DEF k
<1> QED BY <1>2, <1>3, <1>5, <1>7, ResumeAccounts, ReportAccounts

\* A prepared event, and exits.
LEMMA ExitAccounts ==
    ASSUME IInv, Agree, Accounts, EventReady \/ ProcessExit \/ ThreadExit
    PROVE  Accounts'
<1> DEFINE h == Held(dm)
           t == job.tid
<1>1. Frozen("event") /\ job.status # "SIGSTOP"
  <2>1. Frozen("event") /\ (job.ready \/ job.status \in Exits)
    BY DEF EventReady, ProcessExit, ThreadExit
  <2> QED BY <2>1, EventFacts, StatusFacts
<1>2. ~Stray(cur) /\ Settled(h) /\ t \in Tids
    BY <1>1, EventSettled
<1>2a. None \in Status \cup {None} /\ 0 \in Tids \cup {0} /\ t \in Tids \cup {0}
    BY <1>2
<1>3. CASE EventReady
  <2>1. Return(Stepped(h, t, 0))
    BY <1>3 DEF EventReady, Stepped
  <2>2. Settled(Stepped(h, t, 0))
    BY <1>2, <1>2a, AsideEases, SettledEases DEF Settled
  <2> QED BY <1>2, <2>1, <2>2, ReturnAccounts
<1>4. CASE ProcessExit
  <2> DEFINE k == Exited(h)
             e == Ev("PROCESS_EXIT", t)
  <2>1. Report(k, e)
    BY <1>4 DEF ProcessExit, Exited
  <2>2. Settled(k)
    <3>1. Good(k)
      BY <1>2, FlagsGood DEF Settled, Exited
    <3>2. \A f \in {"threads", "events", "waiting_sigstop", "pending_status"} : k[f] = h[f]
      BY <1>2 DEF Settled, Good, Shaped, Fields, Exited
    <3> QED BY <1>2, <3>1, <3>2, SameEases, SettledEases
  <2>3. e \in Event /\ ~Stray(e)
    BY <1>2 DEF Ev, SignalEv, Event, EventIds, Stray
  <2> HIDE DEF k, e
  <2> QED BY <1>2, <2>1, <2>2, <2>3, ReportAccounts
<1>5. CASE ThreadExit
  <2>1. Return(LastTid(DelThread(Enqueue(h, Ev("THREAD_EXIT", t)), t), t))
    BY <1>5 DEF ThreadExit, DeadThread, LastTid
  <2>2. Ev("THREAD_EXIT", t) \in Event /\ ~Stray(Ev("THREAD_EXIT", t))
    BY <1>2 DEF Ev, SignalEv, Event, EventIds, Stray
  <2>3. Settled(Enqueue(h, Ev("THREAD_EXIT", t)))
    BY <1>2, <2>2, EnqueueEases, SettledEases DEF Settled
  <2>4. Settled(DelThread(Enqueue(h, Ev("THREAD_EXIT", t)), t))
    BY <1>2, <2>3, RemoveEases, SettledEases DEF Settled
  <2>5. Settled(LastTid(DelThread(Enqueue(h, Ev("THREAD_EXIT", t)), t), t))
    BY <1>2, <1>2a, <2>4, AsideEases, SettledEases DEF Settled
  <2> QED BY <1>2, <2>1, <2>5, ReturnAccounts
<1> QED BY <1>3, <1>4, <1>5

-----------------------------------------------------------------------------
(* The SIGSTOPs: the requests, and all steps *)

\* Where nothing is in the server's hands the object is accounted for.
LEMMA NothingOwed ==
    ASSUME IInv, Accounts, pc \in {"idle", "poll"} \/ (pc = "freeze" /\ job.for # "event")
    PROVE  Settled(dm) /\ ~Stray(cur) /\ Clean(dm)
<1>1. \A t \in Tids : Taken[t] = None
    BY NothingTaken
<1>2. \A t \in Tids : Owed(dm, Taken[t], wstat, sigs, t)
    BY DEF Accounts
<1> QED BY <1>1, <1>2 DEF Settled, Accounts, IInv

\* A step that changes nothing the SIGSTOPs depend on.
LEMMA CalmAccounts ==
    ASSUME NEW m, Settled(m), dm' = m, ~Stray(cur), cur' = cur, pc' \in {"idle", "poll"},
           \A t \in Tids : wstat'[t] # "SIGSTOP" \/ wstat'[t] = wstat[t],
           \A t \in Tids : "SIGSTOP" \in sigs'[t] => "SIGSTOP" \in sigs[t]
    PROVE  Accounts'
<1>1. \A t \in Tids : Taken'[t] = None
    BY DEF Taken
<1>2. ASSUME NEW t \in Tids PROVE Owed(dm', None, wstat', sigs', t)
  <2>1. Owed(m, None, wstat, sigs, t)
    BY DEF Settled
  <2> QED BY <2>1, StatusFacts DEF Owed
<1> QED BY <1>1, <1>2 DEF Accounts, Settled

\* What follows a freeze.
LEMMA FinishAccounts ==
    ASSUME IInv, Agree, Accounts, Finish
    PROVE  Accounts'
<1>1. CASE EventReady \/ ProcessExit \/ ThreadExit
    BY <1>1, ExitAccounts
<1>2. CASE AwaitedSigstop
  <2>1. Frozen("event") /\ job.status = "SIGSTOP" /\ Resume(Arrived(Held(dm), job.tid))
    BY <1>2 DEF AwaitedSigstop, Arrived
  <2> QED BY <2>1, EventSettled, ResumeAccounts
<1>3. CASE Trap \/ Signalled
    BY <1>3, TrapAccounts, SignalledAccounts
<1>4. CASE MemoryAccessed
  <2>1. Frozen("memory") /\ DoThaw(dm, Tids, "idle")
    BY <1>4 DEF MemoryAccessed
  <2>2. Settled(dm) /\ ~Stray(cur) /\ Clean(dm)
    BY <2>1, NothingOwed DEF Frozen
  <2> QED BY <2>1, <2>2, ThawAccounts
<1>5. CASE ThreadSuspended
  <2>1. /\ Frozen("suspend") /\ dm' = [dm EXCEPT !.user_suspend[job.tid] = @ + 1]
        /\ pc' = "idle" /\ cur' = cur /\ wstat' = wstat /\ sigs' = sigs
    BY <1>5 DEF ThreadSuspended, kernel
  <2>2. Settled(dm) /\ ~Stray(cur)
    BY <2>1, NothingOwed DEF Frozen
  <2>3. \A f \in {"threads", "events", "waiting_sigstop", "pending_status"} : dm'[f] = dm[f]
    BY <2>1, AgreeFacts DEF Good, Shaped, Fields
  <2>4. Good(dm')
    BY NextIInv, <1>5 DEF Next, Finish, IInv
  <2>5. Settled(dm')
    BY <2>2, <2>3, <2>4, SameEases, SettledEases
  <2>6. PICK m : m = dm'
    OBVIOUS
  <2> QED BY <2>1, <2>2, <2>5, <2>6 DEF Accounts, Settled, Taken
<1>6. CASE ProcessKilled
  <2>1. /\ Frozen("exit") /\ dm' = Slain(dm) /\ TakeDown("SIGNALED") /\ pc' = "idle" /\ cur' = cur
    BY <1>6 DEF ProcessKilled, Slain
  <2>2. Settled(dm) /\ ~Stray(cur) /\ Good(dm)
    BY <2>1, NothingOwed DEF Frozen, Settled
  <2>3. Settled(Slain(dm))
    BY <2>2, HeldEases, SettledEases
  <2>4. \A t \in Tids : /\ wstat'[t] # "SIGSTOP" \/ wstat'[t] = wstat[t]
                        /\ sigs'[t] = {}
    BY <2>1 DEF TakeDown
  <2> QED BY <2>1, <2>2, <2>3, <2>4, CalmAccounts
<1> QED BY <1>1, <1>2, <1>3, <1>4, <1>5, <1>6 DEF Finish

\* A request that freezes threads.
LEMMA StartFreezeAccounts ==
    ASSUME IInv, Accounts, pc = "idle", NEW S \in SUBSET Tids, NEW f \in {"memory", "suspend", "exit"},
           NEW t \in Tids, StartFreeze(dm, S, Job(f, t)), SendSigstop(queue'), cur' = cur, wstat' = wstat
    PROVE  Accounts'
<1>1. Settled(dm) /\ ~Stray(cur)
    BY NothingOwed
<1>2. /\ dm' = Freeze(dm, S) /\ queue' = FreezeSet(dm, S) /\ pc' = "freeze" /\ job'.for = f
    BY DEF StartFreeze, Job
<1>3. \A u \in Tids : Taken'[u] = None
    BY <1>2 DEF Taken
<1>4. \A u \in Tids : Owed(dm, Taken'[u], wstat', sigs, u)
    BY <1>1, <1>3 DEF Settled
<1>5. SendSigstop(FreezeSet(dm, S))
    BY <1>2
<1> QED BY <1>1, <1>2, <1>4, <1>5, FreezeAccounts DEF Settled

\* The requests of the client, without those to pause.
LEMMA RequestAccounts ==
    ASSUME "pause" \notin Client, IInv, Agree, Accounts, Request
    PROVE  Accounts'
<1>1. CASE AccessMemory
    BY <1>1, TidsAssumption, StartFreezeAccounts DEF AccessMemory
<1>2. CASE ExitProcess
    BY <1>2, TidsAssumption, StartFreezeAccounts DEF ExitProcess
<1>3. ASSUME NEW t \in Tids, ThreadSuspend(t) PROVE Accounts'
  <2>1. {t} \in SUBSET Tids
    OBVIOUS
  <2> QED BY <1>3, <2>1, StartFreezeAccounts DEF ThreadSuspend
<1>4. ASSUME NEW t \in Tids, ThreadContinue(t) PROVE Accounts'
  <2> DEFINE m == Released(dm, t)
  <2>1. /\ pc = "idle" /\ dm.user_suspend[t] > 0
        /\ \/ dm' = m /\ UNCHANGED <<cur, pc, wstat, sigs>>
           \/ DoThaw(m, {t}, "idle")
    BY <1>4 DEF ThreadContinue, Released, kernel
  <2>2. Settled(dm) /\ ~Stray(cur) /\ Clean(dm)
    BY <2>1, NothingOwed
  <2>3. Settled(m)
    BY <2>1, <2>2, ReleasedFields, SameEases, SettledEases DEF Settled, Fields
  <2>4. {t} \in SUBSET Tids
    OBVIOUS
  <2> HIDE DEF m
  <2>5. CASE dm' = m /\ UNCHANGED <<cur, pc, wstat, sigs>>
    BY <2>1, <2>2, <2>3, <2>5, CalmAccounts
  <2> QED BY <2>1, <2>2, <2>3, <2>4, <2>5, ThawAccounts
<1>5. ASSUME NEW t \in Tids, SetResumeMode(t) PROVE Accounts'
  <2>1. /\ pc = "idle" /\ dm' = [dm EXCEPT !.single_step[t] = TRUE]
        /\ pc' = pc /\ cur' = cur /\ wstat' = wstat /\ sigs' = sigs
    BY <1>5 DEF SetResumeMode, kernel
  <2>2. Settled(dm) /\ ~Stray(cur)
    BY <2>1, NothingOwed
  <2> DEFINE m == [dm EXCEPT !.single_step[t] = TRUE]
  <2>3. Good(m)
    BY <2>2, FieldsGood, StatusFacts DEF Settled
  <2>4. \A f \in {"threads", "events", "waiting_sigstop", "pending_status"} : m[f] = dm[f]
    BY AgreeFacts DEF Good, Shaped, Fields
  <2>5. dm' = m
    BY <2>1
  <2> HIDE DEF m
  <2>6. Settled(m)
    BY <2>2, <2>3, <2>4, SameEases, SettledEases
  <2> QED BY <2>1, <2>2, <2>5, <2>6, CalmAccounts
<1> QED BY <1>1, <1>2, <1>3, <1>4, <1>5 DEF Request, PrepareToPause

\* dbg_continue_after_event.
LEMMA ContinueAccounts ==
    ASSUME IInv, Agree, Accounts, ContinueAfterEvent
    PROVE  Accounts'
<1> DEFINE t == cur.tid
           k == Signum(dm, t, None)
<1>0. t \in Tids /\ pc = "idle"
    BY DEF ContinueAfterEvent, IInv, ServerTyped, Event
<1>1. PICK handled \in BOOLEAN :
        LET keeps == \/ cur.eid \in {"THREAD_START", "THREAD_EXIT", "LIBRARY_LOAD"}
                     \/ cur.eid = "EXCEPTION" /\ ~handled
            m1 == IF t \in dm.threads /\ ~keeps THEN k ELSE dm
            m2 == IF t \in dm.threads /\ dm.state[t] = "DEAD" THEN DelThread(m1, t) ELSE m1
        IN IF t \notin dm.threads /\ cur.eid # "THREAD_EXIT" /\ ~dm.exited
           THEN UNCHANGED vars
           ELSE ResumeApp(Acknowledged(m2))
    BY DEF ContinueAfterEvent, Signum, Acknowledged
<1>2. Settled(dm) /\ ~Stray(cur) /\ Clean(dm)
    BY <1>0, NothingOwed
<1>3. Settled(k)
  <2>1. None \in Status \cup {None} /\ 0 \in Tids \cup {0}
    OBVIOUS
  <2> QED BY <1>0, <1>2, <2>1, AsideEases, SettledEases DEF Settled
<1> HIDE DEF k, t
<1>4. CASE UNCHANGED vars
  <2>1. dm' = dm /\ cur' = cur /\ pc' = pc /\ wstat' = wstat /\ sigs' = sigs
    BY <1>4 DEF vars, kernel
  <2> QED BY <1>0, <1>2, <2>1, CalmAccounts
<1>5. ASSUME NEW m1, m1 = k \/ m1 = dm, NEW m2, m2 = m1 \/ m2 = DelThread(m1, t),
             ResumeApp(Acknowledged(m2))
      PROVE  Accounts'
  <2>1. Settled(m1)
    BY <1>2, <1>3, <1>5
  <2>2. Settled(m2)
    BY <1>0, <1>5, <2>1, RemoveEases, SettledEases DEF Settled
  <2>3. Settled(Acknowledged(m2))
    BY <2>2, HeldEases, SettledEases DEF Settled
  <2> QED BY <1>2, <1>5, <2>3, ResumeAppAccounts
<1> QED BY <1>1, <1>4, <1>5

\* A step of the kernel adds no SIGSTOP: it delivers one at most.
LEMMA KernelAccounts ==
    ASSUME IInv, Accounts, ServerUnchanged,
           \A t \in Tids : Taken'[t] = Taken[t],
           pc = "newborn" => child'[job.tid] = child[job.tid],
           \A t \in dm.threads : /\ "SIGSTOP" \in sigs'[t] => "SIGSTOP" \in sigs[t]
                                 /\ wstat'[t] = "SIGSTOP" =>
                                      wstat[t] = "SIGSTOP" \/ ("SIGSTOP" \in sigs[t] /\ "SIGSTOP" \notin sigs'[t])
    PROVE  Accounts'
<1>1. dm' = dm /\ cur' = cur /\ pc' = pc /\ job' = job
    BY DEF ServerUnchanged
<1>2. ASSUME pc # "halt", NEW t \in Tids, Owed(dm, Taken[t], wstat, sigs, t)
      PROVE  Owed(dm, Taken'[t], wstat', sigs', t)
    BY <1>2 DEF Owed
<1> QED BY <1>1, <1>2 DEF Accounts

\* A stopped, cloning or dying task has taken no SIGSTOP.
LEMMA ProcessAccounts ==
    ASSUME IInv, Agree, Accounts, Process \/ Signal
    PROVE  Accounts'
<1>0. /\ "SIGSTOP" \notin Signals /\ "SIGTRAP" # "SIGSTOP" /\ "CLONE" # "SIGSTOP"
      /\ task \in [Tids -> {"none", "run", "stop", "zombie", "gone"}]
      /\ sigs \in [Tids -> SUBSET (Signals \cup {"SIGSTOP"})]
      /\ wstat \in [Tids -> Status \cup {None}] /\ child \in [Tids -> Tids]
      /\ dm.threads \in SUBSET Tids
    BY SignalsAssumption, AgreeFacts DEF KernelTyped
<1>1. ASSUME child' = child, ServerUnchanged PROVE \A t \in Tids : Taken'[t] = Taken[t]
    BY <1>1 DEF Taken, ServerUnchanged
<1>2. ASSUME NEW t \in Tids, NEW s \in Signals \cup {"SIGSTOP"}, TakeSignal(t, s) PROVE Accounts'
  <2>1. /\ ServerUnchanged /\ child' = child /\ s \in sigs[t]
        /\ \A u \in Tids : /\ sigs'[u] = IF u = t THEN sigs[t] \ {s} ELSE sigs[u]
                           /\ wstat'[u] = IF u = t THEN s ELSE wstat[u]
    BY <1>0, <1>2 DEF TakeSignal, StopTask
  <2> QED BY <1>0, <1>1, <2>1, KernelAccounts
<1>3. ASSUME NEW t \in Tids, HitTrap(t) PROVE Accounts'
  <2>1. /\ ServerUnchanged /\ child' = child /\ sigs' = sigs
        /\ \A u \in Tids : wstat'[u] = IF u = t THEN "SIGTRAP" ELSE wstat[u]
    BY <1>0, <1>3 DEF HitTrap, StopTask
  <2> QED BY <1>0, <1>1, <2>1, KernelAccounts
<1>4. ASSUME NEW t \in Tids, NEW s \in Signals, RaiseSignal(t, s) PROVE Accounts'
  <2>1. /\ ServerUnchanged /\ child' = child /\ wstat' = wstat
        /\ \A u \in Tids : sigs'[u] = IF u = t THEN sigs[t] \cup {s} ELSE sigs[u]
    BY <1>0, <1>4 DEF RaiseSignal
  <2> QED BY <1>0, <1>1, <2>1, KernelAccounts
<1>5. ASSUME NEW t \in Tids, NEW u \in Tids, Clone(t, u) PROVE Accounts'
  <2>1. /\ ServerUnchanged /\ task[u] = "none"
        /\ child' = [child EXCEPT ![t] = u]
        /\ \A v \in Tids : /\ sigs'[v] = IF v = u THEN {"SIGSTOP"} ELSE sigs[v]
                           /\ wstat'[v] = IF v = t THEN "CLONE" ELSE wstat[v]
    BY <1>0, <1>5 DEF Clone
  <2>2. u \notin dm.threads
    BY <2>1, AgreeFacts, FitAt DEF Entry
  <2>3. pc = "newborn" => job.tid # t
    BY <1>5, UserNotTaken DEF Clone
  <2>4. pc = "newborn" => child'[job.tid] = child[job.tid]
    BY <1>0, <2>1, <2>3, AgreeFacts
  <2>5. \A v \in Tids : Taken'[v] = Taken[v]
    BY <2>1, <2>4 DEF Taken, ServerUnchanged
  <2> QED BY <1>0, <2>1, <2>2, <2>4, <2>5, KernelAccounts
<1>6. ASSUME NEW t \in Tids, ExitThread(t) PROVE Accounts'
  <2>1. /\ ServerUnchanged /\ child' = child /\ sigs' = sigs
        /\ \A u \in Tids : wstat'[u] = IF u = t THEN "EXITED" ELSE wstat[u]
    BY <1>0, <1>6 DEF ExitThread
  <2> QED BY <1>0, <1>1, <2>1, KernelAccounts
<1>7. ASSUME NEW s \in Exits, TakeDown(s), ServerUnchanged PROVE Accounts'
  <2>1. /\ child' = child /\ s # "SIGSTOP"
        /\ \A u \in Tids : /\ sigs'[u] = {}
                           /\ wstat'[u] \in {s, wstat[u]}
    BY <1>7 DEF TakeDown, Exits
  <2> QED BY <1>0, <1>1, <1>7, <2>1, KernelAccounts
<1>8. ASSUME NEW t \in Tids, ExitGroup(t) PROVE Accounts'
    BY <1>7, <1>8, StatusFacts DEF ExitGroup
<1>9. ASSUME Killed PROVE Accounts'
    BY <1>7, <1>9, StatusFacts DEF Killed
<1> QED BY <1>2, <1>3, <1>4, <1>5, <1>6, <1>8, <1>9 DEF Process, Signal

\* Every step.
LEMMA NextAccounts ==
    ASSUME "pause" \notin Client, IInv, Agree, Accounts, [Next]_vars
    PROVE  Accounts'
<1>1. CASE GetDebugEvent
  <2>1. /\ pc = "idle" /\ pc' = "poll" /\ dm' = dm /\ cur' = cur /\ wstat' = wstat /\ sigs' = sigs
    BY <1>1 DEF GetDebugEvent, kernel
  <2>2. Settled(dm) /\ ~Stray(cur)
    BY <2>1, NothingOwed
  <2> QED BY <2>1, <2>2, CalmAccounts
<1>2. CASE Over \/ UNCHANGED vars
  <2>1. /\ dm' = dm /\ cur' = cur /\ pc' = pc /\ job' = job /\ wstat' = wstat /\ sigs' = sigs
        /\ child' = child
    BY <1>2 DEF Over, vars, kernel
  <2>2. Taken' = Taken
    BY <2>1 DEF Taken
  <2> QED BY <2>1, <2>2 DEF Accounts, Owed
<1> QED BY <1>1, <1>2, ContinueAccounts, PollAccounts, WaitAccounts, FinishAccounts, RequestAccounts,
           ProcessAccounts DEF Next

\* The process has just started.
LEMMA InitAccounts == Init => IInv /\ Agree /\ Accounts
<1> SUFFICES ASSUME Init PROVE Accounts
    BY InitIInv, InitAgree
<1>1. /\ pc = "idle" /\ cur = Ev("PROCESS_START", Main)
      /\ \A t \in Tids : wstat[t] = None /\ sigs[t] = {}
    BY DEF Init
<1>2. ~Stray(cur)
    BY <1>1 DEF Stray, Ev, SignalEv
<1>3. \A t \in Tids : Taken[t] = None
    BY <1>1 DEF Taken
<1>4. PICK events \in {<<Ev("PROCESS_START", Main)>>,
                       <<Ev("PROCESS_START", Main), Ev("PROCESS_ATTACH", Main)>>} :
          dm = Started(events)
    BY DEF Init
<1>5. dm.events = events /\ \A t \in Tids : dm.pending_status[t] = None
    BY <1>4 DEF Started, NoProcess
<1>6. Clean(dm)
  <2>1. \A i \in 1 .. Len(events) : events[i].eid \in {"PROCESS_START", "PROCESS_ATTACH"}
    BY DEF Ev, SignalEv
  <2> QED BY <1>5, <2>1 DEF Clean, Stray
<1>7. \A t \in Tids : Owed(dm, None, wstat, sigs, t)
    BY <1>1, <1>5, StatusFacts DEF Owed
<1> QED BY <1>2, <1>3, <1>6, <1>7 DEF Accounts

\* What the invariant says of the signals of the kernel and of the events.
LEMMA AccountsHolds ==
    ASSUME IInv, Agree, Accounts
    PROVE  SigstopsAccounted
<1>1. ASSUME NEW t \in dm.threads, task[t] \in {"run", "stop"}, dm.waiting_sigstop[t]
      PROVE  "SIGSTOP" \in sigs[t] \/ wstat[t] = "SIGSTOP" \/ pc = "freeze"
  <2>1. t \in Tids /\ Known(dm, Taken[t], task, wstat, sigs, t)
    BY AgreeFacts, FitAt
  <2>2. pc # "halt"
    BY <1>1, <2>1 DEF Agree, Down, Alive
  <2>3. SUFFICES ASSUME pc # "freeze" PROVE "SIGSTOP" \in sigs[t] \/ wstat[t] = "SIGSTOP"
    OBVIOUS
  <2>4. ~(pc = "newborn" /\ t = child[job.tid])
    BY <1>1, AgreeFacts DEF Birth
  <2>5. Taken[t] \in {None, "CLONE"}
    BY <2>1, <2>2, <2>3, <2>4 DEF Taken
  <2>6. Taken[t] \notin Exits /\ Taken[t] # "SIGSTOP"
    BY <2>5, StatusFacts DEF Exits, None
  <2> QED BY <1>1, <2>1, <2>6 DEF Known, Alive
<1>2. SigstopOwed
    BY <1>1 DEF SigstopOwed
<1>3. NoStraySigstop
    BY DEF NoStraySigstop, Accounts, Clean, Stray
<1> QED BY <1>2, <1>3 DEF SigstopsAccounted

\* Unless the client pauses the process, every SIGSTOP the engine counts on is
\* still to come and none of its own is shown to the client (SigstopsAccounted):
\* the one a freeze sent may come during a later freeze or after the thaw
\* (dbg_freeze_threads and get_debug_event of linux_debmod.cpp).
THEOREM SigstopsHold ==
    ASSUME "pause" \notin Client
    PROVE  Spec => []SigstopsAccounted
<1>1. LeaderFirst
    BY DEF LeaderFirst
<1>2. (IInv /\ Agree /\ Accounts) /\ [Next]_vars => (IInv /\ Agree /\ Accounts)'
    BY <1>1, NextIInv, NextAgree, NextAccounts
<1> QED BY <1>2, InitAccounts, AccountsHolds, PTL DEF Spec

-----------------------------------------------------------------------------
(* The freezes: what they are counted against *)

\* An event waits for the client, or the client holds one.
Base(m) == IF m.in_event \/ m.events # << >> THEN 1 ELSE 0

\* The freezes of an entry are those of the user, and b more at most.
Level(m, b) ==
    \A t \in m.threads : m.user_suspend[t] \in {0, 1} /\ m.suspend_count[t] <= m.user_suspend[t] + b

\* Freezes are released: an event accounts for one, and so does the request
\* that waits for its own.
Balanced ==
    ~dm.exited =>
        /\ pc \in {"idle", "poll"} => Level(dm, Base(dm))
        /\ pc = "newborn" => Level(dm, 0)
        /\ pc = "freeze" /\ job.for = "event" => Level(dm, 1) /\ (job.ready => dm.events # << >>)
        /\ pc = "freeze" /\ job.for \in {"memory", "exit"} => Level(dm, Base(dm) + 1)
        /\ pc = "freeze" /\ job.for = "suspend" =>
              /\ dm.user_suspend[job.tid] = 0
              /\ \A t \in dm.threads :
                    /\ dm.user_suspend[t] \in {0, 1}
                    /\ dm.suspend_count[t] <= dm.user_suspend[t] + Base(dm) + IF t = job.tid THEN 1 ELSE 0

\* A change to the other fields.
LEMMA LevelSame ==
    ASSUME NEW m, NEW b, Level(m, b), NEW n,
           n.threads \in SUBSET m.threads, n.user_suspend = m.user_suspend,
           n.suspend_count = m.suspend_count
    PROVE  Level(n, b)
BY DEF Level

\* A higher bound.
LEMMA LevelHigher ==
    ASSUME NEW m, Good(m), NEW b \in Nat, NEW c \in Nat, b <= c, Level(m, b)
    PROVE  Level(m, c)
<1>1. \A t \in m.threads : m.suspend_count[t] \in Nat
    BY DEF Good, Typed
<1> QED BY <1>1 DEF Level

\* The operators of the engine that freeze and thaw nothing.
LEMMA LevelOperators ==
    ASSUME NEW m, Good(m), NEW b, Level(m, b), NEW t \in Tids, NEW e \in Event,
           NEW s \in Status \cup {None}, NEW l \in Tids \cup {0}
    PROVE  /\ Level(Enqueue(m, e), b) /\ Level(EnqueueFront(m, e), b)
           /\ Level(Held(m), b) /\ Level(Runnable(m), b) /\ Level(Acknowledged(m), b)
           /\ Level(Signum(m, t, s), b) /\ Level(Stepped(m, t, l), b)
           /\ Level(LastTid(m, l), b) /\ Level(MarkStopped(m, t), b)
           /\ Level(Arrived(m, t), b) /\ Level(DelThread(m, t), b)
<1>1. ASSUME NEW n, n \in {Enqueue(m, e), EnqueueFront(m, e), Held(m), Runnable(m), Acknowledged(m),
                           Signum(m, t, s), Stepped(m, t, l), LastTid(m, l), MarkStopped(m, t),
                           Arrived(m, t)}
      PROVE  n.threads = m.threads /\ n.user_suspend = m.user_suspend /\ n.suspend_count = m.suspend_count
    BY <1>1, ZenonT(40) DEF Enqueue, EnqueueFront, Held, Runnable, Acknowledged, Signum, Stepped, LastTid,
                MarkStopped, Arrived, Good, Shaped, Fields
<1>2. ASSUME NEW n, n = DelThread(m, t) PROVE Level(n, b)
  <2>1. n.threads = m.threads \ {t} /\ n.user_suspend = m.user_suspend /\ n.suspend_count = m.suspend_count
    BY <1>2, DelThreadFields DEF Fields
  <2> QED BY <2>1, LevelSame
<1>3. ASSUME NEW n, n \in {Enqueue(m, e), EnqueueFront(m, e), Held(m), Runnable(m), Acknowledged(m),
                           Signum(m, t, s), Stepped(m, t, l), LastTid(m, l), MarkStopped(m, t),
                           Arrived(m, t)}
      PROVE  Level(n, b)
    BY <1>1, <1>3, LevelSame
<1> QED BY <1>2, <1>3

\* A new entry has no freezes.
LEMMA LevelAdd ==
    ASSUME NEW m, Good(m), NEW b \in Nat, Level(m, b), NEW u \in Tids
    PROVE  Level(AddThread(m, u), b)
<1>1. CASE u \in m.threads
    BY <1>1 DEF AddThread
<1>2. CASE u \notin m.threads
  <2> DEFINE n == AddThread(m, u)
  <2>1. /\ n.threads = m.threads \cup {u}
        /\ \A v \in Tids : /\ n.suspend_count[v] = IF v = u THEN 0 ELSE m.suspend_count[v]
                           /\ n.user_suspend[v] = IF v = u THEN 0 ELSE m.user_suspend[v]
    BY <1>2, AddThreadFields
  <2>2. m.threads \in SUBSET Tids
    BY DEF Good, Typed
  <2> HIDE DEF n
  <2> QED BY <2>1, <2>2 DEF Level, n
<1> QED BY <1>1, <1>2

\* dbg_freeze_threads counts one up.
LEMMA LevelFreeze ==
    ASSUME NEW m, Good(m), NEW b \in Nat, Level(m, b), NEW S \in SUBSET Tids
    PROVE  Level(Freeze(m, S), b + 1)
<1> DEFINE n == Freeze(m, S)
<1>1. /\ n.threads = m.threads /\ n.user_suspend = m.user_suspend
      /\ \A t \in Tids : n.suspend_count[t] = IF t \in m.threads \cap S THEN m.suspend_count[t] + 1
                                              ELSE m.suspend_count[t]
    BY FreezeFields DEF Fields
<1>2. m.threads \in SUBSET Tids /\ \A t \in Tids : m.suspend_count[t] \in Nat
    BY DEF Good, Typed
<1> HIDE DEF n
<1> QED BY <1>1, <1>2 DEF Level, n

\* dbg_thaw_threads counts one down wherever there is one to release.
LEMMA LevelThaw ==
    ASSUME NEW m, Good(m), NEW b \in Nat, Level(m, b + 1), ThawAssert(m, Tids)
    PROVE  Level(Thaw(m, Tids), b)
<1> DEFINE n == Thaw(m, Tids)
<1>1. /\ n.threads = m.threads /\ n.user_suspend = m.user_suspend
      /\ \A t \in Tids : n.suspend_count[t] =
             IF t \in m.threads \cap Tids /\ ~IsRunning(m, t) /\ m.suspend_count[t] > 0
             THEN m.suspend_count[t] - 1 ELSE m.suspend_count[t]
    BY ThawFields DEF FitFields
<1>2. m.threads \in SUBSET Tids /\ \A t \in Tids : m.suspend_count[t] \in Nat
    BY DEF Good, Typed
<1>3. \A t \in m.threads : IsRunning(m, t) => m.suspend_count[t] = 0
    BY <1>2 DEF ThawAssert
<1> HIDE DEF n
<1> QED BY <1>1, <1>2, <1>3 DEF Level, n

\* Of a thaw the events that were there remain.
LEMMA ThawBase ==
    ASSUME NEW m, Good(m), NEW S \in SUBSET Tids
    PROVE  /\ Base(m) \in {0, 1} /\ Base(Thaw(m, S)) \in {0, 1} /\ Base(m) <= Base(Thaw(m, S))
<1> DEFINE n == Thaw(m, S)
<1>1. /\ n.in_event = m.in_event
      /\ n.events = m.events \/ \E z : n.events = Append(m.events, Ev("THREAD_EXIT", z))
    BY ThawFields
<1>2. m.events \in Seq(Event)
    BY DEF Good, Typed
<1>3. m.events # << >> => n.events # << >>
    BY <1>1, <1>2
<1> HIDE DEF n
<1> QED BY <1>1, <1>3 DEF Base, n

\* dbg_thaw_threads of all threads.
LEMMA ThawBalanced ==
    ASSUME NEW m, Good(m), Level(m, Base(m) + 1), DoThaw(m, Tids, "idle")
    PROVE  Balanced'
<1>1. CASE Interr(30188)
    BY <1>1 DEF Interr, Balanced
<1>2. CASE ThawAssert(m, Tids) /\ dm' = Thaw(m, Tids) /\ pc' = "idle"
  <2> DEFINE n == Thaw(m, Tids)
  <2>1. Base(m) \in Nat /\ Base(n) \in Nat /\ Base(m) <= Base(n) /\ Good(n)
    BY ThawBase, ThawGood
  <2>2. Level(n, Base(m))
    BY <1>2, <2>1, LevelThaw
  <2>3. Level(n, Base(n))
    BY <2>1, <2>2, LevelHigher
  <2> HIDE DEF n
  <2>4. dm' = n
    BY <1>2 DEF n
  <2> QED BY <1>2, <2>3, <2>4 DEF Balanced
<1> QED BY <1>1, <1>2 DEF DoThaw

\* resume_app.
LEMMA ResumeAppBalanced ==
    ASSUME NEW m, Good(m), Level(m, 1), ResumeApp(m)
    PROVE  Balanced'
<1> DEFINE n == Runnable(m)
<1>1. Good(n)
    BY RunnableGood
<1>2. n.threads = m.threads /\ n.user_suspend = m.user_suspend /\ n.suspend_count = m.suspend_count
    BY DEF Runnable, Good, Shaped, Fields
<1>3. DoThaw(n, Tids, "idle")
    BY DEF ResumeApp
<1> HIDE DEF n
<1>4. Level(n, 1)
    BY <1>2, LevelSame
<1>5. Base(n) \in Nat
    BY DEF Base
<1>6. Level(n, Base(n) + 1)
    BY <1>1, <1>4, <1>5, LevelHigher
<1> QED BY <1>1, <1>3, <1>6, ThawBalanced

\* get_debug_event returns with its event in the queue.
LEMMA ReturnBalanced ==
    ASSUME NEW m, Level(m, 1), m.events # << >>, Return(m)
    PROVE  Balanced'
<1>1. dm' = m /\ pc' = "poll"
    BY DEF Return
<1>2. Base(m) = 1
    BY DEF Base
<1> QED BY <1>1, <1>2 DEF Balanced

\* A queue with an event in it is not empty.
LEMMA QueuedSome ==
    ASSUME NEW m, Good(m), NEW e
    PROVE  Enqueue(m, e).events # << >> /\ EnqueueFront(m, e).events # << >>
<1>1. m.events \in Seq(Event)
    BY DEF Good, Typed
<1>2. Enqueue(m, e).events = Append(m.events, e) /\ EnqueueFront(m, e).events = <<e>> \o m.events
    BY DEF Enqueue, EnqueueFront, Good, Shaped, Fields
<1>3. Append(m.events, e) # << >>
    BY <1>1
<1>4. Len(<<e>> \o m.events) = 1 + Len(m.events) /\ Len(m.events) \in Nat
    BY <1>1
<1>5. <<e>> \o m.events # << >>
    BY <1>4
<1> QED BY <1>2, <1>3, <1>5

\* The label RESUME.
LEMMA ResumeBalanced ==
    ASSUME NEW m, Good(m), Level(m, 1), job.tid \in Tids, Resume(m)
    PROVE  Balanced'
<1> DEFINE e == Ev("PROCESS_SUSPEND", job.tid)
<1>1. e \in Event
    BY DEF Ev, SignalEv, Event, EventIds
<1>2. ResumeApp(m) \/ Return(Enqueue(m, e))
    BY DEF Resume
<1> HIDE DEF e
<1>3. Level(Enqueue(m, e), 1) /\ Enqueue(m, e).events # << >>
  <2>1. None \in Status \cup {None} /\ 0 \in Tids \cup {0}
    OBVIOUS
  <2> QED BY <1>1, <2>1, LevelOperators, QueuedSome
<1> QED BY <1>2, <1>3, ResumeAppBalanced, ReturnBalanced

\* get_debug_event reports an event.
LEMMA ReportBalanced ==
    ASSUME NEW m, Good(m), Level(m, 1), NEW e \in Event, Report(m, e)
    PROVE  Balanced'
<1> DEFINE k == Enqueue(m, e)
           n == Stepped(k, e.tid, e.tid)
<1>0. e.tid \in Tids /\ e.tid \in Tids \cup {0} /\ None \in Status \cup {None}
    BY DEF Event
<1>1. Return(n)
    BY DEF Report, Stepped
<1>2. Good(k) /\ Level(k, 1) /\ k.events # << >>
    BY <1>0, EnqueueGood, LevelOperators, QueuedSome
<1> HIDE DEF k
<1>3. Level(n, 1) /\ n.events # << >>
  <2>1. n.events = k.events
    BY <1>2 DEF Stepped, Good, Shaped, Fields
  <2> QED BY <1>0, <1>2, <2>1, LevelOperators
<1> QED BY <1>1, <1>3, ReturnBalanced

-----------------------------------------------------------------------------
(* The freezes: events, dbg_get_debug_event and the waiting loop *)

\* The freeze for an event.
LEMMA BeginBalanced ==
    ASSUME NEW m, Good(m), Level(m, 0), NEW t \in Tids, NEW s, NEW r, BeginEvent(m, t, s, r),
           r = TRUE => m.events # << >>
    PROVE  Balanced'
<1> DEFINE n == MarkStopped(m, t)
           k == Freeze(n, Tids)
<1>0. n = MarkStopped(m, t) /\ k = Freeze(n, Tids)
    OBVIOUS
<1>1. \/ pc' = "halt"
      \/ dm' = k /\ pc' = "freeze" /\ job' = EventJob(t, s, r)
    BY DEF BeginEvent, StartFreeze, MarkStopped
<1> HIDE DEF n, k
<1>2. /\ Good(n) /\ n.events = m.events
      /\ n.threads = m.threads /\ n.user_suspend = m.user_suspend /\ n.suspend_count = m.suspend_count
    BY <1>0, StoppedFields
<1>3. Level(n, 0)
    BY <1>2, LevelSame
<1>4. Level(k, 0 + 1)
    BY <1>0, <1>2, <1>3, LevelFreeze
<1>5. k.events = n.events
    BY <1>0, <1>2, FreezeFields DEF Fields
<1>6. CASE dm' = k /\ pc' = "freeze" /\ job' = EventJob(t, s, r)
  <2>1. job'.for = "event" /\ job'.ready = r
    BY <1>6 DEF EventJob
  <2>2. r => k.events # << >>
    BY <1>2, <1>5
  <2>3. Level(k, 1)
    BY <1>4
  <2> QED BY <1>6, <2>1, <2>2, <2>3 DEF Balanced
<1>7. CASE pc' = "halt"
    BY <1>7 DEF Balanced
<1> QED BY <1>1, <1>6, <1>7

\* A status is taken.
LEMMA TakeBalanced ==
    ASSUME NEW m, Good(m), Level(m, 0), NEW t \in Tids, child[t] \in Tids, NEW s, TakeStatus(m, t, s)
    PROVE  Balanced'
<1> DEFINE u == child[t]
           a == AddThread(m, u)
           b == [a EXCEPT !.seen_threads = @ \ {u}]
           c == EnqueueFront(b, Ev("THREAD_START", u))
<1>1. u = child[t] /\ u \in Tids /\ a = AddThread(m, u) /\ c = EnqueueFront(b, Ev("THREAD_START", u))
    OBVIOUS
<1>2. c = SeenNewborn(m, t)
    BY DEF SeenNewborn
<1>3. Good(a) /\ Level(a, 0)
    BY <1>1, AddThreadGood, LevelAdd
<1> HIDE DEF a, u
<1>4. /\ Good(b) /\ b.threads = a.threads /\ b.user_suspend = a.user_suspend
      /\ b.suspend_count = a.suspend_count
  <2>1. a.seen_threads \ {u} \in FreeType["seen_threads"] /\ "seen_threads" \in DOMAIN FreeType
    BY <1>3 DEF Good, Typed, FreeType
  <2> QED BY <1>3, <2>1, SetField DEF Good, Shaped, Fields
<1> HIDE DEF b
<1>5. Level(b, 0)
    BY <1>3, <1>4, LevelSame
<1>6. Ev("THREAD_START", u) \in Event
    BY <1>1 DEF Ev, SignalEv, Event, EventIds
<1>7. Good(c) /\ Level(c, 0) /\ c.events # << >>
  <2>1. None \in Status \cup {None} /\ 0 \in Tids \cup {0}
    OBVIOUS
  <2> QED BY <1>1, <1>4, <1>5, <1>6, <2>1, EnqueueGood, LevelOperators, QueuedSome
<1> HIDE DEF c
<1>8. CASE s = "CLONE" /\ u \in m.seen_threads
  <2>1. BeginEvent(c, t, s, TRUE)
    BY <1>1, <1>2, <1>8 DEF TakeStatus
  <2> QED BY <1>7, <2>1, BeginBalanced
<1>9. CASE s = "CLONE" /\ u \notin m.seen_threads
  <2>1. dm' = a /\ pc' = "newborn"
    BY <1>1, <1>9 DEF TakeStatus, Newborn
  <2> QED BY <1>3, <2>1 DEF Balanced
<1>10. CASE s # "CLONE"
  <2>1. BeginEvent(m, t, s, FALSE)
    BY <1>10 DEF TakeStatus
  <2> QED BY <2>1, BeginBalanced
<1> QED BY <1>8, <1>9, <1>10

\* get_debug_event is asked for an event when there is none.
LEMMA PollLevel ==
    ASSUME IInv, Agree, Balanced, ~dm.exited, pc = "poll", dm.events = << >>
    PROVE  Level(dm, 0) /\ Good(dm) /\ Base(dm) = 0
<1>1. ~dm.in_event
    BY DEF Agree, Asked
<1>2. Base(dm) = 0
    BY <1>1 DEF Base
<1> QED BY <1>2, AgreeFacts DEF Balanced

\* dbg_get_debug_event.
LEMMA PollBalanced ==
    ASSUME IInv, Agree, Balanced, ~dm.exited, Poll
    PROVE  Balanced'
<1>1. CASE Deliver
  <2>1. /\ dm' = Delivered(dm) /\ dm.events # << >> /\ pc = "poll" /\ pc' = "idle"
    BY <1>1 DEF Deliver, Delivered
  <2>2. dm'.in_event /\ \A f \in Fields \ {"events", "in_event", "requested_to_suspend"} : dm'[f] = dm[f]
    BY <2>1, AgreeFacts, DeliverFields
  <2>3. dm'.threads = dm.threads /\ dm'.user_suspend = dm.user_suspend /\ dm'.suspend_count = dm.suspend_count
    BY <2>2 DEF Fields
  <2>4. Base(dm) = 1 /\ Base(dm') = 1
    BY <2>1, <2>2 DEF Base
  <2>5. Level(dm, 1)
    BY <2>1, <2>4 DEF Balanced
  <2>6. PICK n : n = dm'
    OBVIOUS
  <2>7. Level(n, 1)
    BY <2>3, <2>5, <2>6, LevelSame
  <2> QED BY <2>1, <2>4, <2>6, <2>7 DEF Balanced
<1>2. CASE PollPending
  <2>1. PICK t \in PendingChoice(dm) : TakeStatus(TakePending(dm, t), t, dm.pending_status[t])
    BY <1>2 DEF PollPending
  <2>2. pc = "poll" /\ dm.events = << >>
    BY <1>2 DEF PollPending
  <2>3. t \in Flagged(dm) /\ t \in Tids /\ child[t] \in Tids
    BY <2>1, AgreeFacts DEF PendingChoice, Retrievable, Flagged
  <2>4. PICK k : k = TakePending(dm, t)
    OBVIOUS
  <2>5. /\ Good(k) /\ k.threads = dm.threads /\ k.user_suspend = dm.user_suspend
        /\ k.suspend_count = dm.suspend_count
    BY <2>3, <2>4, AgreeFacts, TakePendingFields
  <2>6. Level(k, 0)
    BY <2>2, <2>5, PollLevel, LevelSame
  <2> QED BY <2>1, <2>3, <2>4, <2>5, <2>6, TakeBalanced
<1>3. CASE PollNothing
  <2>1. dm' = dm /\ pc = "poll" /\ pc' = "idle"
    BY <1>3 DEF PollNothing
  <2> QED BY <2>1 DEF Balanced
<1>4. CASE NewbornStatus
  <2>1. CASE Interr(1200)
    BY <2>1 DEF Interr, Balanced
  <2>2. CASE NewbornStopped
    <3> DEFINE p == job.tid
               u == child[p]
               s == wstat[u]
               k == Born(dm, u, s)
               l == EnqueueFront(k, Ev("THREAD_START", u))
    <3>0. p = job.tid /\ u = child[p] /\ s = wstat[u] /\ k = Born(dm, u, s) /\ l = EnqueueFront(k, Ev("THREAD_START", u))
      OBVIOUS
    <3>1. pc = "newborn" /\ Reportable(u) /\ BeginEvent(l, p, job.status, TRUE)
      <4>1. l = EnqueueFront(IF s = "SIGSTOP" THEN dm
                             ELSE StorePendingSignal([dm EXCEPT !.waiting_sigstop[u] = TRUE], u, s),
                             Ev("THREAD_START", u))
        BY DEF Born
      <4> QED BY <2>2, <4>1 DEF NewbornStopped
    <3> HIDE DEF k, l
    <3>2. /\ p \in Tids /\ u \in Tids /\ u \in dm.threads /\ dm.pending_status[u] = None
          /\ ~dm.waiting_sigstop[u]
      BY <3>1, AgreeFacts DEF Birth
    <3>3. s \in Status
      BY <3>1, <3>2, AgreeFacts DEF Reportable, Tables
    <3> HIDE DEF p, u, s
    <3>4. /\ Good(k) /\ k.threads = dm.threads /\ k.user_suspend = dm.user_suspend
          /\ k.suspend_count = dm.suspend_count
      BY <3>0, <3>2, <3>3, AgreeFacts, BornFields
    <3>5. Level(dm, 0)
      BY <3>1 DEF Balanced
    <3>6. Level(k, 0)
      BY <3>4, <3>5, LevelSame
    <3>7. Ev("THREAD_START", u) \in Event
      BY <3>2 DEF Ev, SignalEv, Event, EventIds
    <3>8. Good(l) /\ Level(l, 0) /\ l.events # << >>
      <4>1. None \in Status \cup {None} /\ 0 \in Tids \cup {0}
        OBVIOUS
      <4> QED BY <3>0, <3>2, <3>4, <3>6, <3>7, <4>1, EnqueueGood, LevelOperators, QueuedSome, ZenonT(40)
    <3> QED BY <3>1, <3>2, <3>8, BeginBalanced
  <2> QED BY <1>4, <2>1, <2>2 DEF NewbornStatus
<1>5. ASSUME NEW t \in Tids, PollStatus(t) PROVE Balanced'
  <2>1. pc = "poll" /\ dm.events = << >> /\ Reportable(t) /\ child[t] \in Tids
    BY <1>5, AgreeFacts DEF PollStatus
  <2>2. Level(dm, 0) /\ Good(dm) /\ Base(dm) = 0
    BY <2>1, PollLevel
  <2>3. CASE t \in dm.threads
    <3>1. TakeStatus(dm, t, wstat[t])
      BY <1>5, <2>3 DEF PollStatus
    <3> QED BY <2>1, <2>2, <3>1, TakeBalanced
  <2>4. CASE t \notin dm.threads
    <3>1. wstat[t] \in Status
      BY <2>1, AgreeFacts DEF Reportable, Tables
    <3>2. PICK n : n = StorePendingSignal(dm, t, wstat[t])
      OBVIOUS
    <3>3. dm' = n /\ pc' = "poll"
      BY <1>5, <2>1, <2>4, <3>2 DEF PollStatus
    <3>4. /\ n.threads = dm.threads /\ n.user_suspend = dm.user_suspend
          /\ n.suspend_count = dm.suspend_count /\ n.events = dm.events /\ n.in_event = dm.in_event
      BY <2>2, <3>1, <3>2, StoreFields
    <3>5. Level(n, 0) /\ Base(n) = 0
      BY <2>2, <3>4, LevelSame DEF Base
    <3> QED BY <3>3, <3>5 DEF Balanced
  <2> QED BY <2>3, <2>4
<1> QED BY <1>1, <1>2, <1>3, <1>4, <1>5 DEF Poll

\* A step that leaves the counters alone, and what they depend on.
LEMMA SameBalanced ==
    ASSUME Balanced, ~dm.exited, pc' = pc \/ (pc = "idle" /\ pc' = "poll") \/ pc' = "halt", job' = job,
           \A f \in {"threads", "user_suspend", "suspend_count", "events", "in_event"} : dm'[f] = dm[f]
    PROVE  Balanced'
<1>1. PICK n : n = dm'
    OBVIOUS
<1>2. /\ n.threads = dm.threads /\ n.user_suspend = dm.user_suspend
      /\ n.suspend_count = dm.suspend_count /\ n.events = dm.events /\ n.in_event = dm.in_event
    BY <1>1
<1>3. Base(n) = Base(dm)
    BY <1>2 DEF Base
<1>4. \A b : Level(dm, b) => Level(n, b)
    BY <1>2, LevelSame
<1>5. Base(dm') = Base(dm) /\ \A b : Level(dm, b) => Level(dm', b)
    BY <1>1, <1>3, <1>4
<1>6. /\ dm'.threads = dm.threads /\ dm'.user_suspend = dm.user_suspend
      /\ dm'.suspend_count = dm.suspend_count /\ dm'.events = dm.events
    BY <1>1, <1>2
<1> QED BY <1>5, <1>6 DEF Balanced

\* The waiting loop of dbg_freeze_threads.
LEMMA WaitBalanced ==
    ASSUME IInv, Agree, Balanced, ~dm.exited, Wait
    PROVE  Balanced'
<1>1. CASE FreezePoll
  <2>1. dm' = dm /\ pc' = pc /\ job' = job
    BY <1>1 DEF FreezePoll, vars
  <2> QED BY <2>1, SameBalanced
<1>2. ASSUME NEW t \in Tids, FreezeStatus(t) PROVE Balanced'
  <2>1. pc = "freeze" /\ Reportable(t) /\ job' = job
    BY <1>2 DEF FreezeStatus
  <2>2. wstat[t] \in Status /\ Good(dm)
    BY <2>1, AgreeFacts DEF Reportable, Tables
  <2>3. \/ dm' = SigstopArrived(dm, t) /\ pc' = pc
        \/ dm' = StorePendingSignal(dm, t, wstat[t]) /\ pc' = pc
        \/ dm' = dm /\ pc' = "halt"
    BY <1>2 DEF FreezeStatus
  <2>4. CASE dm' = SigstopArrived(dm, t) /\ pc' = pc
    BY <2>1, <2>2, <2>4, SameBalanced DEF SigstopArrived, Good, Shaped, Fields
  <2>5. CASE dm' = StorePendingSignal(dm, t, wstat[t]) /\ pc' = pc
    <3>1. /\ dm'.threads = dm.threads /\ dm'.user_suspend = dm.user_suspend
          /\ dm'.suspend_count = dm.suspend_count /\ dm'.events = dm.events /\ dm'.in_event = dm.in_event
      BY <2>2, <2>5, StoreFields
    <3> QED BY <2>1, <2>5, <3>1, SameBalanced
  <2>6. CASE dm' = dm /\ pc' = "halt"
    BY <2>1, <2>6, SameBalanced
  <2> QED BY <2>3, <2>4, <2>5, <2>6
<1> QED BY <1>1, <1>2 DEF Wait

-----------------------------------------------------------------------------
(* The freezes: what follows them *)

\* What the invariant says once the freeze for an event has ended.
LEMMA EventLevel ==
    ASSUME IInv, Agree, Balanced, ~dm.exited, Frozen("event")
    PROVE  /\ Good(Held(dm)) /\ Level(Held(dm), 1) /\ job.tid \in Tids
           /\ job.ready => Held(dm).events # << >>
<1>1. /\ Good(dm) /\ job.tid \in Tids
      /\ Level(dm, 1)
      /\ job.ready => dm.events # << >>
    BY AgreeFacts DEF Frozen, Balanced
<1>2. Held(dm).threads = dm.threads /\ Held(dm).user_suspend = dm.user_suspend
      /\ Held(dm).suspend_count = dm.suspend_count /\ Held(dm).events = dm.events
    BY <1>1 DEF Held, Good, Shaped, Fields
<1> QED BY <1>1, <1>2, RunnableGood, LevelSame

\* SIGTRAP.
LEMMA TrapBalanced ==
    ASSUME IInv, Agree, Balanced, ~dm.exited, Trap
    PROVE  Balanced'
<1> DEFINE h == Held(dm)
<1>1. Frozen("event") /\ job.status = "SIGTRAP"
    BY DEF Trap
<1>2. Good(h) /\ Level(h, 1) /\ job.tid \in Tids
    BY <1>1, EventLevel
<1>3. PICK own \in BOOLEAN, found \in {FALSE, "library" \in World} :
          LET t == job.tid
              id == IF own THEN "BREAKPOINT" ELSE IF dm.single_step[t] THEN "STEP" ELSE "EXCEPTION"
              signum == IF id # "EXCEPTION" \/ "SIGTRAP" \in Mask THEN None ELSE "SIGTRAP"
              m == LibraryEvents(Signum(h, t, signum), found)
          IN IF id = "EXCEPTION" /\ "SIGTRAP" \notin BreakOn
             THEN Resume(m)
             ELSE Report(m, SignalEv(id, t, "SIGTRAP"))
    BY DEF Trap, Signum
<1> HIDE DEF h
<1> DEFINE id == IF own THEN "BREAKPOINT"
                 ELSE IF dm.single_step[job.tid] THEN "STEP" ELSE "EXCEPTION"
           signum == IF id # "EXCEPTION" \/ "SIGTRAP" \in Mask THEN None ELSE "SIGTRAP"
           k == Signum(h, job.tid, signum)
           m == LibraryEvents(k, found)
           e == SignalEv(id, job.tid, "SIGTRAP")
<1>4. Resume(m) \/ Report(m, e)
    BY <1>3
<1>5. signum \in Status \cup {None} /\ id \in EventIds /\ 0 \in Tids \cup {0}
    BY StatusFacts DEF EventIds
<1> HIDE DEF id, signum
<1>6. e \in Event
    BY <1>2, <1>5, StatusFacts DEF SignalEv, Event
<1>7. Good(k)
    BY <1>2, <1>5, FieldsGood DEF Signum
<1>8. Level(k, 1)
    BY <1>2, <1>5, <1>6, LevelOperators
<1>9. Ev("LIBRARY_LOAD", Main) \in Event
    BY TidsAssumption DEF Ev, SignalEv, Event, EventIds
<1> HIDE DEF e, k
<1>10. Good(m) /\ Level(m, 1)
    BY <1>2, <1>5, <1>7, <1>8, <1>9, EnqueueGood, LevelOperators DEF LibraryEvents
<1> HIDE DEF m
<1> QED BY <1>2, <1>4, <1>6, <1>10, ResumeBalanced, ReportBalanced

\* Any other signal.
LEMMA SignalledBalanced ==
    ASSUME IInv, Agree, Balanced, ~dm.exited, Signalled
    PROVE  Balanced'
<1> DEFINE s == job.status
           signum == IF s \notin BreakOn /\ s \in Mask THEN None ELSE s
           h == Held(dm)
           k == Signum(h, job.tid, signum)
           e == SignalEv("EXCEPTION", job.tid, s)
<1>1. Frozen("event") /\ s \in Signals \cup {"SIGSTOP"}
    BY DEF Signalled
<1>2. Good(h) /\ Level(h, 1) /\ job.tid \in Tids
    BY <1>1, EventLevel
<1>3. Resume(k) \/ Report(k, e)
    BY DEF Signalled, Signum
<1>4. s \in Status
    BY <1>1 DEF Status, Stops
<1>5. e \in Event
    BY <1>2, <1>4 DEF SignalEv, Event, EventIds
<1>6. signum \in Status \cup {None} /\ 0 \in Tids \cup {0}
    BY <1>4
<1> HIDE DEF e, signum, h
<1>7. Good(k)
    BY <1>2, <1>6, FieldsGood DEF Signum
<1>8. Level(k, 1)
    BY <1>2, <1>5, <1>6, LevelOperators
<1> HIDE DEF k
<1> QED BY <1>2, <1>3, <1>5, <1>7, <1>8, ResumeBalanced, ReportBalanced

\* PROCESS_EXIT marks the process as exited.
LEMMA ProcessExitExits ==
    ASSUME IInv, Agree, ProcessExit
    PROVE  dm'.exited
<1> DEFINE e == Ev("PROCESS_EXIT", job.tid)
           n == Stepped(Enqueue(Exited(Held(dm)), e), job.tid, job.tid)
<1>1. dm' = n
    BY DEF ProcessExit, Exited, Report, Return, Stepped, Ev, SignalEv
<1>2. Good(dm) /\ job.tid \in Tids /\ e \in Event
    BY AgreeFacts DEF Ev, SignalEv, Event, EventIds
<1>3. n.exited
    BY <1>2, ProcessExitFields
<1> QED BY <1>1, <1>3

\* What follows a freeze.
LEMMA FinishBalanced ==
    ASSUME IInv, Agree, Balanced, ~dm.exited, ~dm'.exited, Finish
    PROVE  Balanced'
<1> DEFINE h == Held(dm)
           t == job.tid
<1>0. None \in Status \cup {None} /\ 0 \in Tids \cup {0} /\ t \in Tids /\ t \in Tids \cup {0} /\ Good(dm)
    BY AgreeFacts
<1>0a. Ev("THREAD_EXIT", t) \in Event
    BY <1>0 DEF Ev, SignalEv, Event, EventIds
<1>1. CASE EventReady
  <2>1. Frozen("event") /\ job.ready /\ Return(Stepped(h, t, 0))
    BY <1>1 DEF EventReady, Stepped
  <2>2. Good(h) /\ Level(h, 1) /\ h.events # << >>
    BY <2>1, EventLevel
  <2> HIDE DEF h
  <2>3. Level(Stepped(h, t, 0), 1)
    BY <1>0, <1>0a, <2>2, LevelOperators
  <2>4. Stepped(h, t, 0).events # << >>
    BY <2>2 DEF Stepped, Good, Shaped, Fields
  <2> QED BY <2>1, <2>3, <2>4, ReturnBalanced
<1>2. CASE AwaitedSigstop
  <2>1. Frozen("event") /\ Resume(Arrived(h, t))
    BY <1>2 DEF AwaitedSigstop, Arrived
  <2>2. Good(h) /\ Level(h, 1)
    BY <2>1, EventLevel
  <2> HIDE DEF h
  <2>3. Level(Arrived(h, t), 1)
    BY <1>0, <1>0a, <2>2, LevelOperators
  <2>4. Good(Arrived(h, t))
    BY <1>0, <2>2, FieldsGood DEF Arrived
  <2> QED BY <1>0, <2>1, <2>3, <2>4, ResumeBalanced
<1>3. CASE Trap \/ Signalled
    BY <1>3, TrapBalanced, SignalledBalanced
<1>4. CASE ProcessExit
  <2>1. dm'.exited
    BY <1>4, ProcessExitExits
  <2> QED BY <2>1
<1>5. CASE ThreadExit
  <2> DEFINE q == Enqueue(h, Ev("THREAD_EXIT", t))
             k == DelThread(q, t)
  <2>1. Frozen("event") /\ Return(LastTid(k, t))
    BY <1>5 DEF ThreadExit, DeadThread, LastTid
  <2>2. Good(h) /\ Level(h, 1)
    BY <2>1, EventLevel
  <2> HIDE DEF h
  <2>3. Good(q) /\ Level(q, 1) /\ q.events # << >>
    BY <1>0, <1>0a, <2>2, EnqueueGood, LevelOperators, QueuedSome
  <2> HIDE DEF q
  <2>4. Good(k) /\ Level(k, 1) /\ k.events # << >>
    <3>1. k.events = q.events
      BY <1>0, <2>3, DelThreadFields DEF Fields
    <3> QED BY <1>0, <1>0a, <2>3, <3>1, DelThreadGood, LevelOperators
  <2> HIDE DEF k
  <2>5. Level(LastTid(k, t), 1)
    BY <1>0, <1>0a, <2>4, LevelOperators
  <2>6. LastTid(k, t).events # << >>
    BY <2>4 DEF LastTid, Good, Shaped, Fields
  <2> QED BY <2>1, <2>5, <2>6, ReturnBalanced
<1>6. CASE MemoryAccessed
  <2>1. pc = "freeze" /\ job.for = "memory" /\ DoThaw(dm, Tids, "idle")
    BY <1>6 DEF MemoryAccessed, Frozen
  <2>2. Level(dm, Base(dm) + 1)
    BY <2>1 DEF Balanced
  <2> QED BY <1>0, <2>1, <2>2, ThawBalanced
<1>7. CASE ThreadSuspended
  <2>1. /\ pc = "freeze" /\ job.for = "suspend" /\ pc' = "idle"
        /\ dm' = [dm EXCEPT !.user_suspend[t] = @ + 1]
    BY <1>7 DEF ThreadSuspended, Frozen
  <2>2. /\ dm.user_suspend[t] = 0
        /\ \A u \in dm.threads :
              /\ dm.user_suspend[u] \in {0, 1}
              /\ dm.suspend_count[u] <= dm.user_suspend[u] + Base(dm) + IF u = t THEN 1 ELSE 0
    BY <2>1 DEF Balanced
  <2>3. PICK n : n = dm'
    OBVIOUS
  <2>4. /\ \A f \in Fields \ {"user_suspend"} : n[f] = dm[f]
        /\ \A u \in Tids : n.user_suspend[u] = IF u = t THEN 1 ELSE dm.user_suspend[u]
    BY <1>0, <2>1, <2>2, <2>3 DEF Good, Shaped, Fields, Typed
  <2>5. /\ n.threads = dm.threads /\ n.suspend_count = dm.suspend_count /\ n.events = dm.events
        /\ n.in_event = dm.in_event /\ dm.threads \in SUBSET Tids
    BY <2>4, AgreeFacts DEF Fields
  <2>6. Base(n) = Base(dm) /\ Base(dm) \in Nat
    BY <2>5 DEF Base
  <2>7. Level(n, Base(n))
    <3>1. \A u \in Tids : dm.suspend_count[u] \in Nat
      BY <1>0 DEF Good, Typed
    <3> QED BY <2>2, <2>4, <2>5, <2>6, <3>1 DEF Level
  <2> QED BY <2>1, <2>3, <2>7 DEF Balanced
<1>8. CASE ProcessKilled
  <2>1. dm'.exited
    BY <1>8, ExitedField DEF ProcessKilled, Marked
  <2> QED BY <2>1
<1> QED BY <1>1, <1>2, <1>3, <1>4, <1>5, <1>6, <1>7, <1>8 DEF Finish

-----------------------------------------------------------------------------
(* The freezes are released *)

\* A request starts its freeze.
LEMMA StartBalanced ==
    ASSUME IInv, Agree, Balanced, ~dm.exited, pc = "idle", NEW f \in {"memory", "exit"},
           StartFreeze(dm, Tids, Job(f, Main))
    PROVE  Balanced'
<1> DEFINE n == Freeze(dm, Tids)
<1>1. dm' = n /\ pc' = "freeze" /\ job'.for = f
    BY DEF StartFreeze, Job
<1>2. Level(dm, Base(dm)) /\ Good(dm) /\ Base(dm) \in Nat
    BY AgreeFacts DEF Balanced, Base
<1>3. n.events = dm.events /\ n.in_event = dm.in_event
    BY <1>2, FreezeFields DEF Fields
<1>4. Base(n) = Base(dm)
    BY <1>3 DEF Base
<1>5. Level(n, Base(n) + 1)
    BY <1>2, <1>4, LevelFreeze
<1> HIDE DEF n
<1> QED BY <1>1, <1>5 DEF Balanced

\* The requests of the client.
LEMMA RequestBalanced ==
    ASSUME LeaderFirst, MaxUser <= 1 \/ "suspend" \notin Client,
           IInv, Agree, Balanced, ~dm.exited, Request
    PROVE  Balanced'
<1>0. pc = "idle" /\ Level(dm, Base(dm)) /\ Good(dm) /\ Base(dm) \in {0, 1} /\ dm.threads \in SUBSET Tids
  <2>1. pc = "idle"
    BY DEF Request, AccessMemory, PrepareToPause, ExitProcess, ThreadSuspend, ThreadContinue, SetResumeMode
  <2> QED BY <2>1, AgreeFacts DEF Balanced, Base
<1>1. CASE AccessMemory
    BY <1>0, <1>1, StartBalanced DEF AccessMemory
<1>2. CASE ExitProcess
    BY <1>0, <1>2, StartBalanced DEF ExitProcess
<1>3. ASSUME NEW t \in Tids, ThreadSuspend(t) PROVE Balanced'
  <2> DEFINE n == Freeze(dm, {t})
  <2>1. /\ t \in dm.threads /\ dm.user_suspend[t] < MaxUser /\ MaxUser <= 1
        /\ StartFreeze(dm, {t}, Job("suspend", t))
    BY <1>3 DEF ThreadSuspend
  <2>2. dm' = n /\ pc' = "freeze" /\ job'.for = "suspend" /\ job'.tid = t
    BY <2>1 DEF StartFreeze, Job
  <2>3. /\ \A f \in Fields \ {"suspend_count", "waiting_sigstop"} : n[f] = dm[f]
        /\ \A u \in Tids : n.suspend_count[u] = IF u \in dm.threads \cap {t} THEN dm.suspend_count[u] + 1
                                                ELSE dm.suspend_count[u]
    BY <1>0, FreezeFields
  <2>4. /\ n.threads = dm.threads /\ n.events = dm.events /\ n.in_event = dm.in_event
        /\ n.user_suspend = dm.user_suspend
    BY <2>3 DEF Fields
  <2>5. dm.user_suspend[t] = 0
    BY <1>0, <2>1, BoundsAssumption DEF Level
  <2>6. Base(n) = Base(dm)
    BY <2>4 DEF Base
  <2> HIDE DEF n
  <2>7. \A u \in Tids : dm.suspend_count[u] \in Nat
    BY <1>0 DEF Good, Typed
  <2>8. \A u \in n.threads :
           /\ n.user_suspend[u] \in {0, 1}
           /\ n.suspend_count[u] <= n.user_suspend[u] + Base(n) + IF u = t THEN 1 ELSE 0
    BY <1>0, <2>3, <2>4, <2>6, <2>7 DEF Level
  <2> QED BY <2>2, <2>4, <2>5, <2>8 DEF Balanced
<1>4. ASSUME NEW t \in Tids, ThreadContinue(t) PROVE Balanced'
  <2> DEFINE m == Released(dm, t)
             n == Thaw(m, {t})
  <2>1. /\ t \in dm.threads /\ dm.user_suspend[t] > 0
        /\ \/ m.user_suspend[t] > 0
           \/ DoThaw(m, {t}, "idle")
    BY <1>4 DEF ThreadContinue, Released
  <2>2. dm.user_suspend[t] = 1
    BY <1>0, <2>1 DEF Level
  <2>3. /\ Good(m) /\ \A f \in Fields \ {"user_suspend"} : m[f] = dm[f]
        /\ \A u \in Tids : m.user_suspend[u] = IF u = t THEN 0 ELSE dm.user_suspend[u]
    BY <1>0, <2>1, <2>2, ReleasedFields
  <2>4. /\ m.threads = dm.threads /\ m.events = dm.events /\ m.in_event = dm.in_event
        /\ m.suspend_count = dm.suspend_count
    BY <2>3 DEF Fields
  <2> HIDE DEF m
  <2>5. DoThaw(m, {t}, "idle")
    BY <2>1, <2>3
  <2>6. CASE Interr(30188)
    BY <2>6 DEF Interr, Balanced
  <2>7. CASE ThawAssert(m, {t}) /\ dm' = n /\ pc' = "idle"
    <3>0. {t} \in SUBSET Tids
      OBVIOUS
    <3>1. /\ n.threads = m.threads /\ n.user_suspend = m.user_suspend
          /\ \A u \in Tids : n.suspend_count[u] =
                 IF u \in m.threads \cap {t} /\ ~IsRunning(m, u) /\ m.suspend_count[u] > 0
                 THEN m.suspend_count[u] - 1 ELSE m.suspend_count[u]
      BY <2>3, <3>0, ThawFields DEF FitFields
    <3>2. Base(m) = Base(dm) /\ Base(n) \in {0, 1} /\ Base(m) <= Base(n)
      BY <2>3, <2>4, <3>0, ThawBase DEF Base
    <3>3. IsRunning(m, t) => m.suspend_count[t] = 0
      BY <2>1, <2>4, <2>7 DEF ThawAssert
    <3>4. \A u \in Tids : m.suspend_count[u] \in Nat
      BY <2>3 DEF Good, Typed
    <3> HIDE DEF n
    <3>5. ASSUME NEW u \in n.threads
          PROVE  n.user_suspend[u] \in {0, 1} /\ n.suspend_count[u] <= n.user_suspend[u] + Base(n)
      <4>1. /\ dm.user_suspend[u] \in {0, 1} /\ dm.suspend_count[u] <= dm.user_suspend[u] + Base(dm)
            /\ u \in Tids /\ u \in m.threads
        BY <1>0, <2>4, <3>1 DEF Level
      <4>2. CASE u = t
        BY <1>0, <2>2, <2>3, <2>4, <3>1, <3>2, <3>3, <3>4, <4>1, <4>2
      <4>3. CASE u # t
        BY <1>0, <2>3, <2>4, <3>1, <3>2, <3>4, <4>1, <4>3
      <4> QED BY <4>2, <4>3
    <3>6. Level(n, Base(n))
      BY <3>5 DEF Level
    <3> QED BY <2>7, <3>6 DEF Balanced
  <2> QED BY <2>5, <2>6, <2>7 DEF DoThaw
<1>5. ASSUME NEW t \in Tids, SetResumeMode(t) PROVE Balanced'
  <2>1. pc' = pc /\ job' = job /\ dm' = [dm EXCEPT !.single_step[t] = TRUE]
    BY <1>5 DEF SetResumeMode
  <2>2. \A f \in {"threads", "user_suspend", "suspend_count", "events", "in_event"} : dm'[f] = dm[f]
    BY <1>0, <2>1 DEF Good, Shaped, Fields
  <2> QED BY <2>1, <2>2, SameBalanced
<1>6. CASE PrepareToPause
  <2>1. PICK first \in dm.threads : dm' = Awaits(dm, first) \/ dm' = Paused(dm)
    BY <1>6 DEF PrepareToPause, Awaits, Paused
  <2>2. first \in Tids /\ pc' = pc /\ job' = job
    BY <1>0, <1>6 DEF PrepareToPause
  <2>3. \A f \in {"threads", "user_suspend", "suspend_count", "events", "in_event"} : dm'[f] = dm[f]
    BY <1>0, <2>1, <2>2, PausedFields DEF Fields
  <2> QED BY <2>2, <2>3, SameBalanced
<1> QED BY <1>1, <1>2, <1>3, <1>4, <1>5, <1>6 DEF Request

\* dbg_continue_after_event.
LEMMA ContinueBalanced ==
    ASSUME IInv, Agree, Balanced, ~dm.exited, ContinueAfterEvent
    PROVE  Balanced'
<1> DEFINE t == cur.tid
           k == Signum(dm, t, None)
<1>0. t \in Tids /\ pc = "idle" /\ dm.in_event /\ Good(dm)
    BY AgreeFacts DEF ContinueAfterEvent, IInv, ServerTyped, Event
<1>1. PICK handled \in BOOLEAN :
        LET keeps == \/ cur.eid \in {"THREAD_START", "THREAD_EXIT", "LIBRARY_LOAD"}
                     \/ cur.eid = "EXCEPTION" /\ ~handled
            m1 == IF t \in dm.threads /\ ~keeps THEN k ELSE dm
            m2 == IF t \in dm.threads /\ dm.state[t] = "DEAD" THEN DelThread(m1, t) ELSE m1
        IN IF t \notin dm.threads /\ cur.eid # "THREAD_EXIT" /\ ~dm.exited
           THEN UNCHANGED vars
           ELSE ResumeApp(Acknowledged(m2))
    BY DEF ContinueAfterEvent, Signum, Acknowledged
<1>2. Level(dm, 1)
    BY <1>0 DEF Balanced, Base
<1>2a. None \in Status \cup {None} /\ 0 \in Tids \cup {0} /\ Ev("THREAD_EXIT", t) \in Event
    BY <1>0 DEF Ev, SignalEv, Event, EventIds
<1>3. Level(k, 1) /\ Good(k)
    BY <1>0, <1>2, <1>2a, LevelOperators, FieldsGood DEF Signum
<1> HIDE DEF k, t
<1>4. CASE UNCHANGED vars
  <2>1. dm' = dm /\ pc' = pc /\ job' = job
    BY <1>4 DEF vars
  <2> QED BY <2>1, SameBalanced
<1>5. ASSUME NEW m1, m1 = k \/ m1 = dm, NEW m2, m2 = m1 \/ m2 = DelThread(m1, t),
             ResumeApp(Acknowledged(m2))
      PROVE  Balanced'
  <2>1. Level(m1, 1) /\ Good(m1)
    BY <1>0, <1>2, <1>3, <1>5
  <2>2. Level(m2, 1) /\ Good(m2)
    BY <1>0, <1>2a, <1>5, <2>1, LevelOperators, DelThreadGood
  <2>3. Level(Acknowledged(m2), 1) /\ Good(Acknowledged(m2))
    BY <1>0, <1>2a, <2>2, LevelOperators, AcknowledgedFields
  <2> QED BY <1>5, <2>3, ResumeAppBalanced
<1> QED BY <1>1, <1>4, <1>5

\* Every step.
LEMMA NextBalanced ==
    ASSUME LeaderFirst, MaxUser <= 1 \/ "suspend" \notin Client,
           IInv, Agree, Balanced, [Next]_vars
    PROVE  Balanced'
<1> SUFFICES ASSUME ~dm'.exited PROVE Balanced'
    BY DEF Balanced
<1>0. ~dm.exited
    BY ExitedStays DEF Persists
<1>1. CASE GetDebugEvent
  <2>1. pc = "idle" /\ pc' = "poll" /\ dm' = dm /\ job' = job
    BY <1>1 DEF GetDebugEvent
  <2> QED BY <1>0, <2>1, SameBalanced
<1>2. CASE Over \/ UNCHANGED vars
  <2>1. dm' = dm /\ pc' = pc /\ job' = job
    BY <1>2 DEF Over, vars
  <2> QED BY <1>0, <2>1, SameBalanced
<1>3. CASE Process \/ Signal
  <2>1. dm' = dm /\ pc' = pc /\ job' = job
    BY <1>3 DEF Process, Signal, ServerUnchanged, HitTrap, ExitThread, ExitGroup, RaiseSignal, Clone,
                Killed, TakeSignal
  <2> QED BY <1>0, <2>1, SameBalanced
<1> QED BY <1>0, <1>1, <1>2, <1>3, ContinueBalanced, PollBalanced, WaitBalanced, FinishBalanced,
           RequestBalanced DEF Next

\* Nothing is frozen when the process has just started; the invariants hold together.
LEMMA InitBalanced == Init => IInv /\ Agree /\ Balanced
<1> SUFFICES ASSUME Init PROVE Balanced
    BY InitIInv, InitAgree
<1>1. PICK events \in {<<Ev("PROCESS_START", Main)>>,
                       <<Ev("PROCESS_START", Main), Ev("PROCESS_ATTACH", Main)>>} :
          dm = Started(events)
    BY DEF Init
<1>2. /\ dm.threads = {Main} /\ dm.events = events
      /\ \A t \in Tids : dm.user_suspend[t] = 0 /\ dm.suspend_count[t] = 0
    BY <1>1 DEF Started, NoProcess
<1>3. pc = "idle" /\ dm.events # << >>
  <2>1. events # << >>
    OBVIOUS
  <2> QED BY <1>2, <2>1 DEF Init
<1>4. Level(dm, Base(dm))
    BY <1>2, <1>3, TidsAssumption DEF Level, Base
<1> QED BY <1>3, <1>4 DEF Balanced

\* Between events the engine holds no thread back on its own account: every
\* freeze of dbg_freeze_threads has met its dbg_thaw_threads, whatever events,
\* memory accesses, clones and exits came in between (FreezeReleased).  With
\* two suspensions of one thread it fails: dbg_thread_continue thaws once
\* where dbg_thread_suspend froze twice.
THEOREM FreezesReleased ==
    ASSUME LeaderFirst, MaxUser <= 1 \/ "suspend" \notin Client
    PROVE  Spec => []FreezeReleased
<1>1. (IInv /\ Agree /\ Balanced) /\ [Next]_vars => (IInv /\ Agree /\ Balanced)'
    BY NextIInv, NextAgree, NextBalanced
<1>2. IInv /\ Agree /\ Balanced => FreezeReleased
  <2> SUFFICES ASSUME Balanced, pc = "idle", ~dm.in_event, ~dm.exited, dm.events = << >>, Good(dm),
                      NEW t \in dm.threads
               PROVE  dm.suspend_count[t] <= dm.user_suspend[t]
    BY AgreeFacts DEF FreezeReleased
  <2>1. Level(dm, 0)
    BY DEF Balanced, Base
  <2>2. dm.suspend_count[t] <= dm.user_suspend[t] + 0 /\ dm.user_suspend[t] \in {0, 1}
    BY <2>1 DEF Level
  <2> QED BY <2>2
<1> QED BY <1>1, <1>2, InitBalanced, PTL DEF Spec

-----------------------------------------------------------------------------
(* Nobody is forgotten: what is announced, and who runs *)

\* The event says that t has exited.
Tells(e, t) == e.eid = "THREAD_EXIT" /\ e.tid = t

\* Such an event is in the queue.
Waits(m, t) == \E i \in 1 .. Len(m.events) : Tells(m.events[i], t)

\* Nothing is suspended by the user, and the exit of each thread the thaw
\* found dead waits for the client, or is the event e the client holds.
Announced(m, e) ==
    /\ Good(m)
    /\ \A t \in Tids : m.user_suspend[t] = 0
    /\ \A t \in m.threads : m.state[t] = "DEAD" => Waits(m, t) \/ (m.in_event /\ Tells(e, t))

\* No event is on its way, no signal is stored, no pause was asked for.
Between(m) ==
    /\ ~m.in_event /\ m.events = << >> /\ ~m.requested_to_suspend
    /\ \A t \in m.threads : m.pending_status[t] = None

\* Between events every thread runs; when a freeze for memory or for the exit
\* has stopped them, the thaw that follows may restart them.
Resumed ==
    Between(dm) =>
        /\ pc \in {"idle", "poll"} => dm.may_run /\ \A t \in dm.threads : dm.state[t] = "RUNNING"
        /\ pc = "freeze" /\ job.for # "event" => dm.may_run

\* Nobody is forgotten: the inductive invariant, of a client that suspends no
\* thread by hand.
Roused ==
    ~dm.exited => /\ Announced(dm, cur) /\ Resumed
                  /\ pc = "freeze" => job.for # "suspend"

\* A change to the other fields.
LEMMA AnnouncedSame ==
    ASSUME NEW m, NEW e, Announced(m, e), NEW n, Good(n),
           \A t \in n.threads : n.state[t] = "DEAD" => t \in m.threads /\ m.state[t] = "DEAD",
           \A t \in Tids : n.user_suspend[t] = 0,
           n.events = m.events, n.in_event = m.in_event
    PROVE  Announced(n, e)
BY DEF Announced, Waits

\* The operators that leave the queue of events alone.
LEMMA AnnouncedOperators ==
    ASSUME NEW m, NEW e, Announced(m, e), NEW t \in Tids, NEW s \in Status \cup {None},
           NEW l \in Tids \cup {0}
    PROVE  /\ Announced(Held(m), e) /\ Announced(Runnable(m), e)
           /\ Announced(Signum(m, t, s), e) /\ Announced(Stepped(m, t, l), e)
           /\ Announced(LastTid(m, l), e) /\ Announced(MarkStopped(m, t), e)
           /\ Announced(Arrived(m, t), e) /\ Announced(SigstopArrived(m, t), e)
           /\ Announced(DelThread(m, t), e) /\ Announced(AddThread(m, t), e)
<1>0. Good(m) /\ \A u \in Tids : m.user_suspend[u] = 0
    BY DEF Announced
<1>1. Announced(Held(m), e) /\ Announced(Runnable(m), e)
  <2>1. Good(Held(m)) /\ Good(Runnable(m))
    BY <1>0, RunnableGood
  <2>2. ASSUME NEW n \in {Held(m), Runnable(m)}
        PROVE  /\ n.threads = m.threads /\ n.state = m.state /\ n.user_suspend = m.user_suspend
               /\ n.events = m.events /\ n.in_event = m.in_event
    BY <1>0, <2>2 DEF Held, Runnable, Good, Shaped, Fields
  <2> QED BY <1>0, <2>1, <2>2, AnnouncedSame
<1>2. Announced(Signum(m, t, s), e) /\ Announced(Stepped(m, t, l), e) /\ Announced(LastTid(m, l), e)
      /\ Announced(Arrived(m, t), e)
  <2>1. Good(Signum(m, t, s)) /\ Good(Stepped(m, t, l)) /\ Good(LastTid(m, l)) /\ Good(Arrived(m, t))
    BY <1>0, FieldsGood, SteppedGood, LastTidGood, StatusFacts DEF Signum, Arrived, Stepped
  <2>2. ASSUME NEW n \in {Signum(m, t, s), Stepped(m, t, l), LastTid(m, l), Arrived(m, t)}
        PROVE  /\ n.threads = m.threads /\ n.state = m.state /\ n.user_suspend = m.user_suspend
               /\ n.events = m.events /\ n.in_event = m.in_event
    BY <1>0, <2>2 DEF Signum, Stepped, LastTid, Arrived, Good, Shaped, Fields
  <2> QED BY <1>0, <2>1, <2>2, AnnouncedSame
<1>3. Announced(MarkStopped(m, t), e) /\ Announced(SigstopArrived(m, t), e)
  <2>1. Good(MarkStopped(m, t)) /\ Good(SigstopArrived(m, t))
    BY <1>0, StoppedFields, SigstopArrivedGood
  <2>2. ASSUME NEW n \in {MarkStopped(m, t), SigstopArrived(m, t)}
        PROVE  /\ n.threads = m.threads /\ n.user_suspend = m.user_suspend
               /\ n.state = [m.state EXCEPT ![t] = "STOPPED"]
               /\ n.events = m.events /\ n.in_event = m.in_event
    BY <1>0, <2>2, ZenonT(40) DEF MarkStopped, SigstopArrived, Good, Shaped, Fields
  <2>3. m.state \in [Tids -> {"RUNNING", "STOPPED", "DEAD"}] /\ m.threads \in SUBSET Tids
    BY <1>0 DEF Good, Typed
  <2>4. ASSUME NEW n \in {MarkStopped(m, t), SigstopArrived(m, t)}, NEW u \in n.threads, n.state[u] = "DEAD"
        PROVE  u \in m.threads /\ m.state[u] = "DEAD"
    BY <2>2, <2>3, <2>4
  <2> QED BY <1>0, <2>1, <2>2, <2>4, AnnouncedSame
<1>4. Announced(DelThread(m, t), e)
  <2> DEFINE n == DelThread(m, t)
  <2>1. Good(n)
    BY <1>0, DelThreadGood
  <2>2. /\ n.threads = m.threads \ {t} /\ n.user_suspend = m.user_suspend /\ n.state = m.state
        /\ n.events = m.events /\ n.in_event = m.in_event
    BY <1>0, DelThreadFields DEF Fields
  <2> QED BY <1>0, <2>1, <2>2, AnnouncedSame
<1>5. Announced(AddThread(m, t), e)
  <2> DEFINE n == AddThread(m, t)
  <2>1. CASE t \in m.threads
    BY <2>1 DEF AddThread
  <2>2. CASE t \notin m.threads
    <3>1. /\ Good(n) /\ n.threads = m.threads \cup {t} /\ n.events = m.events /\ n.in_event = m.in_event
          /\ \A v \in Tids : /\ n.state[v] = IF v = t THEN "STOPPED" ELSE m.state[v]
                             /\ n.user_suspend[v] = IF v = t THEN 0 ELSE m.user_suspend[v]
      BY <1>0, <2>2, AddThreadFields
    <3>2. m.threads \in SUBSET Tids
      BY <1>0 DEF Good, Typed
    <3>3. ASSUME NEW u \in n.threads, n.state[u] = "DEAD"
          PROVE  u \in m.threads /\ m.state[u] = "DEAD"
      BY <3>1, <3>2, <3>3
    <3> HIDE DEF n
    <3> QED BY <1>0, <3>1, <3>3, AnnouncedSame DEF n
  <2> QED BY <2>1, <2>2
<1> QED BY <1>1, <1>2, <1>3, <1>4, <1>5

\* A longer queue.
LEMMA WaitsMore ==
    ASSUME NEW m, Good(m), NEW e, NEW n, n.events = Append(m.events, e) \/ n.events = <<e>> \o m.events,
           NEW t, Waits(m, t)
    PROVE  Waits(n, t)
<1>1. m.events \in Seq(Event) /\ Len(m.events) \in Nat
    BY DEF Good, Typed
<1>2. PICK i \in 1 .. Len(m.events) : Tells(m.events[i], t)
    BY DEF Waits
<1>3. CASE n.events = Append(m.events, e)
  <2>1. Len(n.events) = Len(m.events) + 1 /\ n.events[i] = m.events[i]
    BY <1>1, <1>3
  <2> QED BY <1>1, <1>2, <2>1 DEF Waits
<1>4. CASE n.events = <<e>> \o m.events
  <2>1. Len(n.events) = Len(m.events) + 1 /\ n.events[i + 1] = m.events[i]
    BY <1>1, <1>4
  <2>2. i + 1 \in 1 .. Len(n.events)
    BY <1>1, <2>1
  <2> QED BY <1>2, <2>1, <2>2 DEF Waits
<1> QED BY <1>3, <1>4

\* An event is queued.
LEMMA AnnouncedEvent ==
    ASSUME NEW m, NEW e, Announced(m, e), NEW x \in Event
    PROVE  Announced(Enqueue(m, x), e) /\ Announced(EnqueueFront(m, x), e)
<1>0. Good(m) /\ \A u \in Tids : m.user_suspend[u] = 0
    BY DEF Announced
<1>1. ASSUME NEW n \in {Enqueue(m, x), EnqueueFront(m, x)} PROVE Announced(n, e)
  <2>1. Good(n)
    BY <1>0, <1>1, EnqueueGood
  <2>2. /\ n.threads = m.threads /\ n.user_suspend = m.user_suspend /\ n.state = m.state
        /\ n.in_event = m.in_event
        /\ n.events = Append(m.events, x) \/ n.events = <<x>> \o m.events
    BY <1>0, <1>1 DEF Enqueue, EnqueueFront, Good, Shaped, Fields
  <2>3. \A t : Waits(m, t) => Waits(n, t)
    BY <1>0, <2>2, WaitsMore
  <2> QED BY <1>0, <2>1, <2>2, <2>3 DEF Announced
<1> QED BY <1>1

\* A signal is stored.
LEMMA AnnouncedStore ==
    ASSUME NEW m, NEW e, Announced(m, e), NEW t \in Tids, NEW s \in Status
    PROVE  Announced(StorePendingSignal(m, t, s), e)
<1> DEFINE n == StorePendingSignal(m, t, s)
<1>0. Good(m) /\ \A u \in Tids : m.user_suspend[u] = 0
    BY DEF Announced
<1>1. Good(n)
    BY <1>0, StorePendingSignalGood
<1>2. /\ n.threads = m.threads /\ n.user_suspend = m.user_suspend
      /\ n.events = m.events /\ n.in_event = m.in_event
      /\ \A u \in Tids : u # t \/ t \notin m.threads => n.state[u] = m.state[u]
      /\ t \in m.threads /\ m.waiting_sigstop[t] /\ s = "SIGSTOP" => n.state[t] = "STOPPED"
      /\ t \in m.threads /\ ~(m.waiting_sigstop[t] /\ s = "SIGSTOP") => n.state[t] = m.state[t]
    BY <1>0, StoreFields
<1>3. m.threads \in SUBSET Tids
    BY <1>0 DEF Good, Typed
<1> HIDE DEF n
<1>4. ASSUME NEW u \in n.threads, n.state[u] = "DEAD" PROVE u \in m.threads /\ m.state[u] = "DEAD"
    BY <1>2, <1>3, <1>4
<1> QED BY <1>0, <1>1, <1>2, <1>4, AnnouncedSame DEF n

\* dbg_freeze_threads kills nobody.
LEMMA AnnouncedFreeze ==
    ASSUME NEW m, NEW e, Announced(m, e), NEW S \in SUBSET Tids
    PROVE  Announced(Freeze(m, S), e)
<1> DEFINE n == Freeze(m, S)
<1>0. Good(m) /\ \A u \in Tids : m.user_suspend[u] = 0
    BY DEF Announced
<1>1. Good(n)
    BY <1>0, FreezeGood
<1>2. /\ n.threads = m.threads /\ n.user_suspend = m.user_suspend /\ n.state = m.state
      /\ n.events = m.events /\ n.in_event = m.in_event
    BY <1>0, FreezeFields DEF Fields
<1> QED BY <1>0, <1>1, <1>2, AnnouncedSame

\* The thread a thaw marks as dead is the one whose exit it queues.
LEMMA AnnouncedThaw ==
    ASSUME NEW m, NEW e, Announced(m, e), NEW S \in SUBSET Tids
    PROVE  Announced(Thaw(m, S), e)
<1> DEFINE n == Thaw(m, S)
           Z == FirstZombies(m, S)
<1>0. Good(m) /\ (\A u \in Tids : m.user_suspend[u] = 0) /\ m.threads \in SUBSET Tids
    BY DEF Announced, Good, Typed
<1>1. Good(n)
    BY <1>0, ThawGood
<1>2. /\ n.threads = m.threads /\ n.user_suspend = m.user_suspend /\ n.in_event = m.in_event
      /\ Z = {} => n.events = m.events
      /\ Z # {} => \E z \in Z : n.events = Append(m.events, Ev("THREAD_EXIT", z))
      /\ \A t \in Tids : n.state[t] = IF t \in Restarted(m, S) THEN "RUNNING"
                                      ELSE IF t \in Z THEN "DEAD" ELSE m.state[t]
    BY <1>0, ThawFields DEF FitFields
<1>3. ASSUME NEW y \in Z, NEW z \in Z PROVE y = z
  <2>1. y \in Nat /\ z \in Nat /\ y <= z /\ z <= y
    BY <1>0, TidsAssumption DEF FirstZombies, Zombies, Restartable
  <2> QED BY <2>1
<1> HIDE DEF n, Z
<1>4. ASSUME NEW t \in n.threads, n.state[t] = "DEAD"
      PROVE  Waits(n, t) \/ (n.in_event /\ Tells(e, t))
  <2>0. t \in m.threads /\ t \in Tids
    BY <1>0, <1>2
  <2>1. CASE t \in Z
    <3>1. n.events = Append(m.events, Ev("THREAD_EXIT", t))
      BY <1>2, <1>3, <2>1
    <3>2. m.events \in Seq(Event)
      BY <1>0 DEF Good, Typed
    <3>3. Len(n.events) \in Nat /\ Len(n.events) >= 1 /\ n.events[Len(n.events)] = Ev("THREAD_EXIT", t)
      BY <3>1, <3>2
    <3>4. Tells(Ev("THREAD_EXIT", t), t)
      BY DEF Tells, Ev, SignalEv
    <3> QED BY <3>3, <3>4 DEF Waits
  <2>2. CASE t \notin Z
    <3>1. m.state[t] = "DEAD"
      BY <1>2, <1>4, <2>0, <2>2
    <3>2. Waits(m, t) \/ (m.in_event /\ Tells(e, t))
      BY <2>0, <3>1 DEF Announced
    <3>3. Waits(m, t) => Waits(n, t)
      <4>1. CASE Z = {}
        BY <1>2, <4>1 DEF Waits
      <4>2. CASE Z # {}
        BY <1>0, <1>2, <4>2, WaitsMore
      <4> QED BY <4>1, <4>2
    <3> QED BY <1>2, <3>2, <3>3
  <2> QED BY <2>1, <2>2
<1> QED BY <1>0, <1>1, <1>2, <1>4 DEF Announced, n

-----------------------------------------------------------------------------
(* Nobody is forgotten: dbg_thaw_threads starts them all *)

\* Of some threads one is the first.
LEMMA FirstTid ==
    ASSUME NEW Z \in SUBSET Tids, Z # {}
    PROVE  \E z \in Z : \A y \in Z : z <= y
<1> DEFINE Below(z) == {y \in Z : y < z}
           C == {Below(z) : z \in Z}
           R == StrictSubsetOrdering(Tids)
<1>0. \A z \in Z : z \in Nat
    BY TidsAssumption
<1>1. IsWellFoundedOn(R, FiniteSubsetsOf(Tids))
    BY FS_StrictSubsetOrderingWellFounded
<1>2. FiniteSubsetsOf(Tids) = SUBSET Tids
    BY TidsAssumption, FS_FiniteSubsetsOfFinite
<1>3. C \subseteq FiniteSubsetsOf(Tids) /\ C # {}
  <2>1. \A z \in Z : Below(z) \in SUBSET Tids
    OBVIOUS
  <2>2. C \in SUBSET (SUBSET Tids)
    BY <2>1
  <2>3. C # {}
    OBVIOUS
  <2> HIDE DEF C
  <2> QED BY <1>2, <2>2, <2>3
<1>4. PICK b \in C : \A c \in C : ~(<<c, b>> \in R)
  <2> HIDE DEF C, R
  <2> QED BY <1>1, <1>3, WFMin
<1>5. PICK z \in Z : b = Below(z)
    OBVIOUS
<1>6. ASSUME NEW y \in Z, y < z PROVE FALSE
  <2>1. Below(y) \subseteq Below(z) /\ y \in Below(z) /\ y \notin Below(y)
    BY <1>0, <1>6
  <2>2. Below(y) \in SUBSET Tids /\ Below(z) \in SUBSET Tids /\ Below(y) \in C
    OBVIOUS
  <2>3. <<Below(y), Below(z)>> \in R
    BY <2>1, <2>2 DEF StrictSubsetOrdering
  <2> QED BY <1>4, <1>5, <2>2, <2>3
<1>7. \A y \in Z : z <= y
    BY <1>0, <1>6
<1> QED BY <1>7

\* dbg_thaw_threads does not answer a pause.
LEMMA ThawRequested ==
    ASSUME NEW m, Good(m), NEW S
    PROVE  Thaw(m, S).requested_to_suspend = m.requested_to_suspend
<1> DEFINE k == Thawed(m, S)
<1>1. "requested_to_suspend" \in DOMAIN k /\ k.requested_to_suspend = m.requested_to_suspend
    BY DEF Thawed, Good, Shaped, Fields
<1>2. \A x : Enqueue(k, x).requested_to_suspend = k.requested_to_suspend
  <2> HIDE DEF k
  <2> QED BY <1>1 DEF Enqueue
<1> QED BY <1>1, <1>2 DEF Thaw

\* A thaw that finds no thread dead restarts every thread.
LEMMA ThawResumed ==
    ASSUME NEW m, Agree', IInv', Announced(m, cur), Announced(dm, cur),
           Between(m) => m.may_run /\ Level(m, 1), DoThaw(m, Tids, "idle")
    PROVE  Roused'
<1>1. CASE Interr(30188)
  <2>1. dm' = dm /\ cur' = cur /\ pc' = "halt"
    BY <1>1 DEF Interr
  <2> QED BY <2>1 DEF Roused, Resumed
<1>2. CASE /\ ThawAssert(m, Tids) /\ dm' = Thaw(m, Tids) /\ Restart(Restarted(m, Tids)) /\ pc' = "idle"
           /\ cur' = cur
  <2> DEFINE n == Thaw(m, Tids)
             Z == Zombies(m, Tids)
             F == FirstZombies(m, Tids)
             R == Restarted(m, Tids)
  <2>0. Tids \in SUBSET Tids
    OBVIOUS
  <2>1. Announced(n, cur) /\ Good(m) /\ m.threads \in SUBSET Tids
    <3>1. Good(m) /\ m.threads \in SUBSET Tids
      BY DEF Announced, Good, Typed
    <3> QED BY <2>0, <3>1, AnnouncedThaw
  <2>2. /\ \A f \in FitFields \ {"suspend_count", "state"} : n[f] = m[f]
        /\ n.in_event = m.in_event
        /\ F = {} => n.events = m.events /\ n.may_run = m.may_run
        /\ F # {} => \E z \in F : n.events = Append(m.events, Ev("THREAD_EXIT", z))
        /\ \A t \in Tids : n.state[t] = IF t \in R THEN "RUNNING" ELSE IF t \in F THEN "DEAD" ELSE m.state[t]
    BY <2>1, ThawFields
  <2>3. n.threads = m.threads /\ n.pending_status = m.pending_status /\ n.exited = m.exited
    BY <2>2 DEF FitFields
  <2>3a. n.requested_to_suspend = m.requested_to_suspend
    BY <2>1, ThawRequested
  <2>4. SUFFICES ASSUME ~n.exited, Between(n) PROVE n.may_run /\ \A t \in n.threads : n.state[t] = "RUNNING"
    BY <1>2, <2>1 DEF Roused, Resumed
  <2>5. F = {}
    <3>1. m.events \in Seq(Event)
      BY <2>1 DEF Good, Typed
    <3>2. \A x : Append(m.events, x) # << >>
      BY <3>1
    <3> QED BY <2>2, <2>4, <3>2 DEF Between
  <2>6. Z = {}
    <3>1. Z \in SUBSET Tids
      BY <2>1 DEF Zombies, Restartable
    <3>2. \A z \in Z : (\A y \in Z : z <= y) => z \in F
      BY DEF FirstZombies
    <3> HIDE DEF Z, F
    <3> QED BY <2>5, <3>1, <3>2, FirstTid
  <2>7. Between(m) /\ m.may_run /\ Level(m, 1)
    BY <2>2, <2>3, <2>3a, <2>4, <2>5 DEF Between
  <2>8. n.may_run
    BY <2>2, <2>5, <2>7
  <2>9. ASSUME NEW t \in n.threads, n.state[t] # "RUNNING" PROVE FALSE
    <3>1. t \in m.threads /\ t \in Tids /\ t \notin R /\ m.state[t] = n.state[t]
      BY <2>1, <2>2, <2>3, <2>5, <2>9
    <3>2. m.state[t] # "DEAD"
      BY <2>7, <3>1 DEF Announced, Between, Waits
    <3>3. m.state[t] = "STOPPED"
      BY <2>1, <2>9, <3>1, <3>2 DEF Good, Typed
    <3>4. t \in Restartable(m, Tids)
      <4>1. m.user_suspend[t] = 0 /\ m.suspend_count[t] <= m.user_suspend[t] + 1
        BY <2>7, <3>1 DEF Announced, Level
      <4>2. m.suspend_count[t] <= 1 /\ m.pending_status[t] = None /\ ~m.exited
        BY <2>3, <2>4, <2>7, <3>1, <4>1 DEF Between
      <4> QED BY <2>7, <3>1, <3>3, <4>1, <4>2 DEF Restartable
    <3>5. task[t] # "zombie" /\ task[t] # "stop"
      BY <2>6, <3>1, <3>4 DEF Zombies, Restarted
    <3>6. task'[t] = task[t]
      BY <1>2, <3>1 DEF Restart
    <3>7. task'[t] \in {"none", "run", "gone"}
      <4>1. task' \in [Tids -> {"none", "run", "stop", "zombie", "gone"}]
        BY DEF IInv, KernelTyped
      <4> QED BY <3>1, <3>5, <3>6, <4>1
    <3>8. Good(dm') /\ t \in dm'.threads /\ dm'.state[t] = "STOPPED" /\ dm'.pending_status[t] = None /\ Taken'[t] = None
      <4>1. Taken'[t] = None
        BY <1>2, <3>1 DEF Taken
      <4> QED BY <1>2, <2>1, <2>3, <2>7, <3>1, <3>3, <4>1 DEF Between, Announced
    <3>9. /\ Known(dm', Taken'[t], task', wstat', sigs', t)
          /\ Entry(dm', Taken'[t], task', t)
          /\ Reaped(dm', Taken', task', cur') /\ (Ended(dm', cur') => dm'.exited)
      BY <1>2, <3>1 DEF Agree, Fit
    <3>10. task'[t] # "none"
      BY <3>8, <3>9 DEF Entry
    <3>11. task'[t] # "run"
      BY <3>8, <3>9, StatusFacts DEF Known, Alive
    <3>12. task'[t] # "gone"
      BY <1>2, <2>4, <3>8, <3>9, StatusFacts DEF Reaped
    <3> QED BY <3>7, <3>10, <3>11, <3>12
  <2> QED BY <2>8, <2>9
<1> QED BY <1>1, <1>2 DEF DoThaw

-----------------------------------------------------------------------------
(* Nobody is forgotten: events *)

\* The types of the two empty values.
LEMMA StepLabels == None \in Status \cup {None} /\ 0 \in Tids \cup {0}
OBVIOUS

\* resume_app.
LEMMA ResumeAppRoused ==
    ASSUME NEW m, Agree', IInv', Announced(m, cur), Announced(dm, cur), Level(m, 1), ResumeApp(m)
    PROVE  Roused'
<1> DEFINE n == Runnable(m)
<1>1. DoThaw(n, Tids, "idle")
    BY DEF ResumeApp
<1>2. Good(m) /\ \A t \in Tids : t \in Tids \cup {0}
    BY DEF Announced
<1>3. Announced(n, cur)
    BY TidsAssumption, StepLabels, AnnouncedOperators
<1>4. /\ n.threads = m.threads /\ n.user_suspend = m.user_suspend /\ n.suspend_count = m.suspend_count
      /\ n.events = m.events /\ n.pending_status = m.pending_status
      /\ n.may_run = ~HasPendingEvents(m)
    BY <1>2 DEF Runnable, Good, Shaped, Fields
<1> HIDE DEF n
<1>5. Level(n, 1)
    BY <1>4, LevelSame
<1>6. Between(n) => n.may_run
    BY <1>4 DEF Between, HasPendingEvents, Retrievable
<1> QED BY <1>1, <1>3, <1>5, <1>6, ThawResumed

\* get_debug_event returns with its event in the queue.
LEMMA ReturnRoused ==
    ASSUME NEW m, Announced(m, cur), m.events # << >>, Return(m)
    PROVE  Roused'
<1>1. dm' = m /\ pc' = "poll" /\ cur' = cur
    BY DEF Return
<1> QED BY <1>1 DEF Roused, Resumed, Between

\* The label RESUME.
LEMMA ResumeRoused ==
    ASSUME NEW m, Agree', IInv', Announced(m, cur), Announced(dm, cur), Level(m, 1), job.tid \in Tids, Resume(m)
    PROVE  Roused'
<1> DEFINE e == Ev("PROCESS_SUSPEND", job.tid)
<1>1. e \in Event
    BY DEF Ev, SignalEv, Event, EventIds
<1>2. ResumeApp(m) \/ Return(Enqueue(m, e))
    BY DEF Resume
<1> HIDE DEF e
<1>3. Announced(Enqueue(m, e), cur) /\ Enqueue(m, e).events # << >>
    BY <1>1, AnnouncedEvent, QueuedSome DEF Announced
<1> QED BY <1>2, <1>3, ResumeAppRoused, ReturnRoused

\* get_debug_event reports an event.
LEMMA ReportRoused ==
    ASSUME NEW m, Announced(m, cur), NEW e \in Event, Report(m, e)
    PROVE  Roused'
<1> DEFINE k == Enqueue(m, e)
           n == Stepped(k, e.tid, e.tid)
<1>0. e.tid \in Tids /\ e.tid \in Tids \cup {0}
    BY DEF Event
<1>1. Return(n)
    BY DEF Report, Stepped
<1>2. Announced(k, cur) /\ k.events # << >>
    BY AnnouncedEvent, QueuedSome DEF Announced
<1> HIDE DEF k
<1>3. Announced(n, cur) /\ n.events # << >>
  <2>1. n.events = k.events
    BY <1>2 DEF Stepped, Announced, Good, Shaped, Fields
  <2> QED BY <1>0, <1>2, <2>1, StepLabels, AnnouncedOperators
<1> QED BY <1>1, <1>3, ReturnRoused

\* The freeze for an event.
LEMMA BeginRoused ==
    ASSUME NEW m, Announced(m, cur), NEW t \in Tids, NEW s, NEW r, BeginEvent(m, t, s, r)
    PROVE  Roused'
<1> DEFINE n == MarkStopped(m, t)
           k == Freeze(n, Tids)
<1>1. /\ cur' = cur
      /\ \/ pc' = "halt" /\ dm' = m
         \/ dm' = k /\ pc' = "freeze" /\ job'.for = "event"
    BY DEF BeginEvent, StartFreeze, MarkStopped, EventJob
<1>2. Announced(n, cur)
    BY StepLabels, AnnouncedOperators
<1> HIDE DEF n
<1>3. Announced(k, cur)
    BY <1>2, AnnouncedFreeze
<1> HIDE DEF k
<1> QED BY <1>1, <1>3 DEF Roused, Resumed

\* A status is taken.
LEMMA TakeRoused ==
    ASSUME NEW m, Announced(m, cur), NEW t \in Tids, child[t] \in Tids, NEW s, TakeStatus(m, t, s)
    PROVE  Roused'
<1> DEFINE u == child[t]
           a == AddThread(m, u)
           b == [a EXCEPT !.seen_threads = @ \ {u}]
           c == EnqueueFront(b, Ev("THREAD_START", u))
<1>1. u = child[t] /\ u \in Tids /\ a = AddThread(m, u) /\ c = EnqueueFront(b, Ev("THREAD_START", u))
    OBVIOUS
<1>2. c = SeenNewborn(m, t)
    BY DEF SeenNewborn
<1>3. Announced(a, cur)
    BY <1>1, StepLabels, AnnouncedOperators
<1> HIDE DEF a, u
<1>4. /\ Good(b) /\ b.threads = a.threads /\ b.user_suspend = a.user_suspend /\ b.state = a.state
      /\ b.events = a.events /\ b.in_event = a.in_event
  <2>1. a.seen_threads \ {u} \in FreeType["seen_threads"] /\ "seen_threads" \in DOMAIN FreeType
    BY <1>3 DEF Announced, Good, Typed, FreeType
  <2> QED BY <1>3, <2>1, SetField DEF Announced, Good, Shaped, Fields
<1> HIDE DEF b
<1>5. Announced(b, cur)
    BY <1>3, <1>4, AnnouncedSame DEF Announced
<1>6. Ev("THREAD_START", u) \in Event
    BY <1>1 DEF Ev, SignalEv, Event, EventIds
<1>7. Announced(c, cur)
    BY <1>1, <1>5, <1>6, AnnouncedEvent
<1> HIDE DEF c
<1>8. CASE s = "CLONE" /\ u \in m.seen_threads
  <2>1. BeginEvent(c, t, s, TRUE)
    BY <1>1, <1>2, <1>8 DEF TakeStatus
  <2> QED BY <1>7, <2>1, BeginRoused
<1>9. CASE s = "CLONE" /\ u \notin m.seen_threads
  <2>1. dm' = a /\ pc' = "newborn" /\ cur' = cur
    BY <1>1, <1>9 DEF TakeStatus, Newborn
  <2> QED BY <1>3, <2>1 DEF Roused, Resumed
<1>10. CASE s # "CLONE"
  <2>1. BeginEvent(m, t, s, FALSE)
    BY <1>10 DEF TakeStatus
  <2> QED BY <2>1, BeginRoused
<1> QED BY <1>8, <1>9, <1>10

\* The event that is delivered may be the one that tells of a dead thread.
LEMMA DeliverRoused ==
    ASSUME IInv, Agree, Roused, ~dm.exited, Deliver
    PROVE  Roused'
<1>1. dm' = Delivered(dm) /\ dm.events # << >> /\ pc = "poll" /\ pc' = "idle" /\ cur' = Head(dm.events)
    BY DEF Deliver, Delivered
<1>2. PICK n : n = dm'
    OBVIOUS
<1>2a. Good(n)
    BY <1>1, <1>2, AgreeFacts, DeliverGood DEF Delivered
<1>3. /\ n.in_event /\ n.events = Tail(dm.events)
      /\ \A f \in Fields \ {"events", "in_event", "requested_to_suspend"} : n[f] = dm[f]
    BY <1>1, <1>2, AgreeFacts, DeliverFields
<1>4. n.threads = dm.threads /\ n.user_suspend = dm.user_suspend /\ n.state = dm.state
    BY <1>3 DEF Fields
<1>5. Announced(dm, cur) /\ ~dm.in_event /\ dm.events \in Seq(Event)
    BY <1>1, AgreeFacts DEF Roused, Agree, Asked, Good, Typed
<1>6. ASSUME NEW t, Waits(dm, t) PROVE Waits(n, t) \/ Tells(cur', t)
  <2>1. PICK i \in 1 .. Len(dm.events) : Tells(dm.events[i], t)
    BY <1>6 DEF Waits
  <2>2. CASE i = 1
    <3>1. cur' = dm.events[1]
      BY <1>1, <1>5
    <3> QED BY <2>1, <2>2, <3>1
  <2>3. CASE i # 1
    <3>1. Len(n.events) = Len(dm.events) - 1 /\ Len(dm.events) \in Nat
      BY <1>1, <1>3, <1>5
    <3>2. i - 1 \in 1 .. Len(n.events)
      BY <2>3, <3>1
    <3>3. n.events[i - 1] = dm.events[i]
      BY <1>1, <1>3, <1>5, <3>1, <3>2
    <3> QED BY <2>1, <3>2, <3>3 DEF Waits
  <2> QED BY <2>2, <2>3
<1>7. Announced(n, cur')
    BY <1>2a, <1>3, <1>4, <1>5, <1>6 DEF Announced
<1> QED BY <1>1, <1>2, <1>3, <1>7 DEF Roused, Resumed, Between

-----------------------------------------------------------------------------
(* Nobody is forgotten: dbg_get_debug_event and the waiting loop *)

\* A step that leaves the object alone.
LEMMA SameRoused ==
    ASSUME Roused, ~dm.exited, dm' = dm, cur' = cur, job' = job,
           pc' = pc \/ (pc = "idle" /\ pc' = "poll") \/ (pc = "poll" /\ pc' = "idle") \/ pc' = "halt"
    PROVE  Roused'
BY DEF Roused, Resumed

\* dbg_get_debug_event.
LEMMA PollRoused ==
    ASSUME IInv, Agree, Roused, ~dm.exited, Poll
    PROVE  Roused'
<1>0. Announced(dm, cur) /\ Resumed
    BY DEF Roused
<1>1. CASE Deliver
    BY <1>1, DeliverRoused
<1>2. CASE PollPending
  <2>1. PICK t \in PendingChoice(dm) : TakeStatus(TakePending(dm, t), t, dm.pending_status[t])
    BY <1>2 DEF PollPending
  <2>2. t \in Flagged(dm) /\ t \in Tids /\ child[t] \in Tids
    BY <2>1, AgreeFacts DEF PendingChoice, Retrievable, Flagged
  <2>3. PICK k : k = TakePending(dm, t)
    OBVIOUS
  <2>4. /\ Good(k) /\ k.threads = dm.threads /\ k.user_suspend = dm.user_suspend /\ k.state = dm.state
        /\ k.events = dm.events /\ k.in_event = dm.in_event
    BY <2>2, <2>3, AgreeFacts, TakePendingFields
  <2>5. Announced(k, cur)
    BY <1>0, <2>4, AnnouncedSame DEF Announced
  <2> QED BY <2>1, <2>2, <2>3, <2>5, TakeRoused
<1>3. CASE PollNothing
  <2>1. dm' = dm /\ cur' = cur /\ job' = job /\ pc = "poll" /\ pc' = "idle"
    BY <1>3 DEF PollNothing
  <2> QED BY <2>1, SameRoused
<1>4. CASE NewbornStatus
  <2>1. CASE Interr(1200)
    <3>1. dm' = dm /\ cur' = cur /\ job' = job /\ pc' = "halt"
      BY <2>1 DEF Interr
    <3> QED BY <3>1, SameRoused
  <2>2. CASE NewbornStopped
    <3> DEFINE p == job.tid
               u == child[p]
               s == wstat[u]
               k == Born(dm, u, s)
               l == EnqueueFront(k, Ev("THREAD_START", u))
    <3>0. p = job.tid /\ u = child[p] /\ s = wstat[u] /\ k = Born(dm, u, s) /\ l = EnqueueFront(k, Ev("THREAD_START", u))
      OBVIOUS
    <3>1. pc = "newborn" /\ Reportable(u) /\ BeginEvent(l, p, job.status, TRUE)
      <4>1. l = EnqueueFront(IF s = "SIGSTOP" THEN dm
                             ELSE StorePendingSignal([dm EXCEPT !.waiting_sigstop[u] = TRUE], u, s),
                             Ev("THREAD_START", u))
        BY DEF Born
      <4> QED BY <2>2, <4>1 DEF NewbornStopped
    <3> HIDE DEF k, l
    <3>2. /\ p \in Tids /\ u \in Tids /\ u \in dm.threads /\ dm.pending_status[u] = None
          /\ ~dm.waiting_sigstop[u]
      BY <3>1, AgreeFacts DEF Birth
    <3>3. s \in Status
      BY <3>1, <3>2, AgreeFacts DEF Reportable, Tables
    <3> HIDE DEF p, u, s
    <3>4. /\ Good(k) /\ k.threads = dm.threads /\ k.user_suspend = dm.user_suspend
          /\ k.state = dm.state /\ k.events = dm.events /\ k.in_event = dm.in_event
      BY <3>0, <3>2, <3>3, AgreeFacts, BornFields
    <3>5. Announced(k, cur)
      BY <1>0, <3>4, AnnouncedSame DEF Announced
    <3>6. Ev("THREAD_START", u) \in Event
      BY <3>2 DEF Ev, SignalEv, Event, EventIds
    <3>7. Announced(l, cur)
      BY <3>0, <3>5, <3>6, AnnouncedEvent
    <3> QED BY <3>1, <3>2, <3>7, BeginRoused
  <2> QED BY <1>4, <2>1, <2>2 DEF NewbornStatus
<1>5. ASSUME NEW t \in Tids, PollStatus(t) PROVE Roused'
  <2>1. pc = "poll" /\ dm.events = << >> /\ Reportable(t) /\ child[t] \in Tids /\ Good(dm)
    BY <1>5, AgreeFacts DEF PollStatus
  <2>2. wstat[t] \in Status
    BY <2>1, AgreeFacts DEF Reportable, Tables
  <2>3. CASE t \in dm.threads
    <3>1. TakeStatus(dm, t, wstat[t])
      BY <1>5, <2>3 DEF PollStatus
    <3> QED BY <1>0, <2>1, <3>1, TakeRoused
  <2>4. CASE t \notin dm.threads
    <3>1. PICK n : n = StorePendingSignal(dm, t, wstat[t])
      OBVIOUS
    <3>2. dm' = n /\ pc' = "poll" /\ cur' = cur
      BY <1>5, <2>1, <2>4, <3>1 DEF PollStatus
    <3>3. Announced(n, cur)
      BY <1>0, <2>2, <3>1, AnnouncedStore
    <3>4. /\ n.threads = dm.threads /\ n.may_run = dm.may_run /\ n.state = dm.state
          /\ n.events = dm.events /\ n.in_event = dm.in_event /\ n.pending_status = dm.pending_status
          /\ n.requested_to_suspend = dm.requested_to_suspend
      BY <2>1, <2>4, <3>1 DEF StorePendingSignal, Good, Shaped, Fields
    <3>5. Between(n) => n.may_run /\ \A v \in n.threads : n.state[v] = "RUNNING"
      BY <1>0, <2>1, <3>4 DEF Resumed, Between
    <3> QED BY <3>2, <3>3, <3>5 DEF Roused, Resumed
  <2> QED BY <2>3, <2>4
<1> QED BY <1>1, <1>2, <1>3, <1>4, <1>5 DEF Poll

\* Nor does store_pending_signal answer a pause.
LEMMA StoreRequested ==
    ASSUME NEW m, Good(m), NEW t, NEW s
    PROVE  StorePendingSignal(m, t, s).requested_to_suspend = m.requested_to_suspend
BY DEF StorePendingSignal, SigstopArrived, Good, Shaped, Fields

\* The waiting loop of dbg_freeze_threads.
LEMMA WaitRoused ==
    ASSUME IInv, Agree, Roused, ~dm.exited, Wait
    PROVE  Roused'
<1>1. CASE FreezePoll
  <2>1. dm' = dm /\ pc' = pc /\ job' = job /\ cur' = cur
    BY <1>1 DEF FreezePoll, vars
  <2> QED BY <2>1, SameRoused
<1>2. ASSUME NEW t \in Tids, FreezeStatus(t) PROVE Roused'
  <2>0. Announced(dm, cur) /\ Resumed /\ (pc = "freeze" => job.for # "suspend")
    BY DEF Roused
  <2>1. pc = "freeze" /\ Reportable(t) /\ job' = job /\ cur' = cur
    BY <1>2 DEF FreezeStatus
  <2>2. wstat[t] \in Status /\ Good(dm) /\ wstat[t] # None
    BY <2>1, AgreeFacts DEF Reportable, Tables
  <2>3. \/ dm' = SigstopArrived(dm, t) /\ pc' = pc
        \/ dm' = StorePendingSignal(dm, t, wstat[t]) /\ pc' = pc
        \/ dm' = dm /\ pc' = "halt"
    BY <1>2 DEF FreezeStatus
  <2>4. ASSUME NEW n, dm' = n, pc' = pc, Announced(n, cur),
               n.threads = dm.threads, n.may_run = dm.may_run, n.events = dm.events,
               n.in_event = dm.in_event, n.requested_to_suspend = dm.requested_to_suspend,
               \A u \in n.threads : n.pending_status[u] = None => dm.pending_status[u] = None
        PROVE  Roused'
    <3>1. Between(n) => Between(dm)
      BY <2>4 DEF Between
    <3> QED BY <2>0, <2>1, <2>4, <3>1 DEF Roused, Resumed
  <2>5. CASE dm' = SigstopArrived(dm, t) /\ pc' = pc
    <3>1. Announced(SigstopArrived(dm, t), cur)
      BY <2>0, StepLabels, AnnouncedOperators
    <3>2. PICK n : n = SigstopArrived(dm, t)
      OBVIOUS
    <3>3. /\ n.threads = dm.threads /\ n.may_run = dm.may_run /\ n.events = dm.events
          /\ n.in_event = dm.in_event /\ n.requested_to_suspend = dm.requested_to_suspend
          /\ n.pending_status = dm.pending_status
      BY <2>2, <3>2 DEF SigstopArrived, Good, Shaped, Fields
    <3> QED BY <2>4, <2>5, <3>1, <3>2, <3>3
  <2>6. CASE dm' = StorePendingSignal(dm, t, wstat[t]) /\ pc' = pc
    <3>1. PICK n : n = StorePendingSignal(dm, t, wstat[t])
      OBVIOUS
    <3>2. Announced(n, cur)
      BY <2>0, <2>2, <3>1, AnnouncedStore
    <3>3. /\ n.threads = dm.threads /\ n.may_run = dm.may_run /\ n.events = dm.events
          /\ n.in_event = dm.in_event /\ dm.threads \in SUBSET Tids
          /\ \A u \in Tids : u # t \/ t \notin dm.threads => n.pending_status[u] = dm.pending_status[u]
          /\ t \in dm.threads /\ dm.waiting_sigstop[t] /\ wstat[t] = "SIGSTOP" =>
                n.pending_status[t] = dm.pending_status[t]
          /\ t \in dm.threads /\ ~(dm.waiting_sigstop[t] /\ wstat[t] = "SIGSTOP") =>
                n.pending_status[t] = wstat[t]
      BY <2>2, <3>1, AgreeFacts, StoreFields
    <3>4. n.requested_to_suspend = dm.requested_to_suspend
      BY <2>2, <3>1, StoreRequested
    <3>5. \A u \in n.threads : n.pending_status[u] = None => dm.pending_status[u] = None
      BY <2>2, <3>3
    <3> QED BY <2>4, <2>6, <3>1, <3>2, <3>3, <3>4, <3>5
  <2>7. CASE dm' = dm /\ pc' = "halt"
    BY <2>1, <2>7, SameRoused
  <2> QED BY <2>3, <2>5, <2>6, <2>7
<1> QED BY <1>1, <1>2 DEF Wait

-----------------------------------------------------------------------------
(* Nobody is forgotten: what follows a freeze *)

\* What the invariants say once the freeze for an event has ended.
LEMMA EventAnnounced ==
    ASSUME IInv, Agree, Balanced, Roused, ~dm.exited, Frozen("event")
    PROVE  /\ Announced(dm, cur) /\ Announced(Held(dm), cur) /\ Level(Held(dm), 1)
           /\ Good(Held(dm)) /\ job.tid \in Tids
           /\ job.ready => Held(dm).events # << >>
<1>1. Announced(dm, cur) /\ job.tid \in Tids
    BY EventLevel DEF Roused
<1> QED BY <1>1, EventLevel, StepLabels, AnnouncedOperators

\* SIGTRAP.
LEMMA TrapRoused ==
    ASSUME IInv, Agree, Balanced, Roused, ~dm.exited, IInv', Agree', Trap
    PROVE  Roused'
<1> DEFINE h == Held(dm)
<1>1. Frozen("event") /\ job.status = "SIGTRAP"
    BY DEF Trap
<1>2. Announced(h, cur) /\ Announced(dm, cur) /\ Good(h) /\ Level(h, 1) /\ job.tid \in Tids
    BY <1>1, EventAnnounced
<1>3. PICK own \in BOOLEAN, found \in {FALSE, "library" \in World} :
          LET t == job.tid
              id == IF own THEN "BREAKPOINT" ELSE IF dm.single_step[t] THEN "STEP" ELSE "EXCEPTION"
              signum == IF id # "EXCEPTION" \/ "SIGTRAP" \in Mask THEN None ELSE "SIGTRAP"
              m == LibraryEvents(Signum(h, t, signum), found)
          IN IF id = "EXCEPTION" /\ "SIGTRAP" \notin BreakOn
             THEN Resume(m)
             ELSE Report(m, SignalEv(id, t, "SIGTRAP"))
    BY DEF Trap, Signum
<1> HIDE DEF h
<1> DEFINE id == IF own THEN "BREAKPOINT"
                 ELSE IF dm.single_step[job.tid] THEN "STEP" ELSE "EXCEPTION"
           signum == IF id # "EXCEPTION" \/ "SIGTRAP" \in Mask THEN None ELSE "SIGTRAP"
           k == Signum(h, job.tid, signum)
           m == LibraryEvents(k, found)
           e == SignalEv(id, job.tid, "SIGTRAP")
<1>4. Resume(m) \/ Report(m, e)
    BY <1>3
<1>5. signum \in Status \cup {None} /\ id \in EventIds
    BY StatusFacts DEF EventIds
<1> HIDE DEF id, signum
<1>6. e \in Event
    BY <1>2, <1>5, StatusFacts DEF SignalEv, Event
<1>7. Announced(k, cur)
    BY <1>2, <1>5, StepLabels, AnnouncedOperators
<1>8. Level(k, 1)
    BY <1>2, <1>5, <1>6, StepLabels, LevelOperators
<1>9. Ev("LIBRARY_LOAD", Main) \in Event
    BY TidsAssumption DEF Ev, SignalEv, Event, EventIds
<1> HIDE DEF e, k
<1>10. Announced(m, cur) /\ Level(m, 1)
  <2>1. Good(k)
    BY <1>7 DEF Announced
  <2> QED BY <1>2, <1>7, <1>8, <1>9, <2>1, StepLabels, AnnouncedEvent, LevelOperators DEF LibraryEvents
<1> HIDE DEF m
<1> QED BY <1>2, <1>4, <1>6, <1>10, ResumeRoused, ReportRoused

\* Any other signal.
LEMMA SignalledRoused ==
    ASSUME IInv, Agree, Balanced, Roused, ~dm.exited, IInv', Agree', Signalled
    PROVE  Roused'
<1> DEFINE s == job.status
           signum == IF s \notin BreakOn /\ s \in Mask THEN None ELSE s
           h == Held(dm)
           k == Signum(h, job.tid, signum)
           e == SignalEv("EXCEPTION", job.tid, s)
<1>1. Frozen("event") /\ s \in Signals \cup {"SIGSTOP"}
    BY DEF Signalled
<1>2. Announced(h, cur) /\ Announced(dm, cur) /\ Good(h) /\ Level(h, 1) /\ job.tid \in Tids
    BY <1>1, EventAnnounced
<1>3. Resume(k) \/ Report(k, e)
    BY DEF Signalled, Signum
<1>4. s \in Status
    BY <1>1 DEF Status, Stops
<1>5. e \in Event
    BY <1>2, <1>4 DEF SignalEv, Event, EventIds
<1>6. signum \in Status \cup {None}
    BY <1>4
<1> HIDE DEF e, signum, h
<1>7. Announced(k, cur)
    BY <1>2, <1>6, StepLabels, AnnouncedOperators
<1>8. Level(k, 1)
    BY <1>2, <1>5, <1>6, StepLabels, LevelOperators
<1> HIDE DEF k
<1> QED BY <1>2, <1>3, <1>5, <1>7, <1>8, ResumeRoused, ReportRoused

\* What follows a freeze.
LEMMA FinishRoused ==
    ASSUME IInv, Agree, Balanced, Roused, ~dm.exited, ~dm'.exited, IInv', Agree', Finish
    PROVE  Roused'
<1> DEFINE h == Held(dm)
           t == job.tid
<1>0. t \in Tids /\ t \in Tids \cup {0} /\ Announced(dm, cur) /\ Resumed
    BY AgreeFacts DEF Roused
<1>0a. Ev("THREAD_EXIT", t) \in Event
    BY <1>0 DEF Ev, SignalEv, Event, EventIds
<1>1. CASE EventReady
  <2>1. Frozen("event") /\ job.ready /\ Return(Stepped(h, t, 0))
    BY <1>1 DEF EventReady, Stepped
  <2>2. Announced(h, cur) /\ h.events # << >>
    BY <2>1, EventAnnounced
  <2> HIDE DEF h
  <2>3. Announced(Stepped(h, t, 0), cur)
    BY <1>0, <2>2, StepLabels, AnnouncedOperators
  <2>4. Stepped(h, t, 0).events # << >>
    BY <2>2 DEF Stepped, Announced, Good, Shaped, Fields
  <2> QED BY <2>1, <2>3, <2>4, ReturnRoused
<1>2. CASE AwaitedSigstop
  <2>1. Frozen("event") /\ Resume(Arrived(h, t))
    BY <1>2 DEF AwaitedSigstop, Arrived
  <2>2. Announced(h, cur) /\ Good(h) /\ Level(h, 1)
    BY <2>1, EventAnnounced
  <2> HIDE DEF h
  <2>3. Level(Arrived(h, t), 1) /\ Announced(Arrived(h, t), cur)
    BY <1>0, <1>0a, <2>2, StepLabels, LevelOperators, AnnouncedOperators
  <2> QED BY <1>0, <2>1, <2>3, ResumeRoused
<1>3. CASE Trap \/ Signalled
    BY <1>3, TrapRoused, SignalledRoused
<1>4. CASE ProcessExit
    BY <1>4, ProcessExitExits
<1>5. CASE ThreadExit
  <2> DEFINE q == Enqueue(h, Ev("THREAD_EXIT", t))
             k == DelThread(q, t)
  <2>1. Frozen("event") /\ Return(LastTid(k, t))
    BY <1>5 DEF ThreadExit, DeadThread, LastTid
  <2>2. Announced(h, cur)
    BY <2>1, EventAnnounced
  <2> HIDE DEF h
  <2>3. Announced(q, cur) /\ q.events # << >>
    BY <1>0a, <2>2, AnnouncedEvent, QueuedSome DEF Announced
  <2> HIDE DEF q
  <2>4. Announced(k, cur) /\ k.events # << >>
    <3>1. k.events = q.events
      BY <1>0, <2>3, DelThreadFields DEF Announced, Fields
    <3> QED BY <1>0, <2>3, <3>1, StepLabels, AnnouncedOperators
  <2> HIDE DEF k
  <2>5. Announced(LastTid(k, t), cur)
    BY <1>0, <2>4, StepLabels, AnnouncedOperators
  <2>6. LastTid(k, t).events # << >>
    BY <2>4 DEF LastTid, Announced, Good, Shaped, Fields
  <2> QED BY <2>1, <2>5, <2>6, ReturnRoused
<1>6. CASE MemoryAccessed
  <2>1. pc = "freeze" /\ job.for = "memory" /\ DoThaw(dm, Tids, "idle")
    BY <1>6 DEF MemoryAccessed, Frozen
  <2>2. Level(dm, Base(dm) + 1)
    BY <2>1 DEF Balanced
  <2>3. Between(dm) => dm.may_run
    BY <1>0, <2>1 DEF Resumed
  <2>4. Between(dm) => Level(dm, 1)
    BY <2>2 DEF Between, Base
  <2> QED BY <1>0, <2>1, <2>3, <2>4, ThawResumed
<1>7. CASE ThreadSuspended
    BY <1>7 DEF ThreadSuspended, Frozen, Roused
<1>8. CASE ProcessKilled
  <2>1. dm'.exited
    BY <1>8, ExitedField DEF ProcessKilled, Marked
  <2> QED BY <2>1
<1> QED BY <1>1, <1>2, <1>3, <1>4, <1>5, <1>6, <1>7, <1>8 DEF Finish

-----------------------------------------------------------------------------
(* Nobody is forgotten: the requests, and all steps *)

\* A request starts its freeze.
LEMMA StartRoused ==
    ASSUME IInv, Agree, Roused, ~dm.exited, pc = "idle", NEW f \in {"memory", "exit"},
           StartFreeze(dm, Tids, Job(f, Main)), cur' = cur
    PROVE  Roused'
<1> DEFINE n == Freeze(dm, Tids)
<1>1. dm' = n /\ pc' = "freeze" /\ job'.for = f
    BY DEF StartFreeze, Job
<1>2. Announced(dm, cur) /\ Resumed /\ Good(dm)
    BY DEF Roused, Announced
<1>3. Announced(n, cur)
    BY <1>2, AnnouncedFreeze
<1>4. /\ n.events = dm.events /\ n.in_event = dm.in_event /\ n.threads = dm.threads
      /\ n.requested_to_suspend = dm.requested_to_suspend /\ n.pending_status = dm.pending_status
      /\ n.may_run = dm.may_run
    BY <1>2, FreezeFields DEF Fields
<1> HIDE DEF n
<1>5. Between(n) => n.may_run
    BY <1>2, <1>4 DEF Resumed, Between
<1> QED BY <1>1, <1>3, <1>5 DEF Roused, Resumed

\* The requests of the client, without dbg_thread_suspend.
LEMMA RequestRoused ==
    ASSUME "suspend" \notin Client, IInv, Agree, Roused, ~dm.exited, Request
    PROVE  Roused'
<1>0. Announced(dm, cur) /\ Good(dm) /\ dm.threads \in SUBSET Tids
    BY AgreeFacts DEF Roused
<1>1. CASE AccessMemory
    BY <1>1, StartRoused DEF AccessMemory
<1>2. CASE ExitProcess
    BY <1>2, StartRoused DEF ExitProcess
<1>3. ASSUME NEW t \in Tids, SetResumeMode(t) PROVE Roused'
  <2>1. /\ pc' = "idle" /\ cur' = cur /\ dm.in_event
        /\ dm' = [dm EXCEPT !.single_step[t] = TRUE]
    BY <1>3 DEF SetResumeMode
  <2>2. PICK n : n = dm'
    OBVIOUS
  <2>3. Good(n)
    BY <1>0, <2>1, <2>2, FieldsGood, StatusFacts
  <2>4. /\ n.threads = dm.threads /\ n.user_suspend = dm.user_suspend /\ n.state = dm.state
        /\ n.events = dm.events /\ n.in_event = dm.in_event
    BY <1>0, <2>1, <2>2 DEF Good, Shaped, Fields
  <2>5. Announced(n, cur)
    BY <1>0, <2>3, <2>4, AnnouncedSame DEF Announced
  <2> QED BY <2>1, <2>2, <2>4, <2>5 DEF Roused, Resumed, Between
<1>4. CASE PrepareToPause
  <2>1. PICK first \in dm.threads : dm' = Awaits(dm, first) \/ dm' = Paused(dm)
    BY <1>4 DEF PrepareToPause, Awaits, Paused
  <2>2. first \in Tids /\ pc' = "idle" /\ cur' = cur
    BY <1>0, <1>4 DEF PrepareToPause
  <2>3. PICK n : n = dm'
    OBVIOUS
  <2>4. /\ n.threads = dm.threads /\ n.user_suspend = dm.user_suspend /\ n.state = dm.state
        /\ n.events = dm.events /\ n.in_event = dm.in_event
    BY <1>0, <2>1, <2>2, <2>3, PausedFields DEF Fields
  <2>5. n.requested_to_suspend
    BY <1>0, <2>1, <2>3 DEF Awaits, Paused, Good, Shaped, Fields
  <2>6. Good(n)
    BY <1>4, <2>3, NextIInv DEF Next, Request, IInv
  <2>7. Announced(n, cur)
    BY <1>0, <2>4, <2>6, AnnouncedSame DEF Announced
  <2> QED BY <2>2, <2>3, <2>5, <2>7 DEF Roused, Resumed, Between
<1>5. ASSUME NEW t \in Tids PROVE ~ThreadSuspend(t) /\ ~ThreadContinue(t)
    BY DEF ThreadSuspend, ThreadContinue
<1> QED BY <1>1, <1>2, <1>3, <1>4, <1>5 DEF Request

\* dbg_continue_after_event.
LEMMA ContinueRoused ==
    ASSUME IInv, Agree, Balanced, Roused, ~dm.exited, IInv', Agree', ContinueAfterEvent
    PROVE  Roused'
<1> DEFINE t == cur.tid
           k == Signum(dm, t, None)
<1>0. t \in Tids /\ pc = "idle" /\ dm.in_event /\ Good(dm) /\ Announced(dm, cur)
    BY AgreeFacts DEF ContinueAfterEvent, IInv, ServerTyped, Event, Roused
<1>1. PICK handled \in BOOLEAN :
        LET keeps == \/ cur.eid \in {"THREAD_START", "THREAD_EXIT", "LIBRARY_LOAD"}
                     \/ cur.eid = "EXCEPTION" /\ ~handled
            m1 == IF t \in dm.threads /\ ~keeps THEN k ELSE dm
            m2 == IF t \in dm.threads /\ dm.state[t] = "DEAD" THEN DelThread(m1, t) ELSE m1
        IN IF t \notin dm.threads /\ cur.eid # "THREAD_EXIT" /\ ~dm.exited
           THEN UNCHANGED vars
           ELSE ResumeApp(Acknowledged(m2))
    BY DEF ContinueAfterEvent, Signum, Acknowledged
<1>2. Level(dm, 1)
    BY <1>0 DEF Balanced, Base
<1>2a. Ev("THREAD_EXIT", t) \in Event
    BY <1>0 DEF Ev, SignalEv, Event, EventIds
<1>3. Level(k, 1) /\ Announced(k, cur) /\ k.threads = dm.threads /\ k.state = dm.state
  <2>1. k.threads = dm.threads /\ k.state = dm.state
    BY <1>0 DEF Signum, Good, Shaped, Fields
  <2> QED BY <1>0, <1>2, <1>2a, <2>1, StepLabels, LevelOperators, AnnouncedOperators
<1>3b. \A u : Tells(cur, u) => u = t
    BY DEF Tells
<1> HIDE DEF k, t
<1>4. CASE UNCHANGED vars
  <2>1. dm' = dm /\ pc' = pc /\ job' = job /\ cur' = cur
    BY <1>4 DEF vars
  <2> QED BY <2>1, SameRoused
<1>5. ASSUME NEW m1, m1 = k \/ m1 = dm,
             NEW m2, m2 = IF t \in dm.threads /\ dm.state[t] = "DEAD" THEN DelThread(m1, t) ELSE m1,
             ResumeApp(Acknowledged(m2))
      PROVE  Roused'
  <2>1. Level(m1, 1) /\ Announced(m1, cur) /\ m1.threads = dm.threads /\ m1.state = dm.state /\ Good(m1)
    BY <1>0, <1>2, <1>3, <1>5 DEF Announced
  <2>2. Level(m2, 1) /\ Announced(m2, cur)
    BY <1>0, <1>2a, <1>5, <2>1, StepLabels, LevelOperators, AnnouncedOperators
  <2>3. \A u \in m2.threads : m2.state[u] = "DEAD" => u # t
    <3>1. CASE t \in dm.threads /\ dm.state[t] = "DEAD"
      <4>1. m2.threads = m1.threads \ {t}
        BY <1>0, <1>5, <2>1, <3>1, DelThreadFields
      <4> QED BY <4>1
    <3>2. CASE ~(t \in dm.threads /\ dm.state[t] = "DEAD")
      BY <1>5, <2>1, <3>2
    <3> QED BY <3>1, <3>2
  <2> DEFINE n == Acknowledged(m2)
  <2>4. Good(n) /\ \A f \in Fields \ {"in_event"} : n[f] = m2[f]
    BY <2>2, AcknowledgedFields DEF Announced
  <2>5. n.threads = m2.threads /\ n.state = m2.state /\ n.user_suspend = m2.user_suspend /\ n.events = m2.events
    BY <2>4 DEF Fields
  <2>6. Level(n, 1)
    BY <1>0, <1>2a, <2>2, StepLabels, LevelOperators DEF Announced
  <2> HIDE DEF n
  <2>7. Announced(n, cur)
    BY <1>3b, <2>2, <2>3, <2>4, <2>5 DEF Announced, Waits
  <2> QED BY <1>0, <1>5, <2>6, <2>7, ResumeAppRoused DEF n
<1> QED BY <1>1, <1>4, <1>5

\* Every step.
LEMMA NextRoused ==
    ASSUME "suspend" \notin Client, IInv, Agree, Balanced, Roused, IInv', Agree', [Next]_vars
    PROVE  Roused'
<1> SUFFICES ASSUME ~dm'.exited PROVE Roused'
    BY DEF Roused
<1>0. ~dm.exited
    BY ExitedStays DEF Persists
<1>1. CASE GetDebugEvent
  <2>1. pc = "idle" /\ pc' = "poll" /\ dm' = dm /\ job' = job /\ cur' = cur
    BY <1>1 DEF GetDebugEvent
  <2> QED BY <1>0, <2>1, SameRoused
<1>2. CASE Over \/ UNCHANGED vars
  <2>1. dm' = dm /\ pc' = pc /\ job' = job /\ cur' = cur
    BY <1>2 DEF Over, vars
  <2> QED BY <1>0, <2>1, SameRoused
<1>3. CASE Process \/ Signal
  <2>1. dm' = dm /\ pc' = pc /\ job' = job /\ cur' = cur
    BY <1>3 DEF Process, Signal, ServerUnchanged, HitTrap, ExitThread, ExitGroup, RaiseSignal, Clone,
                Killed, TakeSignal
  <2> QED BY <1>0, <2>1, SameRoused
<1> QED BY <1>0, <1>1, <1>2, <1>3, ContinueRoused, PollRoused, WaitRoused, FinishRoused,
           RequestRoused DEF Next

\* The process has just started.
LEMMA InitRoused == Init => Roused
<1> SUFFICES ASSUME Init PROVE Roused
    OBVIOUS
<1>1. PICK events \in {<<Ev("PROCESS_START", Main)>>,
                       <<Ev("PROCESS_START", Main), Ev("PROCESS_ATTACH", Main)>>} :
          dm = Started(events)
    BY DEF Init
<1>2. /\ dm.threads = {Main} /\ dm.events = events
      /\ \A t \in Tids : dm.user_suspend[t] = 0 /\ dm.state[t] = "STOPPED"
    BY <1>1 DEF Started, NoProcess
<1>3. events # << >> /\ pc = "idle" /\ Good(dm)
  <2>1. events # << >>
    OBVIOUS
  <2> QED BY <2>1, InitIInv DEF Init, IInv
<1>4. Announced(dm, cur)
    BY <1>2, <1>3, TidsAssumption DEF Announced
<1> QED BY <1>2, <1>3, <1>4 DEF Roused, Resumed, Between

\* Every path that stops a thread also resumes it: when the client holds no
\* event, none is on its way, no signal is stored and no pause was asked for,
\* every thread of the process runs (NobodyForgotten), whatever happened before.
THEOREM NobodyLeft ==
    ASSUME LeaderFirst, "suspend" \notin Client
    PROVE  Spec => []NobodyForgotten
<1> DEFINE I == IInv /\ Agree /\ Balanced /\ Roused
<1>1. Init => I
    BY InitBalanced, InitRoused
<1>2. I /\ [Next]_vars => I'
    BY NextIInv, NextAgree, NextBalanced, NextRoused
<1>3. I => NobodyForgotten
  <2> SUFFICES ASSUME I, pc = "idle", ~dm.in_event, ~dm.exited, ~HasPendingEvents(dm),
                      ~dm.requested_to_suspend, NEW t \in dm.threads
               PROVE  dm.state[t] = "RUNNING"
    BY DEF NobodyForgotten
  <2>1. dm.events = << >> /\ Retrievable(dm) = {}
    BY DEF HasPendingEvents
  <2>2. Level(dm, 0) /\ Announced(dm, cur) /\ Resumed /\ dm.threads \in SUBSET Tids
        /\ \A u \in Tids : dm.suspend_count[u] \in Nat
    BY <2>1, AgreeFacts DEF Balanced, Roused, Base, Good, Typed
  <2>3. \A u \in dm.threads : dm.user_suspend[u] = 0 /\ dm.suspend_count[u] = 0
    <3> TAKE u \in dm.threads
    <3>1. dm.user_suspend[u] = 0 /\ dm.suspend_count[u] <= dm.user_suspend[u] + 0 /\ dm.suspend_count[u] \in Nat
      BY <2>2 DEF Level, Announced
    <3> QED BY <3>1
  <2>4. \A u \in dm.threads : dm.pending_status[u] = None
    BY <2>1, <2>3 DEF Retrievable
  <2>5. Between(dm)
    BY <2>1, <2>4 DEF Between
  <2> QED BY <2>2, <2>5 DEF Resumed
<1> QED BY <1>1, <1>2, <1>3, PTL DEF Spec

-----------------------------------------------------------------------------
(* Detaching: the signals of a task *)

\* A task has one signal of the application to take at most. A stopped task that has
\* one has no SIGSTOP to take as well, and what it stopped with, if waitpid has not
\* told it yet, is a SIGSTOP.
Lone(ta, st, sg, t) ==
    /\ \A r, s \in sg[t] \ {"SIGSTOP"} : r = s
    /\ ta[t] = "stop" => \/ sg[t] \subseteq {"SIGSTOP"}
                         \/ "SIGSTOP" \notin sg[t] /\ st[t] \in {None, "SIGSTOP"}

\* Of every task, wherever the server is.
Lonely == \A t \in Tids : Lone(task, wstat, sigs, t)

\* The kernel does nothing.
LEMMA SameLonely ==
    ASSUME Lonely, task' = task, wstat' = wstat, sigs' = sigs
    PROVE  Lonely'
BY DEF Lonely, Lone

\* PTRACE_CONT and PTRACE_SINGLESTEP.
LEMMA RestartLonely ==
    ASSUME IInv, Lonely, NEW S, Restart(S)
    PROVE  Lonely'
BY DEF Lonely, Lone, Restart, IInv, KernelTyped

\* dbg_thaw_threads.
LEMMA ThawLonely ==
    ASSUME IInv, Lonely, NEW m, NEW S, DoThaw(m, S, "idle")
    PROVE  Lonely'
BY RestartLonely, SameLonely DEF DoThaw, Interr, kernel

\* The label RESUME.
LEMMA ResumeLonely ==
    ASSUME IInv, Lonely, NEW m, Resume(m)
    PROVE  Lonely'
<1>1. CASE ResumeApp(m)
    BY <1>1, ThawLonely DEF ResumeApp
<1>2. CASE Return(Enqueue(m, Ev("PROCESS_SUSPEND", job.tid)))
    BY <1>2, SameLonely DEF Return, kernel
<1> QED BY <1>1, <1>2 DEF Resume

\* waitpid, and SIGSTOPs for tasks that run or have stopped by themselves.
LEMMA SendLonely ==
    ASSUME IInv, Lonely, NEW Q,
           \A u \in Q : task[u] = "stop" => wstat[u] \notin {None, "SIGSTOP"},
           SendSigstop(Q),
           \/ task' = task /\ wstat' = wstat
           \/ \E t \in Tids, r \in BOOLEAN : Collect(t, r)
    PROVE  Lonely'
<1>1. ASSUME NEW u \in Tids
      PROVE  /\ task'[u] = "stop" => task[u] = "stop"
             /\ wstat'[u] = wstat[u] \/ wstat'[u] = None
    BY DEF Collect, IInv, KernelTyped
<1>2. ASSUME NEW u \in Tids
      PROVE  /\ sigs'[u] \subseteq sigs[u] \cup {"SIGSTOP"}
             /\ u \notin Q => sigs'[u] = sigs[u]
    BY DEF SendSigstop
<1>3. ASSUME NEW u \in Tids PROVE Lone(task', wstat', sigs', u)
  <2>1. Lone(task, wstat, sigs, u)
    BY DEF Lonely
  <2>2. \A r, s \in sigs'[u] \ {"SIGSTOP"} : r = s
    BY <1>2, <2>1 DEF Lone
  <2>3. ASSUME task'[u] = "stop"
        PROVE  \/ sigs'[u] \subseteq {"SIGSTOP"}
               \/ "SIGSTOP" \notin sigs'[u] /\ wstat'[u] \in {None, "SIGSTOP"}
    <3>1. CASE u \in Q
      <4>1. sigs[u] \subseteq {"SIGSTOP"}
        BY <1>1, <2>1, <2>3, <3>1 DEF Lone
      <4> QED BY <1>2, <4>1
    <3>2. CASE u \notin Q
      BY <1>1, <1>2, <2>1, <2>3, <3>2 DEF Lone
    <3> QED BY <3>1, <3>2
  <2> QED BY <2>2, <2>3 DEF Lone
<1> QED BY <1>3 DEF Lonely

\* A thread that runs as far as the server knows, and has stopped, did so by itself.
LEMMA RunningStops ==
    ASSUME IInv, Agree, Accounts, pc # "halt", NEW u \in Tids, u \in dm.threads,
           ~(pc = "newborn" /\ u = child[job.tid]),
           IsRunning(dm, u), Taken[u] = None, task[u] = "stop"
    PROVE  wstat[u] \notin {None, "SIGSTOP"}
<1>1. Known(dm, None, task, wstat, sigs, u)
    BY FitAt DEF Agree, IInv
<1>2. Owed(dm, None, wstat, sigs, u)
    BY DEF Accounts
<1>3. None \notin Exits /\ None # "CLONE"
    BY StatusFacts
<1> QED BY <1>1, <1>2, <1>3 DEF Known, Owed, IsRunning, Alive

-----------------------------------------------------------------------------
(* Detaching: who is sent a SIGSTOP *)

\* The threads of m that dbg_freeze_threads would send a SIGSTOP, but for t, ran before.
Ran(m, t) ==
    \A u \in m.threads : IsRunning(m, u) /\ u # t =>
        u \in dm.threads /\ IsRunning(dm, u) /\ Taken[u] = None /\ ~(pc = "newborn" /\ u = child[job.tid])

\* What the steps of dbg_get_debug_event and the requests have in common.
LEMMA QueueLonely ==
    ASSUME IInv, Agree, Accounts, Lonely, pc # "halt",
           NEW m, m.threads \in SUBSET Tids, NEW t, Ran(m, t), NEW Q,
           \A u \in Q : u \in m.threads /\ IsRunning(m, u) /\ u # t,
           SendSigstop(Q),
           \/ task' = task /\ wstat' = wstat
           \/ \E v \in Tids, r \in BOOLEAN : Collect(v, r)
    PROVE  Lonely'
<1>1. \A u \in Q : task[u] = "stop" => wstat[u] \notin {None, "SIGSTOP"}
    BY RunningStops DEF Ran
<1> QED BY <1>1, SendLonely

\* The freeze for an event sends its SIGSTOPs to threads that run.
LEMMA BeginQueue ==
    ASSUME Agree, pc \in {"poll", "newborn"}, NEW m, Good(m), NEW t \in Tids, NEW s, NEW r,
           BeginEvent(m, t, s, r)
    PROVE  \A u \in queue' : u \in m.threads /\ IsRunning(m, u) /\ u # t
<1> DEFINE k == MarkStopped(m, t)
<1>1. CASE queue' = queue
    BY <1>1 DEF Agree
<1>2. CASE queue' = FreezeSet(k, Tids)
  <2>1. /\ k.threads = m.threads /\ k.waiting_sigstop = m.waiting_sigstop
        /\ k.pending_status = m.pending_status
        /\ k.state[t] = "STOPPED" /\ \A u \in Tids : u # t => k.state[u] = m.state[u]
    BY DEF MarkStopped, Good, Shaped, Typed, Fields
  <2>2. m.threads \in SUBSET Tids
    BY DEF Good, Typed
  <2> HIDE DEF k
  <2> QED BY <1>2, <2>1, <2>2 DEF FreezeSet, IsRunning
<1> QED BY <1>1, <1>2 DEF BeginEvent, StartFreeze, MarkStopped

\* So does a step that takes a status.
LEMMA TakeQueue ==
    ASSUME IInv, Agree, pc = "poll", NEW m, Good(m), m.seen_threads \cap m.threads = {},
           NEW t \in Tids, NEW s, TakeStatus(m, t, s)
    PROVE  \A u \in queue' : u \in m.threads /\ IsRunning(m, u) /\ u # t
<1>1. child[t] \in Tids
    BY DEF IInv, KernelTyped
<1>2. CASE Newborn(m, t, s)
    BY <1>2 DEF Newborn, Agree
<1>3. CASE BeginEvent(m, t, s, FALSE)
    BY <1>3, BeginQueue
<1>4. CASE child[t] \in m.seen_threads /\ BeginEvent(SeenNewborn(m, t), t, s, TRUE)
  <2>0. child[t] \notin m.threads
    BY <1>4
  <2> DEFINE k == SeenNewborn(m, t)
  <2>1. Good(k) /\ \A u \in k.threads : IsRunning(k, u) => u \in m.threads /\ IsRunning(m, u)
    <3> DEFINE u == child[t]
    <3>1. /\ Good(k) /\ k.threads = m.threads \cup {u}
          /\ \A v \in Tids :
                /\ k.state[v] = IF v = u THEN "STOPPED" ELSE m.state[v]
                /\ k.pending_status[v] = IF v = u THEN None ELSE m.pending_status[v]
                /\ v # u => k.waiting_sigstop[v] = m.waiting_sigstop[v]
      <4> HIDE DEF k
      <4> QED BY <1>1, <2>0, SeenNewbornFields DEF k
    <3>2. k.threads \in SUBSET Tids
      BY <3>1 DEF Good, Typed
    <3> HIDE DEF k, u
    <3> QED BY <3>1, <3>2 DEF IsRunning
  <2> HIDE DEF k
  <2>2. \A u \in queue' : u \in k.threads /\ IsRunning(k, u) /\ u # t
    BY <1>4, <2>1, BeginQueue DEF k
  <2> QED BY <2>1, <2>2
<1> QED BY <1>2, <1>3, <1>4 DEF TakeStatus

\* dbg_get_debug_event.
LEMMA PollLonely ==
    ASSUME IInv, Agree, Accounts, Lonely, Poll
    PROVE  Lonely'
<1>0. Good(dm) /\ dm.threads \in SUBSET Tids /\ dm.seen_threads \cap dm.threads = {}
    BY AgreeFacts DEF IInv, Good, Typed, Agree, Fit
<1>1. CASE Deliver \/ PollNothing
    BY <1>1, SameLonely DEF Deliver, PollNothing, kernel
<1>2. ASSUME pc = "poll" PROVE \A u \in Tids : Taken[u] = None
    BY <1>2 DEF Taken
<1>3. CASE PollPending
  <2>1. PICK t \in PendingChoice(dm) : TakeStatus(TakePending(dm, t), t, dm.pending_status[t])
    BY <1>3 DEF PollPending
  <2> DEFINE m == TakePending(dm, t)
  <2>2. t \in Flagged(dm) /\ t \in Tids /\ pc = "poll"
    BY <1>0, <1>3, <2>1 DEF PendingChoice, Retrievable, Flagged, PollPending
  <2>3. /\ Good(m) /\ m.threads = dm.threads /\ m.state = dm.state /\ m.seen_threads = dm.seen_threads
        /\ m.waiting_sigstop = dm.waiting_sigstop
        /\ \A u \in Tids : m.pending_status[u] = IF u = t THEN None ELSE dm.pending_status[u]
    BY <1>0, <2>2, TakePendingFields
  <2> HIDE DEF m
  <2>4. Ran(m, t)
    BY <1>0, <1>2, <2>2, <2>3 DEF Ran, IsRunning
  <2>5. \A u \in queue' : u \in m.threads /\ IsRunning(m, u) /\ u # t
    BY <1>0, <2>1, <2>2, <2>3, TakeQueue DEF m
  <2>6. SendSigstop(queue') /\ task' = task /\ wstat' = wstat
    BY <1>3 DEF PollPending
  <2> QED BY <1>0, <2>2, <2>3, <2>4, <2>5, <2>6, QueueLonely
<1>4. CASE NewbornStatus
  <2>1. CASE Interr(1200)
    BY <2>1, SameLonely DEF Interr, kernel
  <2>2. CASE NewbornStopped
    <3> DEFINE u == child[job.tid]
               m == Born(dm, u, wstat[u])
               n == EnqueueFront(m, Ev("THREAD_START", u))
    <3>1. /\ pc = "newborn" /\ u \in Tids /\ job.tid \in Tids /\ u \in dm.threads
          /\ dm.state[u] = "STOPPED" /\ ~dm.waiting_sigstop[u] /\ dm.pending_status[u] = None
          /\ wstat[u] \in Status
      BY <2>2, AgreeFacts DEF NewbornStopped, Reportable, IInv, ServerTyped, KernelTyped, Jobs, Birth
    <3>2. BeginEvent(n, job.tid, job.status, TRUE) /\ Collect(u, FALSE) /\ SendSigstop(queue')
      BY <2>2 DEF NewbornStopped, Born
    <3>3. /\ Good(m) /\ m.threads = dm.threads /\ m.state = dm.state
          /\ \A v \in Tids : v # u => /\ m.waiting_sigstop[v] = dm.waiting_sigstop[v]
                                     /\ m.pending_status[v] = dm.pending_status[v]
      <4> HIDE DEF m, u
      <4>1. Good(dm)
        BY <1>0
      <4> QED BY <3>1, <4>1, BornFields DEF m
    <3>4. Good(n) /\ n.threads = m.threads /\ n.state = m.state
          /\ n.waiting_sigstop = m.waiting_sigstop /\ n.pending_status = m.pending_status
      <4> HIDE DEF m, n, u
      <4> QED BY <3>1, <3>3, FrontFields DEF n, Fields
    <3> HIDE DEF n, m, u
    <3>5. \A v \in Tids : v # u /\ v # job.tid => Taken[v] = None
      BY <3>1 DEF Taken, u
    <3>6. ~IsRunning(n, u)
      BY <3>1, <3>3, <3>4 DEF IsRunning
    <3>7. Ran(n, job.tid)
      BY <1>0, <3>1, <3>3, <3>4, <3>5, <3>6 DEF Ran, IsRunning, u
    <3>8. \A v \in queue' : v \in n.threads /\ IsRunning(n, v) /\ v # job.tid
      BY <3>1, <3>2, <3>4, BeginQueue
    <3>9. \E v \in Tids, r \in BOOLEAN : Collect(v, r)
      BY <3>1, <3>2
    <3> QED BY <1>0, <3>1, <3>2, <3>3, <3>4, <3>7, <3>8, <3>9, QueueLonely
  <2> QED BY <1>4, <2>1, <2>2 DEF NewbornStatus
<1>5. ASSUME NEW t \in Tids, PollStatus(t) PROVE Lonely'
  <2>1. pc = "poll" /\ Collect(t, t \in Deleted(dm) \ dm.threads) /\ SendSigstop(queue')
    BY <1>5 DEF PollStatus
  <2>2. Ran(dm, t)
    BY <1>0, <1>2, <2>1 DEF Ran
  <2>3. \A u \in queue' : u \in dm.threads /\ IsRunning(dm, u) /\ u # t
    <3>1. CASE TakeStatus(dm, t, wstat[t])
      BY <1>0, <2>1, <3>1, TakeQueue
    <3>2. CASE queue' = queue
      BY <2>1, <3>2 DEF Agree
    <3> QED BY <1>5, <3>1, <3>2 DEF PollStatus
  <2>4. \E v \in Tids, r \in BOOLEAN : Collect(v, r)
    <3> DEFINE b == t \in Deleted(dm) \ dm.threads
    <3>1. b \in BOOLEAN /\ Collect(t, b)
      BY <2>1
    <3> HIDE DEF b
    <3> QED BY <3>1
  <2> QED BY <1>0, <2>1, <2>2, <2>3, <2>4, QueueLonely
<1> QED BY <1>1, <1>3, <1>4, <1>5 DEF Poll

-----------------------------------------------------------------------------
(* Detaching: the other steps *)

\* The waiting loop of dbg_freeze_threads.
LEMMA WaitLonely ==
    ASSUME IInv, Lonely, Wait
    PROVE  Lonely'
<1>1. CASE FreezePoll
    BY <1>1, SameLonely DEF FreezePoll, vars, kernel
<1>2. ASSUME NEW t \in Tids, FreezeStatus(t) PROVE Lonely'
  <2> DEFINE b == t \in Deleted(dm) \ dm.threads
  <2>1. b \in BOOLEAN /\ Collect(t, b) /\ sigs' = sigs
    BY <1>2 DEF FreezeStatus
  <2>2. SendSigstop({})
    BY <2>1 DEF SendSigstop, IInv, KernelTyped
  <2> HIDE DEF b
  <2> QED BY <2>1, <2>2, SendLonely
<1> QED BY <1>1, <1>2 DEF Wait

\* What follows a freeze.
LEMMA FinishLonely ==
    ASSUME IInv, Lonely, Finish
    PROVE  Lonely'
<1>1. CASE EventReady \/ ProcessExit \/ ThreadExit \/ ThreadSuspended
    BY <1>1, SameLonely DEF EventReady, ProcessExit, ThreadExit, ThreadSuspended, Return, Report, kernel
<1>2. CASE AwaitedSigstop
    BY <1>2, ResumeLonely DEF AwaitedSigstop
<1>3. CASE Trap
  <2>1. PICK m, e : Resume(m) \/ Report(m, e)
    BY <1>3 DEF Trap
  <2> QED BY <2>1, ResumeLonely, SameLonely DEF Report, Return, kernel
<1>4. CASE Signalled
  <2>1. PICK m, e : Resume(m) \/ Report(m, e)
    BY <1>4 DEF Signalled
  <2> QED BY <2>1, ResumeLonely, SameLonely DEF Report, Return, kernel
<1>5. CASE MemoryAccessed
    BY <1>5, ThawLonely DEF MemoryAccessed
<1>6. CASE ProcessKilled
    BY <1>6 DEF ProcessKilled, TakeDown, Lonely, Lone
<1> QED BY <1>1, <1>2, <1>3, <1>4, <1>5, <1>6 DEF Finish

\* The requests of the client, without dbg_prepare_to_pause_process.
LEMMA RequestLonely ==
    ASSUME "pause" \notin Client, IInv, Agree, Accounts, Lonely, Request
    PROVE  Lonely'
<1>0. Good(dm) /\ dm.threads \in SUBSET Tids
    BY DEF IInv, Good, Typed
<1>1. ASSUME pc = "idle", NEW S, NEW j, StartFreeze(dm, S, j), SendSigstop(queue'), task' = task, wstat' = wstat
      PROVE  Lonely'
  <2>1. \A u \in queue' : u \in dm.threads /\ IsRunning(dm, u)
    BY <1>1 DEF StartFreeze, FreezeSet
  <2>2. \A u \in Tids : Taken[u] = None
    BY <1>1 DEF Taken
  <2>3. Ran(dm, 0) /\ 0 \notin Tids
    BY <1>0, <1>1, <2>2, TidsAssumption DEF Ran
  <2>4. \A u \in queue' : u \in dm.threads /\ IsRunning(dm, u) /\ u # 0
    BY <1>0, <2>1, <2>3
  <2> QED BY <1>0, <1>1, <2>3, <2>4, QueueLonely
<1>2. CASE AccessMemory
    BY <1>1, <1>2 DEF AccessMemory
<1>3. CASE ExitProcess
    BY <1>1, <1>3 DEF ExitProcess
<1>4. ASSUME NEW t \in Tids, ThreadSuspend(t) PROVE Lonely'
    BY <1>1, <1>4 DEF ThreadSuspend
<1>5. ASSUME NEW t \in Tids, ThreadContinue(t) PROVE Lonely'
    BY <1>5, ThawLonely, SameLonely DEF ThreadContinue, kernel
<1>6. ASSUME NEW t \in Tids, SetResumeMode(t) PROVE Lonely'
    BY <1>6, SameLonely DEF SetResumeMode, kernel
<1>7. ~PrepareToPause
    BY DEF PrepareToPause
<1> QED BY <1>2, <1>3, <1>4, <1>5, <1>6, <1>7 DEF Request

\* The kernel and the process.
LEMMA ProcessLonely ==
    ASSUME IInv, Lonely, Signal \/ Process
    PROVE  Lonely'
<1>0. /\ task \in [Tids -> {"none", "run", "stop", "zombie", "gone"}]
      /\ wstat \in [Tids -> Status \cup {None}]
      /\ sigs \in [Tids -> SUBSET (Signals \cup {"SIGSTOP"})]
    BY DEF IInv, KernelTyped
<1>1. ASSUME NEW t \in Tids, NEW s, TakeSignal(t, s) PROVE Lonely'
  <2>1. ASSUME NEW u \in Tids PROVE Lone(task', wstat', sigs', u)
    <3>1. CASE u # t
      BY <1>0, <1>1, <3>1 DEF Lonely, Lone, TakeSignal, StopTask
    <3>2. CASE u = t
      <4>1. sigs'[t] = sigs[t] \ {s} /\ wstat'[t] = s /\ s \in sigs[t]
        BY <1>0, <1>1 DEF TakeSignal, StopTask
      <4>2. \A r, v \in sigs[t] \ {"SIGSTOP"} : r = v
        BY DEF Lonely, Lone
      <4> QED BY <3>2, <4>1, <4>2 DEF Lone
    <3> QED BY <3>1, <3>2
  <2> QED BY <2>1 DEF Lonely
<1>2. ASSUME NEW t \in Tids, HitTrap(t) PROVE Lonely'
    BY <1>0, <1>2 DEF HitTrap, InUserMode, StopTask, Lonely, Lone
<1>3. ASSUME NEW t \in Tids, ExitThread(t) PROVE Lonely'
    BY <1>0, <1>3, ZenonT(40) DEF ExitThread, Lonely, Lone
<1>4. CASE Killed \/ \E t \in Tids : ExitGroup(t)
    BY <1>4 DEF Killed, ExitGroup, TakeDown, Lonely, Lone
<1>5. ASSUME NEW t \in Tids, NEW s \in Signals, RaiseSignal(t, s) PROVE Lonely'
    BY <1>0, <1>5 DEF RaiseSignal, InUserMode, Lonely, Lone
<1>6. ASSUME NEW t \in Tids, NEW u \in Tids, Clone(t, u) PROVE Lonely'
    BY <1>0, <1>6 DEF Clone, InUserMode, Lonely, Lone
<1> QED BY <1>1, <1>2, <1>3, <1>4, <1>5, <1>6 DEF Signal, Process

\* Every step.
LEMMA NextLonely ==
    ASSUME "pause" \notin Client, IInv, Agree, Accounts, Lonely, [Next]_vars
    PROVE  Lonely'
<1>1. CASE UNCHANGED vars \/ Over \/ GetDebugEvent
    BY <1>1, SameLonely DEF Over, GetDebugEvent, vars, kernel
<1>2. CASE ContinueAfterEvent
  <2>1. PICK m : ResumeApp(m) \/ UNCHANGED vars
    BY <1>2 DEF ContinueAfterEvent
  <2> QED BY <2>1, ThawLonely, SameLonely DEF ResumeApp, vars, kernel
<1> QED BY <1>1, <1>2, PollLonely, WaitLonely, FinishLonely, RequestLonely, ProcessLonely DEF Next

-----------------------------------------------------------------------------
(* Detaching: from cleanup_signals to the release *)

\* Threads of the table during cleanup_signals: the ones that are not waited for, or
\* no more, stay where they are; the one that was continued has a SIGSTOP to take,
\* and so have those that are to be continued.
Cleaned(t) ==
    Alive(task, t) =>
        IF t \notin queue THEN task[t] = "stop" /\ "SIGSTOP" \notin sigs[t]
        ELSE IF job.ready /\ job.tid = t
             THEN \/ task[t] = "run" /\ sigs[t] = {"SIGSTOP"}
                  \/ task[t] = "stop" /\ "SIGSTOP" \notin sigs[t]
             ELSE dm.state[t] = "STOPPED" => task[t] = "stop" /\ sigs[t] = {"SIGSTOP"}

\* The clone event that tells of the new task t is stored, or the thread it is stored
\* for is one that QASSERT 30181 will find.
Foretold(t) ==
    \E p \in Tids : /\ child[p] = t /\ p # t
                    /\ dm.pending_status[p] = "CLONE" \/ (p \in queue /\ dm.state[p] # "STOPPED")

\* No task is in user mode.
Suspended == \A t \in Tids : task[t] = "run" => wstat[t] = None /\ "SIGSTOP" \in sigs[t]

\* While cleanup_signals runs.
Cleaning ==
    /\ pc = "cleanup" /\ freed = {}
    /\ KernelTyped /\ Good(dm) /\ dm.threads \in SUBSET Tids
    /\ dm.process_handle # 0
    /\ queue \in SUBSET dm.threads /\ job \in Jobs
    /\ job.ready => job.tid \in queue /\ dm.state[job.tid] = "STOPPED"
    /\ \A t \in dm.threads : Cleaned(t)
    /\ \A t \in Tids \ dm.threads : Alive(task, t) => Foretold(t)
    /\ Suspended

\* Before the client detaches.
Attached ==
    /\ pc \notin {"cleanup", "detached"} /\ freed = {}
    /\ IInv /\ Agree /\ Accounts /\ Lonely
    /\ dm.process_handle # 0 \/ dm.exited

\* QASSERT 30181 has failed.
Stuck == pc = "halt" /\ freed = {}

\* The steps of the engine, until the client detaches.
LEMMA NextAttached ==
    ASSUME "pause" \notin Client, Attached, [Next]_vars, freed' = freed
    PROVE  Attached'
<1>1. LeaderFirst
    BY DEF LeaderFirst
<1>2. IInv' /\ Agree' /\ Accounts' /\ Lonely'
    BY <1>1, NextIInv, NextAgree, NextAccounts, NextLonely DEF Attached
<1>3. pc' \notin {"cleanup", "detached"}
    BY <1>2 DEF IInv, ServerTyped
<1>4. dm'.process_handle # 0 \/ dm'.exited
    BY ExitedStays DEF Attached, Persists
<1> QED BY <1>2, <1>3, <1>4 DEF Attached

\* Without the server only the kernel and the process take steps.
LEMMA OnlyProcess ==
    ASSUME pc \in {"cleanup", "halt"}, Next
    PROVE  /\ dm' = dm /\ pc' = pc /\ job' = job /\ queue' = queue
           /\ UNCHANGED vars \/ Signal \/ Process
<1>1. ~Finish
    BY DEF Finish, EventReady, AwaitedSigstop, Trap, Signalled, ProcessExit, ThreadExit, MemoryAccessed,
           ThreadSuspended, ProcessKilled, Frozen
<1>2. ~Poll
    BY ZenonT(40) DEF Poll, Deliver, PollPending, PollNothing, NewbornStatus, NewbornStopped, PollStatus
<1>3. ~Wait
    BY DEF Wait, FreezePoll, FreezeStatus
<1>4. ~Request
    BY DEF Request, AccessMemory, PrepareToPause, ExitProcess, ThreadSuspend, ThreadContinue, SetResumeMode
<1>5. ~GetDebugEvent /\ ~ContinueAfterEvent
    BY DEF GetDebugEvent, ContinueAfterEvent
<1>6. CASE Over
    BY <1>6 DEF Over, vars
<1>7. CASE Signal \/ Process
    BY <1>7 DEF Signal, Process, TakeSignal, HitTrap, ExitThread, ExitGroup, RaiseSignal, Clone, Killed,
                ServerUnchanged
<1> QED BY <1>1, <1>2, <1>3, <1>4, <1>5, <1>6, <1>7 DEF Next

\* The client detaches: what the invariants of the engine say then.
LEMMA StartCleaning ==
    ASSUME Attached, StartDetach
    PROVE  Cleaning'
<1>0. /\ pc = "idle" /\ dm.in_event /\ ~dm.exited
      /\ queue' = OwesStop(dm) /\ pc' = "cleanup" /\ job' = Idle
      /\ dm' = dm /\ task' = task /\ sigs' = sigs /\ wstat' = wstat /\ stopsig' = stopsig
      /\ child' = child /\ freed' = freed
    BY DEF StartDetach, kernel
<1>1. /\ Good(dm) /\ dm.threads \in SUBSET Tids /\ KernelTyped /\ dm.process_handle # 0 /\ freed = {}
      /\ Tables(task, wstat, sigs, child)
    BY <1>0, AgreeFacts DEF Attached, IInv, Good, Typed
<1>2. \A t \in Tids : Taken[t] = None
    BY <1>0 DEF Taken
<1>3. ASSUME NEW t \in Tids
      PROVE  /\ Known(dm, None, task, wstat, sigs, t) /\ Unseen(dm, task, wstat, sigs, t)
             /\ Owed(dm, None, wstat, sigs, t) /\ Lone(task, wstat, sigs, t)
             /\ dm.waiting_sigstop[t] \in BOOLEAN
             /\ dm.state[t] \in {"RUNNING", "STOPPED", "DEAD"}
    BY <1>0, <1>1, <1>2, FitAt DEF Attached, Agree, Accounts, Lonely
<1>4. Kernel(task, wstat, sigs, child) /\ Clones(dm, task, wstat, child)
    BY DEF Attached, Agree, Fit
<1>5. \A t \in dm.threads : Alive(task, t) => ~IsRunning(dm, t)
    BY <1>0, <1>1 DEF Attached, Agree, Hushed, Quiet, Down
<1>6. None \notin Exits /\ None \notin Stops /\ "CLONE" # None /\ "CLONE" # "SIGSTOP" /\ None # "SIGSTOP"
    BY StatusFacts
<1>7. Suspended
  <2>1. ASSUME NEW t \in Tids, task[t] = "run" PROVE wstat[t] = None /\ "SIGSTOP" \in sigs[t]
    <3>1. wstat[t] = None
      BY <1>4, <2>1 DEF Kernel
    <3>2. CASE t \in dm.threads
      BY <1>3, <1>5, <1>6, <2>1, <3>1, <3>2 DEF Known, Alive, IsRunning
    <3>3. CASE t \notin dm.threads
      <4>1. Unseen(dm, task, wstat, sigs, t)
        BY <1>3, <2>1
      <4>2. sigs[t] = {"SIGSTOP"}
        BY <2>1, <3>3, <4>1 DEF Unseen, Alive
      <4> QED BY <3>1, <4>2
    <3> QED BY <3>1, <3>2, <3>3
  <2> QED BY <2>1 DEF Suspended
<1>8. ASSUME NEW t \in dm.threads PROVE Cleaned(t)'
  <2>0. t \in Tids
    BY <1>1
  <2>1. SUFFICES ASSUME Alive(task, t)
                 PROVE  IF ~dm.waiting_sigstop[t] THEN task[t] = "stop" /\ "SIGSTOP" \notin sigs[t]
                        ELSE dm.state[t] = "STOPPED" => task[t] = "stop" /\ sigs[t] = {"SIGSTOP"}
    BY <1>0 DEF Cleaned, OwesStop, Idle, Job, Alive
  <2>2. CASE ~dm.waiting_sigstop[t]
    BY <1>3, <1>5, <1>6, <2>0, <2>1, <2>2 DEF Known, Owed, IsRunning
  <2>3. CASE dm.waiting_sigstop[t] /\ dm.state[t] = "STOPPED"
    <3>1. task[t] = "stop" /\ wstat[t] = None
      BY <1>3, <1>6, <2>0, <2>1, <2>3 DEF Known
    <3>2. "SIGSTOP" \in sigs[t]
      BY <1>3, <1>6, <2>0, <2>1, <2>3, <3>1 DEF Known
    <3>3. sigs[t] = {"SIGSTOP"}
      BY <1>3, <2>0, <3>1, <3>2 DEF Lone
    <3> QED BY <2>3, <3>1, <3>3
  <2> QED BY <2>2, <2>3
<1>9. ASSUME NEW t \in Tids \ dm.threads, Alive(task, t) PROVE Foretold(t)'
  <2>1. PICK p \in Tids : OpenClone(dm, task, wstat, p) /\ child[p] = t
    BY <1>4, <1>9 DEF Clones
  <2>2. p \in dm.threads /\ Alive(task, p) /\ "CLONE" \in {wstat[p], dm.pending_status[p]} /\ p # t
    BY <1>9, <2>1 DEF OpenClone
  <2>3. CASE dm.pending_status[p] = "CLONE"
    BY <1>0, <2>1, <2>2, <2>3 DEF Foretold
  <2>4. CASE wstat[p] = "CLONE"
    <3>1. dm.state[p] # "STOPPED" /\ dm.pending_status[p] = None
      BY <1>3, <1>6, <2>1, <2>2, <2>4 DEF Known
    <3>2. dm.waiting_sigstop[p]
      BY <1>3, <1>5, <1>6, <2>1, <2>2, <3>1 DEF Known, IsRunning
    <3>3. p \in queue'
      BY <1>0, <2>2, <3>2 DEF OwesStop
    <3> QED BY <1>0, <2>1, <2>2, <3>1, <3>3 DEF Foretold
  <2> QED BY <2>2, <2>3, <2>4
<1>10. Suspended' /\ KernelTyped'
    BY <1>0, <1>1, <1>7 DEF Suspended, KernelTyped
<1>11. queue' \in SUBSET dm.threads /\ ~job'.ready /\ job' \in Jobs
    <2>1. None \in Status \cup {None} /\ Main \in Tids
      BY TidsAssumption
    <2> QED BY <1>0, <2>1 DEF OwesStop, Idle, Job, Jobs
<1>12. \A t : Alive(task', t) = Alive(task, t)
    BY <1>0 DEF Alive
<1> QED BY <1>0, <1>1, <1>8, <1>9, <1>10, <1>11, <1>12 DEF Cleaning

\* The types.
LEMMA CleaningFacts ==
    ASSUME Cleaning
    PROVE  /\ pc = "cleanup" /\ freed = {}
           /\ task \in [Tids -> {"none", "run", "stop", "zombie", "gone"}]
           /\ sigs \in [Tids -> SUBSET (Signals \cup {"SIGSTOP"})]
           /\ wstat \in [Tids -> Status \cup {None}]
           /\ stopsig \in [Tids -> Stops \cup {None}]
           /\ child \in [Tids -> Tids]
           /\ queue \in SUBSET Tids /\ job \in Jobs
BY DEF Cleaning, KernelTyped

\* The first thread of the queue is continued, to take its SIGSTOP; or QASSERT 30181
\* stops the server.
LEMMA ContinueCleaning ==
    ASSUME Cleaning, CleanupContinue
    PROVE  Cleaning' \/ Stuck'
<1>0. /\ queue # {} /\ ~job.ready /\ dm' = dm /\ queue' = queue /\ freed' = freed
    BY DEF CleanupContinue
<1>1. CASE dm.state[First(queue)] # "STOPPED"
    BY <1>0, <1>1, CleaningFacts DEF CleanupContinue, Stuck
<1>2. CASE dm.state[First(queue)] = "STOPPED"
  <2>1. PICK f : f = First(queue)
    OBVIOUS
  <2>2. f \in queue
    BY <1>0, <2>1, FirstTid, CleaningFacts DEF First
  <2>3. /\ job' = [job EXCEPT !.tid = f, !.ready = TRUE] /\ pc' = pc
        /\ Restart({f} \cap {u \in Tids : task[u] = "stop"})
    BY <1>2, <2>1 DEF CleanupContinue
  <2>4. ASSUME NEW u \in Tids
        PROVE  /\ sigs'[u] = sigs[u] /\ child' = child
               /\ u # f \/ task[u] # "stop" => task'[u] = task[u] /\ wstat'[u] = wstat[u]
               /\ u = f /\ task[u] = "stop" => task'[u] = "run" /\ wstat'[u] = None
    BY <2>3 DEF Restart
  <2>5. KernelTyped'
    <3>1. None \in Status \cup {None} /\ None \in Stops \cup {None}
      OBVIOUS
    <3> QED BY <2>3, <3>1 DEF Restart, KernelTyped, Cleaning
  <2>6. job'.ready /\ job'.tid = f /\ job' \in Jobs /\ f \in Tids
    <3>1. f \in Tids
      BY <2>2, CleaningFacts
    <3> QED BY <2>3, <3>1, CleaningFacts DEF Jobs
  <2>7. task[f] = "stop" => sigs[f] = {"SIGSTOP"}
    BY <1>0, <1>2, <2>1, <2>2 DEF Cleaning, Cleaned, Alive
  <2>8. ASSUME NEW t \in dm.threads PROVE Cleaned(t)'
    <3>1. t \in Tids /\ Cleaned(t)
      BY DEF Cleaning
    <3>2. CASE t = f
      <4>1. Alive(task', f) => task[f] = "stop"
        BY <1>0, <1>2, <2>1, <2>2, <2>4, <2>6, <3>1, <3>2 DEF Cleaned, Alive
      <4>2. Alive(task', f) => task'[f] = "run" /\ sigs'[f] = {"SIGSTOP"}
        BY <2>4, <2>6, <2>7, <4>1
      <4> QED BY <1>0, <2>2, <2>6, <3>2, <4>2 DEF Cleaned
    <3>3. CASE t # f
      BY <1>0, <2>4, <2>6, <3>1, <3>3 DEF Cleaned, Alive
    <3> QED BY <3>2, <3>3
  <2>9. ASSUME NEW t \in Tids \ dm.threads, Alive(task, t)' PROVE Foretold(t)'
    <3>1. Foretold(t)
      BY <2>4, <2>9 DEF Cleaning, Alive
    <3> QED BY <1>0, <2>4, <2>6, <3>1 DEF Foretold
  <2>10. Suspended'
    BY <2>4, <2>7 DEF Suspended, Cleaning
  <2>11. \A t : Alive(task, t)' = Alive(task', t)
    BY DEF Alive
  <2> QED BY <1>0, <1>2, <2>1, <2>2, <2>3, <2>5, <2>6, <2>8, <2>9, <2>10 DEF Cleaning
<1> QED BY <1>1, <1>2

\* What the thread reports is consumed: the SIGSTOP it was sent, or its end.
LEMMA SignalCleaning ==
    ASSUME Cleaning, CleanupSignal
    PROVE  Cleaning'
<1>1. PICK f : f = job.tid
    OBVIOUS
<1>2. /\ job.ready /\ f \in queue /\ f \in Tids /\ dm.state[f] = "STOPPED" /\ wstat[f] # None
      /\ Collect(f, FALSE) /\ queue' = queue \ {f} /\ job' = Idle
      /\ dm' = dm /\ pc' = pc /\ sigs' = sigs /\ child' = child /\ freed' = freed /\ stopsig' = stopsig
    BY <1>1, CleaningFacts DEF CleanupSignal, Reportable, Collect, Cleaning
<1>3. task[f] # "run"
    BY <1>2 DEF Cleaning, Suspended
<1>4. ASSUME NEW u \in Tids
      PROVE  /\ Alive(task', u) => Alive(task, u) /\ task'[u] = task[u]
             /\ wstat'[u] = wstat[u] \/ task'[u] # "run"
    BY <1>2, <1>3, CleaningFacts DEF Collect, Alive
<1>5. KernelTyped'
    BY <1>2 DEF Collect, KernelTyped, Cleaning
<1>6. ~job'.ready /\ job' \in Jobs
    <2>1. None \in Status \cup {None} /\ Main \in Tids
      BY TidsAssumption
    <2> QED BY <1>2, <2>1 DEF Idle, Job, Jobs
<1>7. ASSUME NEW t \in dm.threads, Alive(task', t) PROVE Cleaned(t)'
    <2>1. t \in Tids /\ Cleaned(t) /\ Alive(task, t) /\ task'[t] = task[t]
      BY <1>4, <1>7 DEF Cleaning
    <2>2. CASE t = f
      BY <1>1, <1>2, <1>3, <2>1, <2>2 DEF Cleaned, Alive
    <2>3. CASE t # f
      BY <1>1, <1>2, <1>6, <2>1, <2>3 DEF Cleaned, Alive
    <2> QED BY <2>2, <2>3
<1>8. ASSUME NEW t \in Tids \ dm.threads, Alive(task', t) PROVE Foretold(t)'
    <2>1. Foretold(t)
      BY <1>4, <1>8 DEF Cleaning
    <2> QED BY <1>2, <2>1 DEF Foretold
<1>9. Suspended'
    BY <1>2, <1>3, <1>4 DEF Suspended, Cleaning, Alive
<1>10. \A t \in dm.threads : Cleaned(t)'
    BY <1>7 DEF Cleaned
<1> QED BY <1>2, <1>5, <1>6, <1>8, <1>9, <1>10 DEF Cleaning

\* The kernel and the process while the server takes the SIGSTOPs in.
LEMMA ProcessCleaning ==
    ASSUME Cleaning, Next, freed' = freed
    PROVE  Cleaning'
<1>0. /\ dm' = dm /\ pc' = pc /\ job' = job /\ queue' = queue
      /\ UNCHANGED vars \/ Signal \/ Process
    BY OnlyProcess DEF Cleaning
<1>1. CASE UNCHANGED vars
    BY <1>0, <1>1 DEF vars, kernel, Cleaning, KernelTyped, Suspended, Cleaned, Foretold, Alive
<1>2. ASSUME NEW t \in Tids, NEW s \in Signals \cup {"SIGSTOP"}, TakeSignal(t, s) PROVE Cleaning'
  <2>1. /\ task[t] = "run" /\ s \in sigs[t] /\ task' = [task EXCEPT ![t] = "stop"]
        /\ wstat' = [wstat EXCEPT ![t] = s] /\ stopsig' = [stopsig EXCEPT ![t] = s]
        /\ sigs' = [sigs EXCEPT ![t] = @ \ {s}] /\ child' = child
    BY <1>2 DEF TakeSignal, StopTask
  <2>2. ASSUME NEW u \in Tids
        PROVE  /\ u # t => task'[u] = task[u] /\ wstat'[u] = wstat[u] /\ sigs'[u] = sigs[u]
               /\ u = t => task'[u] = "stop" /\ sigs'[u] = sigs[u] \ {s}
    BY <2>1, CleaningFacts
  <2>3. KernelTyped'
    <3>1. s \in Stops \cup {None} /\ s \in Status \cup {None}
      BY DEF Stops, Status
    <3> QED BY <2>1, <3>1, CleaningFacts DEF KernelTyped
  <2>4. Suspended'
    BY <2>2 DEF Cleaning, Suspended
  <2>5. ASSUME NEW u \in dm.threads PROVE Cleaned(u)'
    <3>1. u \in Tids /\ Cleaned(u)
      BY DEF Cleaning
    <3>2. CASE u # t
      BY <1>0, <2>2, <3>1, <3>2 DEF Cleaned, Alive
    <3>3. CASE u = t
      <4>1. Alive(task, t)
        BY <2>1 DEF Alive
      <4>2. \/ sigs[t] = {"SIGSTOP"} /\ t \in queue /\ job.ready /\ job.tid = t
            \/ t \in queue /\ ~(job.ready /\ job.tid = t) /\ dm.state[t] # "STOPPED"
        BY <2>1, <3>1, <3>3, <4>1 DEF Cleaned
      <4> QED BY <1>0, <2>1, <2>2, <3>1, <3>3, <4>2 DEF Cleaned
    <3> QED BY <3>2, <3>3
  <2>6. ASSUME NEW u \in Tids \ dm.threads, Alive(task, u)' PROVE Foretold(u)'
    <3>1. Alive(task, u)
      BY <2>1, <2>2, <2>6 DEF Alive
    <3>2. Foretold(u)
      BY <3>1 DEF Cleaning
    <3> QED BY <1>0, <2>1, <3>2 DEF Foretold
  <2> QED BY <1>0, <2>3, <2>4, <2>5, <2>6 DEF Cleaning
<1>3. CASE Process
  <2>1. \A t \in Tids : ~InUserMode(t)
    BY DEF Cleaning, Suspended, InUserMode
  <2>2. Killed
    BY <1>3, <2>1 DEF Process, HitTrap, ExitThread, ExitGroup, RaiseSignal, Clone
  <2>3. /\ \A t \in Tids : ~Alive(task', t)
        /\ \A t \in Tids : task'[t] # "run"
        /\ KernelTyped'
    <3>1. "SIGNALED" \in Status \cup {None} /\ None \in Stops \cup {None}
      BY DEF Status, Exits
    <3> QED BY <2>2, <3>1, CleaningFacts DEF Killed, TakeDown, Alive, KernelTyped
  <2> QED BY <1>0, <2>3 DEF Cleaning, Suspended, Cleaned, Alive
<1> QED BY <1>0, <1>1, <1>2, <1>3 DEF Signal

\* After dbg_detach_process.
Done == pc = "detached" /\ CleanRelease

\* The loop over the table: whatever it releases has no SIGSTOP to take, and a
\* task that is left has been told of by an event that is stored.
LEMMA DetachDone ==
    ASSUME Cleaning, DetachThreads
    PROVE  Done'
<1>1. /\ pc' = "detached" /\ freed' = Reached(dm) /\ sigs' = sigs /\ child' = child /\ queue = {}
      /\ task' = [t \in Tids |-> IF t \in Reached(dm) THEN "run" ELSE task[t]]
    BY DEF DetachThreads, Cleaning
<1>2. NoStopLeft'
  <2>1. ASSUME NEW t \in Reached(dm) PROVE "SIGSTOP" \notin sigs[t]
    <3>0. t \in dm.threads /\ t \in Tids /\ t \in Nat
      BY <2>1, TidsAssumption DEF Reached, Cleaning
    <3>1. t \in dm.threads /\ t \in Tids /\ task[t] = "stop" /\ t \notin queue
      BY <1>1, <2>1, <3>0 DEF Reached
    <3> QED BY <3>1 DEF Cleaning, Cleaned, Alive
  <2> QED BY <1>1, <2>1 DEF NoStopLeft
<1>3. OnlyUnseenStay'
  <2>1. SUFFICES ASSUME dm'.process_handle = 0, NEW t \in Tids, task'[t] \in {"run", "stop"}, t \notin freed'
                 PROVE  \E p \in Tids : child'[p] = t /\ p # t /\ dm'.pending_status[p] = "CLONE"
    BY DEF OnlyUnseenStay
  <2>2. \A u \in dm.threads : task[u] = "stop"
    BY <2>1 DEF DetachThreads, Cleaning
  <2>3. dm'.pending_status = dm.pending_status
    <3>1. Shaped(dm)
      BY DEF Cleaning, Good
    <3> QED BY <3>1 DEF DetachThreads, Shaped, Fields
  <2>4. t \notin dm.threads /\ Alive(task, t)
    BY <1>1, <2>1, <2>2 DEF Reached, Alive
  <2>5. Foretold(t)
    BY <2>4 DEF Cleaning
  <2> QED BY <1>1, <2>3, <2>5 DEF Foretold
<1> QED BY <1>1, <1>2, <1>3 DEF Done, CleanRelease

\* The process has just started.
LEMMA InitAttached == DetachInit => Attached
<1> SUFFICES ASSUME DetachInit
             PROVE  Attached
    OBVIOUS
<1>1. Init /\ freed = {}
    BY DEF DetachInit
<1>2. IInv /\ Agree /\ Accounts
    BY <1>1, InitAccounts
<1>3. Lonely
    BY <1>1 DEF Init, Lonely, Lone
<1>4. pc = "idle" /\ dm.process_handle # 0
    <2>1. PICK events : dm = Started(events)
      BY <1>1 DEF Init
    <2> QED BY <1>1, <2>1, TidsAssumption DEF Init, Started, NoProcess
<1> QED BY <1>1, <1>2, <1>3, <1>4 DEF Attached

\* linux_debmod.cpp:1906 (dbg_detach_process after cleanup_signals): a client that does
\* not pause the process leaves it as it was when it detaches, with no SIGSTOP of the
\* debugger's to take and with no task still traced but the new ones whose clone event
\* is still stored, whatever the process does meanwhile and when it is killed.
THEOREM ReleasesClean ==
    ASSUME "pause" \notin Client
    PROVE  DetachSpec => []CleanRelease
<1> DEFINE Inv == Attached \/ Cleaning \/ Stuck \/ Done
<1>1. DetachInit => Inv
    BY InitAttached
<1>2. ASSUME Inv, [DetachNext]_dvars PROVE Inv'
  <2>1. CASE Attached
    <3>1. CASE StartDetach
      BY <2>1, <3>1, StartCleaning
    <3>2. CASE [Next]_vars /\ freed' = freed
      BY <2>1, <3>2, NextAttached
    <3>3. pc # "cleanup" /\ pc # "detached"
      BY <2>1 DEF Attached
    <3>4. StartDetach \/ ([Next]_vars /\ freed' = freed)
      <4>1. ~CleanupContinue /\ ~CleanupSignal /\ ~CleanupWait /\ ~DetachThreads
        <5>1. pc # "cleanup"
          BY <3>3
        <5>2. ~CleanupContinue
          BY <5>1 DEF CleanupContinue, Restart, kernel
        <5>3. ~CleanupSignal /\ ~CleanupWait
          BY <5>1, Zenon DEF CleanupSignal, CleanupWait
        <5>4. ~DetachThreads
          BY <5>1, Zenon DEF DetachThreads
        <5> QED BY <5>2, <5>3, <5>4
      <4>2. CASE DetachNext
        BY <3>3, <4>1, <4>2 DEF DetachNext, Detach
      <4>3. CASE UNCHANGED dvars
        BY <4>3 DEF dvars
      <4> QED BY <1>2, <4>2, <4>3
    <3> QED BY <3>1, <3>2, <3>4
  <2>2. CASE Cleaning
    <3>1. CASE CleanupContinue \/ CleanupSignal \/ DetachThreads
      BY <2>2, <3>1, ContinueCleaning, SignalCleaning, DetachDone
    <3>2. CASE Next /\ UNCHANGED freed
      BY <2>2, <3>2, ProcessCleaning
    <3>3. CASE UNCHANGED dvars
      BY <2>2, <3>3 DEF dvars, vars, kernel, Cleaning, KernelTyped, Suspended, Cleaned, Foretold, Alive
    <3>4. pc = "cleanup"
      BY <2>2 DEF Cleaning
    <3> QED BY <1>2, <3>1, <3>2, <3>3, <3>4 DEF DetachNext, Detach, StartDetach, CleanupWait
  <2>3. CASE Stuck
    <3>1. pc = "halt"
      BY <2>3 DEF Stuck
    <3>2. CASE Next /\ UNCHANGED freed
      BY <2>3, <3>1, <3>2, OnlyProcess DEF Stuck
    <3>3. CASE UNCHANGED dvars
      BY <2>3, <3>3 DEF dvars, vars, Stuck
    <3> QED BY <1>2, <3>1, <3>2, <3>3
            DEF DetachNext, Detach, StartDetach, CleanupContinue, CleanupSignal, CleanupWait, DetachThreads
  <2>4. CASE Done
    <3>1. UNCHANGED dvars
      BY <1>2, <2>4 DEF Done, DetachNext, Detach, StartDetach, CleanupContinue, CleanupSignal, CleanupWait,
                        DetachThreads
    <3> QED BY <2>4, <3>1 DEF dvars, vars, kernel, Done, CleanRelease, NoStopLeft, OnlyUnseenStay
  <2> QED BY <1>2, <2>1, <2>2, <2>3, <2>4
<1>3. Inv => CleanRelease
    BY DEF Attached, Cleaning, Stuck, Done, CleanRelease, NoStopLeft, OnlyUnseenStay
<1> QED BY <1>1, <1>2, <1>3, PTL DEF DetachSpec
=============================================================================
