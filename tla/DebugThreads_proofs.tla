------------------------ MODULE DebugThreads_proofs -------------------------
(*****************************************************************************)
(* What is proved of DebugThreads for any number of threads and signals,     *)
(* whatever the client asks and the process does.                            *)
(*                                                                           *)
(* IInv: the types, and that no stored signal is hidden from                 *)
(* retrieve_pending_signal. Agree: the table of threads agrees with the      *)
(* kernel's table of tasks, wherever the server is. Its parts:               *)
(*   Kernel    the kernel's tables among themselves;                         *)
(*   Fit       each entry of the table against its task (Known, Entry), and  *)
(*             each task without an entry (Unseen, Clones);                  *)
(*   Hushed    an event of the client means that no thread runs;             *)
(*   Reaped    a reaped task keeps its entry only while its exit is told;    *)
(*   Freezing  who dbg_freeze_threads waits for, and what holds meanwhile;   *)
(*   Birth     handle_extended_wait, waiting for a new thread;               *)
(*   Ended     the end of the process is told.                               *)
(* That the table keeps all threads, that an event suspends the process, and *)
(* that a suspended thread does not execute follow from Agree.               *)
(*****************************************************************************)
EXTENDS DebugThreads, FiniteSetTheorems, TLAPS

-----------------------------------------------------------------------------
(* Membership in Debmod, as a shape and a list of typed fields *)

Fields == {"threads", "state", "suspend_count", "user_suspend", "waiting_sigstop",
           "pending_status", "single_step", "child_signum", "deleted_threads",
           "seen_threads", "events", "npending_signals", "may_run",
           "requested_to_suspend", "in_event", "exited", "last_tid", "process_handle"}

Shaped(m) == m = [x \in Fields |-> m[x]]

Typed(m) ==
    /\ m.threads \in SUBSET Tids
    /\ m.state \in [Tids -> {"RUNNING", "STOPPED", "DEAD"}]
    /\ m.suspend_count \in [Tids -> Nat]
    /\ m.user_suspend \in [Tids -> Nat]
    /\ m.waiting_sigstop \in [Tids -> BOOLEAN]
    /\ m.pending_status \in [Tids -> Status \cup {None}]
    /\ m.single_step \in [Tids -> BOOLEAN]
    /\ m.child_signum \in [Tids -> Status \cup {None}]
    /\ m.deleted_threads \in Seq(Tids)
    /\ m.seen_threads \in SUBSET Tids
    /\ m.events \in Seq(Event)
    /\ m.npending_signals \in Int
    /\ m.may_run \in BOOLEAN
    /\ m.requested_to_suspend \in BOOLEAN
    /\ m.in_event \in BOOLEAN
    /\ m.exited \in BOOLEAN
    /\ m.last_tid \in Tids \cup {0}
    /\ m.process_handle \in {Main, 0}

\* A record is a linux_debmod_t object exactly when it has the fields and each
\* field has its type.
LEMMA DebmodFields ==
    ASSUME NEW m
    PROVE  m \in Debmod <=> Shaped(m) /\ Typed(m)
<1>1. ASSUME m \in Debmod PROVE Shaped(m)
    BY <1>1 DEF Debmod, Shaped, Fields
<1>2. ASSUME m \in Debmod PROVE Typed(m)
    BY <1>2 DEF Debmod, Typed
<1>3. ASSUME Shaped(m), Typed(m) PROVE m \in Debmod
    BY <1>3 DEF Debmod, Shaped, Fields, Typed
<1> QED  BY <1>1, <1>2, <1>3

\* Outside the table no signal is stored.
Ghostless(m) == \A t \in Tids \ m.threads : m.pending_status[t] = None

\* A well-typed object that satisfies the invariant of the counter.
Good(m) == Shaped(m) /\ Typed(m) /\ Ghostless(m) /\ Counted(m)

\* A change that leaves the stored signals alone.
LEMMA SameSignals ==
    ASSUME NEW m, Good(m), NEW n, Shaped(n), Typed(n), n.threads = m.threads,
           n.pending_status = m.pending_status, n.npending_signals = m.npending_signals
    PROVE  Good(n)
BY DEF Good, Ghostless, Counted, Flagged

\* The threads with a stored signal can be counted.
LEMMA FlaggedFinite ==
    ASSUME NEW m, Good(m)
    PROVE  IsFiniteSet(Flagged(m)) /\ Cardinality(Flagged(m)) \in Nat
<1>1. Flagged(m) \in SUBSET Tids  BY DEF Good, Typed, Flagged
<1> QED  BY <1>1, TidsAssumption, FS_Subset, FS_CardinalityType

-----------------------------------------------------------------------------
(* The operators on the object *)

\* enqueue_event, at either end of the queue.
LEMMA EnqueueGood ==
    ASSUME NEW m, Good(m), NEW ev \in Event
    PROVE  Good(Enqueue(m, ev)) /\ Good(EnqueueFront(m, ev))
<1>1. Shaped(Enqueue(m, ev)) /\ Shaped(EnqueueFront(m, ev))
    BY DEF Good, Shaped, Fields, Enqueue, EnqueueFront
<1>2. Typed(Enqueue(m, ev))
    BY DEF Good, Shaped, Fields, Typed, Enqueue
<1>3. Typed(EnqueueFront(m, ev))
    BY DEF Good, Shaped, Fields, Typed, EnqueueFront
<1> QED  BY <1>1, <1>2, <1>3, SameSignals DEF Good, Shaped, Fields, Enqueue, EnqueueFront

\* The SIGSTOP that was waited for (store_pending_signal, dbg_freeze_threads).
LEMMA SigstopArrivedGood ==
    ASSUME NEW m, Good(m), NEW t \in Tids
    PROVE  Good(SigstopArrived(m, t))
<1> DEFINE n == SigstopArrived(m, t)
<1>1. Shaped(n)
    BY DEF Good, Shaped, Fields, SigstopArrived
<1>2. /\ n.waiting_sigstop = [m.waiting_sigstop EXCEPT ![t] = FALSE]
      /\ n.state = [m.state EXCEPT ![t] = "STOPPED"]
      /\ \A f \in Fields \ {"waiting_sigstop", "state"} : n[f] = m[f]
    BY DEF Good, Shaped, Fields, SigstopArrived
<1> HIDE DEF n
<1>3. Typed(n)
    BY <1>2, SMTT(20) DEF Good, Typed, Fields
<1>4. Good(n)
    BY <1>1, <1>2, <1>3, SameSignals DEF Fields
<1> QED  BY <1>4 DEF n

\* del_thread decrements npending_signals exactly when the entry it erases
\* holds a signal, so the counter still covers the others.
LEMMA DelThreadGood ==
    ASSUME NEW m, Good(m), NEW t \in Tids
    PROVE  Good(DelThread(m, t))
<1> DEFINE n == DelThread(m, t)
<1>1. Shaped(n)
    BY DEF Good, Shaped, Fields, DelThread
<1>2. /\ n.threads = m.threads \ {t}
      /\ n.pending_status = [m.pending_status EXCEPT ![t] = None]
      /\ n.npending_signals = IF m.pending_status[t] # None
                              THEN m.npending_signals - 1 ELSE m.npending_signals
      /\ n.deleted_threads = Append(IF Len(m.deleted_threads) >= DeletedMax
                                    THEN Tail(m.deleted_threads) ELSE m.deleted_threads, t)
      /\ \A f \in Fields \ {"threads", "pending_status", "npending_signals", "deleted_threads"} :
            n[f] = m[f]
    BY DEF Good, Shaped, Fields, DelThread
<1> HIDE DEF n
<1>3. n.deleted_threads \in Seq(Tids)
    BY <1>2, BoundsAssumption DEF Good, Typed
<1>4. n.threads \in SUBSET Tids /\ n.pending_status \in [Tids -> Status \cup {None}]
    BY <1>2 DEF Good, Typed
<1>5. n.npending_signals \in Int
    BY <1>2 DEF Good, Typed
<1>6. Typed(n)
    BY <1>2, <1>3, <1>4, <1>5 DEF Good, Typed, Fields
<1>7. Counted(n)
  <2>1. Flagged(n) = Flagged(m) \ {t}
    BY <1>2 DEF Good, Typed, Flagged
  <2>2. t \in Flagged(m) <=> m.pending_status[t] # None
    BY DEF Good, Typed, Ghostless, Flagged
  <2>3. Cardinality(Flagged(n)) = IF t \in Flagged(m) THEN Cardinality(Flagged(m)) - 1
                                  ELSE Cardinality(Flagged(m))
    BY <2>1, FlaggedFinite, FS_RemoveElement
  <2>4. m.npending_signals \in Int /\ m.npending_signals >= Cardinality(Flagged(m))
    BY DEF Good, Typed, Counted
  <2> QED  BY <1>2, <2>2, <2>3, <2>4, FlaggedFinite DEF Counted
<1>8. Ghostless(n)
    BY <1>2 DEF Good, Typed, Ghostless
<1> QED  BY <1>1, <1>6, <1>7, <1>8 DEF Good, n

\* dead_thread: the event and the removal.
LEMMA DeadThreadGood ==
    ASSUME NEW m, Good(m), NEW t \in Tids
    PROVE  Good(DeadThread(m, t))
<1>1. Ev("THREAD_EXIT", t) \in Event
    BY DEF Ev, SignalEv, Event, EventIds
<1> QED  BY <1>1, EnqueueGood, DelThreadGood DEF DeadThread

\* add_thread: the new entry holds no signal.
LEMMA AddThreadGood ==
    ASSUME NEW m, Good(m), NEW t \in Tids
    PROVE  Good(AddThread(m, t))
<1> DEFINE n == AddThread(m, t)
<1> SUFFICES ASSUME t \notin m.threads PROVE Good(n)
    BY DEF AddThread
<1>1. Shaped(n)
  <2> DEFINE k == [m EXCEPT !.threads = @ \cup {t}, !.state[t] = "STOPPED",
                            !.suspend_count[t] = 0, !.user_suspend[t] = 0]
  <2>1. Shaped(k)
    BY DEF Good, Shaped, Fields
  <2>2. n = [k EXCEPT !.waiting_sigstop[t] = FALSE, !.pending_status[t] = None,
                      !.single_step[t] = FALSE, !.child_signum[t] = None]
    BY DEF AddThread
  <2> HIDE DEF n, k
  <2> QED  BY <2>1, <2>2 DEF Shaped, Fields
<1>2. /\ n.threads = m.threads \cup {t}
      /\ n.state = [m.state EXCEPT ![t] = "STOPPED"]
      /\ n.suspend_count = [m.suspend_count EXCEPT ![t] = 0]
      /\ n.user_suspend = [m.user_suspend EXCEPT ![t] = 0]
      /\ n.waiting_sigstop = [m.waiting_sigstop EXCEPT ![t] = FALSE]
      /\ n.pending_status = [m.pending_status EXCEPT ![t] = None]
      /\ n.single_step = [m.single_step EXCEPT ![t] = FALSE]
      /\ n.child_signum = [m.child_signum EXCEPT ![t] = None]
    BY DEF Good, Shaped, Fields, AddThread
<1>3. /\ n.deleted_threads = m.deleted_threads /\ n.seen_threads = m.seen_threads
      /\ n.events = m.events /\ n.npending_signals = m.npending_signals
      /\ n.may_run = m.may_run /\ n.requested_to_suspend = m.requested_to_suspend
      /\ n.in_event = m.in_event /\ n.exited = m.exited
      /\ n.last_tid = m.last_tid /\ n.process_handle = m.process_handle
    BY DEF Good, Shaped, Fields, AddThread
<1> HIDE DEF n
<1>4. n.threads \in SUBSET Tids /\ n.pending_status \in [Tids -> Status \cup {None}]
    BY <1>2 DEF Good, Typed
<1>5. n.suspend_count \in [Tids -> Nat] /\ n.user_suspend \in [Tids -> Nat]
    BY <1>2 DEF Good, Typed
<1>6. /\ n.state \in [Tids -> {"RUNNING", "STOPPED", "DEAD"}]
      /\ n.waiting_sigstop \in [Tids -> BOOLEAN]
      /\ n.single_step \in [Tids -> BOOLEAN]
      /\ n.child_signum \in [Tids -> Status \cup {None}]
    BY <1>2 DEF Good, Typed
<1>7. Typed(n)
    BY <1>3, <1>4, <1>5, <1>6 DEF Good, Typed
<1>8. Flagged(n) = Flagged(m)
    BY <1>2 DEF Good, Typed, Ghostless, Flagged
<1>9. Counted(n)
    BY <1>3, <1>8 DEF Good, Counted
<1>10. Ghostless(n)
    BY <1>2 DEF Good, Typed, Ghostless
<1> QED  BY <1>1, <1>7, <1>9, <1>10 DEF Good, n

\* store_pending_signal counts every signal it stores; one stored over another
\* is counted twice, which the counter may be but never too low.
LEMMA StorePendingSignalGood ==
    ASSUME NEW m, Good(m), NEW t \in Tids, NEW s \in Status
    PROVE  Good(StorePendingSignal(m, t, s))
<1>1. CASE t \in m.threads /\ ~(m.waiting_sigstop[t] /\ s = "SIGSTOP")
  <2> DEFINE n == StorePendingSignal(m, t, s)
  <2>1. Shaped(n)
    BY <1>1 DEF Good, Shaped, Fields, StorePendingSignal
  <2>2. /\ n.pending_status = [m.pending_status EXCEPT ![t] = s]
        /\ n.npending_signals = m.npending_signals + 1
        /\ \A f \in Fields \ {"pending_status", "npending_signals"} : n[f] = m[f]
    BY <1>1 DEF Good, Shaped, Fields, StorePendingSignal
  <2> HIDE DEF n
  <2>3. n.pending_status \in [Tids -> Status \cup {None}] /\ n.npending_signals \in Int
    BY <2>2 DEF Good, Typed
  <2>4. Typed(n)
    BY <2>2, <2>3 DEF Good, Typed, Fields
  <2>5. Counted(n)
    <3>1. Flagged(n) \in SUBSET (Flagged(m) \cup {t})
      BY <2>2 DEF Good, Typed, Flagged, Fields
    <3>0. /\ IsFiniteSet(Flagged(m) \cup {t})
          /\ Cardinality(Flagged(m) \cup {t}) = IF t \in Flagged(m) THEN Cardinality(Flagged(m))
                                                ELSE Cardinality(Flagged(m)) + 1
      BY FlaggedFinite, FS_AddElement
    <3>2. /\ IsFiniteSet(Flagged(m) \cup {t})
          /\ Cardinality(Flagged(m) \cup {t}) <= Cardinality(Flagged(m)) + 1
      BY <3>0, FlaggedFinite
    <3>3. Cardinality(Flagged(n)) <= Cardinality(Flagged(m) \cup {t})
      BY <3>1, <3>2, FS_Subset
    <3>4. /\ Cardinality(Flagged(n)) \in Nat
          /\ Cardinality(Flagged(m) \cup {t}) \in Nat
      BY <3>1, <3>2, FS_Subset, FS_CardinalityType
    <3>5. m.npending_signals \in Int /\ m.npending_signals >= Cardinality(Flagged(m))
      BY DEF Good, Typed, Counted
    <3> QED  BY <2>2, <3>2, <3>3, <3>4, <3>5, FlaggedFinite DEF Counted
  <2>6. Ghostless(n)
    BY <1>1, <2>2 DEF Good, Typed, Ghostless, Fields
  <2> QED  BY <2>1, <2>4, <2>5, <2>6 DEF Good, n
<1>2. CASE t \in m.threads /\ m.waiting_sigstop[t] /\ s = "SIGSTOP"
    BY <1>2, SigstopArrivedGood DEF StorePendingSignal
<1>3. CASE t \notin m.threads
  <2> DEFINE n == [m EXCEPT !.seen_threads = @ \cup {t}]
  <2>1. Shaped(n)
    BY DEF Good, Shaped, Fields
  <2>2. n.seen_threads = m.seen_threads \cup {t}
        /\ \A f \in Fields \ {"seen_threads"} : n[f] = m[f]
    BY DEF Good, Shaped, Fields
  <2> HIDE DEF n
  <2>3. Typed(n)
    BY <2>2 DEF Good, Typed, Fields
  <2>4. Good(n)
    BY <2>1, <2>2, <2>3, SameSignals DEF Fields
  <2> QED  BY <1>3, <2>4 DEF StorePendingSignal, n
<1> QED  BY <1>1, <1>2, <1>3

\* retrieve_pending_signal takes one signal and counts one down.
LEMMA TakePendingGood ==
    ASSUME NEW m, Good(m), NEW t \in Flagged(m)
    PROVE  Good(TakePending(m, t))
<1> DEFINE n == TakePending(m, t)
<1>0. t \in Tids  BY DEF Good, Typed, Flagged
<1>1. Shaped(n)
    BY DEF Good, Shaped, Fields, TakePending
<1>2. /\ n.pending_status = [m.pending_status EXCEPT ![t] = None]
      /\ n.npending_signals = m.npending_signals - 1
      /\ \A f \in Fields \ {"pending_status", "npending_signals"} : n[f] = m[f]
    BY DEF Good, Shaped, Fields, TakePending
<1> HIDE DEF n
<1>3. n.pending_status \in [Tids -> Status \cup {None}] /\ n.npending_signals \in Int
    BY <1>0, <1>2 DEF Good, Typed
<1>4. Typed(n)
    BY <1>2, <1>3 DEF Good, Typed, Fields
<1>5. Counted(n)
  <2>1. Flagged(n) = Flagged(m) \ {t}
    BY <1>0, <1>2 DEF Good, Typed, Flagged, Fields
  <2>2. Cardinality(Flagged(n)) = Cardinality(Flagged(m)) - 1
    BY <2>1, FlaggedFinite, FS_RemoveElement
  <2>3. m.npending_signals \in Int /\ m.npending_signals >= Cardinality(Flagged(m))
    BY DEF Good, Typed, Counted
  <2> QED  BY <1>2, <2>2, <2>3, FlaggedFinite DEF Counted
<1>6. Ghostless(n)
    BY <1>2 DEF Good, Typed, Ghostless, Fields
<1> QED  BY <1>1, <1>4, <1>5, <1>6 DEF Good, n

\* dbg_freeze_threads up to its wait.
LEMMA FreezeGood ==
    ASSUME NEW m, Good(m), NEW S \in SUBSET Tids
    PROVE  Good(Freeze(m, S)) /\ FreezeSet(m, S) \in SUBSET Tids
<1> DEFINE n == Freeze(m, S)
<1>1. Shaped(n)
    BY DEF Good, Shaped, Fields, Freeze
<1>2. /\ n.suspend_count = [t \in Tids |-> IF t \in m.threads \cap S THEN m.suspend_count[t] + 1
                                           ELSE m.suspend_count[t]]
      /\ n.waiting_sigstop = [t \in Tids |-> m.waiting_sigstop[t] \/ t \in FreezeSet(m, S)]
      /\ \A f \in Fields \ {"suspend_count", "waiting_sigstop"} : n[f] = m[f]
    BY DEF Good, Shaped, Fields, Freeze
<1> HIDE DEF n
<1>3. n.suspend_count \in [Tids -> Nat] /\ n.waiting_sigstop \in [Tids -> BOOLEAN]
    BY <1>2 DEF Good, Typed
<1>4. Typed(n)
    BY <1>2, <1>3 DEF Good, Typed, Fields
<1>5. Good(n)
    BY <1>1, <1>2, <1>4, SameSignals DEF Fields
<1>6. FreezeSet(m, S) \in SUBSET Tids
    BY DEF FreezeSet
<1> QED  BY <1>5, <1>6 DEF n

\* dbg_thaw_threads decrements suspend_count only when it is positive.
LEMMA ThawGood ==
    ASSUME NEW m, Good(m), NEW S \in SUBSET Tids
    PROVE  Good(Thaw(m, S))
<1> DEFINE n == Thawed(m, S)
<1>1. Shaped(n)
    BY DEF Good, Shaped, Fields, Thawed
<1>2. /\ n.suspend_count = [t \in Tids |->
              IF t \in m.threads \cap S /\ ~IsRunning(m, t) /\ m.suspend_count[t] > 0
              THEN m.suspend_count[t] - 1 ELSE m.suspend_count[t]]
      /\ n.state = [t \in Tids |-> IF t \in Restarted(m, S) THEN "RUNNING"
                                   ELSE IF t \in FirstZombies(m, S) THEN "DEAD" ELSE m.state[t]]
      /\ \A f \in Fields \ {"suspend_count", "state"} : n[f] = m[f]
    BY DEF Good, Shaped, Fields, Thawed
<1> HIDE DEF n
<1>3. n.suspend_count \in [Tids -> Nat]
    BY <1>2 DEF Good, Typed
<1>4. n.state \in [Tids -> {"RUNNING", "STOPPED", "DEAD"}]
    BY <1>2 DEF Good, Typed
<1>5. Typed(n)
    BY <1>2, <1>3, <1>4 DEF Good, Typed, Fields
<1>6. Good(n)
    BY <1>1, <1>2, <1>5, SameSignals DEF Fields
<1>7. CASE FirstZombies(m, S) = {}
    BY <1>6, <1>7 DEF Thaw, n
<1>8. CASE FirstZombies(m, S) # {}
  <2> DEFINE z == CHOOSE t \in FirstZombies(m, S) : TRUE
  <2>1. z \in Tids
    BY <1>8 DEF FirstZombies, Zombies, Restartable
  <2>2. Ev("THREAD_EXIT", z) \in Event
    BY <2>1 DEF Ev, SignalEv, Event, EventIds
  <2> QED  BY <1>6, <1>8, <2>2, EnqueueGood DEF Thaw, n
<1> QED  BY <1>7, <1>8

\* resume_app and get_debug_event set may_run.
LEMMA RunnableGood ==
    ASSUME NEW m, Good(m)
    PROVE  Good(Runnable(m)) /\ Good(Held(m))
<1>1. Shaped(Runnable(m)) /\ Shaped(Held(m))
    BY DEF Good, Shaped, Fields, Runnable, Held
<1>2. HasPendingEvents(m) \in BOOLEAN
    BY DEF HasPendingEvents
<1>3. Typed(Runnable(m))
    BY <1>2 DEF Good, Shaped, Fields, Typed, Runnable
<1>4. Typed(Held(m))
    BY DEF Good, Shaped, Fields, Typed, Held
<1> QED  BY <1>1, <1>3, <1>4, SameSignals DEF Good, Shaped, Fields, Runnable, Held

\* The types of the fields that have nothing to do with the stored signals.
FreeType == [state |-> [Tids -> {"RUNNING", "STOPPED", "DEAD"}],
             suspend_count |-> [Tids -> Nat],
             user_suspend |-> [Tids -> Nat],
             waiting_sigstop |-> [Tids -> BOOLEAN],
             single_step |-> [Tids -> BOOLEAN],
             child_signum |-> [Tids -> Status \cup {None}],
             deleted_threads |-> Seq(Tids),
             seen_threads |-> SUBSET Tids,
             events |-> Seq(Event),
             may_run |-> BOOLEAN,
             requested_to_suspend |-> BOOLEAN,
             in_event |-> BOOLEAN,
             exited |-> BOOLEAN,
             last_tid |-> Tids \cup {0},
             process_handle |-> {Main, 0}]

\* Assigning one of them keeps the object good.
LEMMA SetField ==
    ASSUME NEW m, Good(m), NEW f \in DOMAIN FreeType, NEW v \in FreeType[f]
    PROVE  Good([m EXCEPT ![f] = v])
<1> DEFINE n == [m EXCEPT ![f] = v]
<1>0. f \in Fields \ {"threads", "pending_status", "npending_signals"}
    BY DEF FreeType, Fields
<1>1. Shaped(n)
    BY <1>0 DEF Good, Shaped, Fields
<1>2. \A g \in Fields : n[g] = IF g = f THEN v ELSE m[g]
    BY <1>0 DEF Good, Shaped
<1> HIDE DEF n
<1>3. Typed(n)
  <2>1. \A g \in DOMAIN FreeType : g \in Fields /\ m[g] \in FreeType[g]
      BY DEF Good, Typed, Fields, FreeType
  <2>2. \A g \in DOMAIN FreeType : n[g] \in FreeType[g]
      BY <1>2, <2>1
  <2>3. n.threads = m.threads /\ n.pending_status = m.pending_status
        /\ n.npending_signals = m.npending_signals
      BY <1>0, <1>2 DEF Fields
  <2> QED BY <2>2, <2>3 DEF Good, Typed, FreeType
<1>4. Good(n)
    BY <1>0, <1>1, <1>2, <1>3, SameSignals DEF Fields
<1> QED  BY <1>4 DEF n

\* Single fields that requests and events set.
LEMMA FieldsGood ==
    ASSUME NEW m, Good(m), NEW t \in Tids, NEW s \in Status \cup {None}, NEW n \in Nat,
           NEW b \in BOOLEAN
    PROVE  /\ Good([m EXCEPT !.state[t] = "STOPPED"])
           /\ Good([m EXCEPT !.child_signum[t] = s])
           /\ Good([m EXCEPT !.user_suspend[t] = n])
           /\ Good([m EXCEPT !.waiting_sigstop[t] = b])
           /\ Good([m EXCEPT !.single_step[t] = b])
<1>1. /\ [m.state EXCEPT ![t] = "STOPPED"] \in FreeType["state"]
      /\ [m.child_signum EXCEPT ![t] = s] \in FreeType["child_signum"]
      /\ [m.user_suspend EXCEPT ![t] = n] \in FreeType["user_suspend"]
      /\ [m.waiting_sigstop EXCEPT ![t] = b] \in FreeType["waiting_sigstop"]
      /\ [m.single_step EXCEPT ![t] = b] \in FreeType["single_step"]
    BY DEF Good, Typed, FreeType
<1>2. {"state", "child_signum", "user_suspend", "waiting_sigstop", "single_step"}
         \in SUBSET DOMAIN FreeType
    BY DEF FreeType
<1>3. /\ [m EXCEPT !.state[t] = "STOPPED"]
           = [m EXCEPT !["state"] = [m.state EXCEPT ![t] = "STOPPED"]]
      /\ [m EXCEPT !.child_signum[t] = s]
           = [m EXCEPT !["child_signum"] = [m.child_signum EXCEPT ![t] = s]]
      /\ [m EXCEPT !.user_suspend[t] = n]
           = [m EXCEPT !["user_suspend"] = [m.user_suspend EXCEPT ![t] = n]]
      /\ [m EXCEPT !.waiting_sigstop[t] = b]
           = [m EXCEPT !["waiting_sigstop"] = [m.waiting_sigstop EXCEPT ![t] = b]]
      /\ [m EXCEPT !.single_step[t] = b]
           = [m EXCEPT !["single_step"] = [m.single_step EXCEPT ![t] = b]]
    OBVIOUS
<1>4. Good([m EXCEPT !["state"] = [m.state EXCEPT ![t] = "STOPPED"]])
    BY <1>1, <1>2, SetField
<1>5. Good([m EXCEPT !["child_signum"] = [m.child_signum EXCEPT ![t] = s]])
    BY <1>1, <1>2, SetField
<1>6. Good([m EXCEPT !["user_suspend"] = [m.user_suspend EXCEPT ![t] = n]])
    BY <1>1, <1>2, SetField
<1>7. Good([m EXCEPT !["waiting_sigstop"] = [m.waiting_sigstop EXCEPT ![t] = b]])
    BY <1>1, <1>2, SetField
<1>8. Good([m EXCEPT !["single_step"] = [m.single_step EXCEPT ![t] = b]])
    BY <1>1, <1>2, SetField
<1> QED  BY <1>3, <1>4, <1>5, <1>6, <1>7, <1>8

\* Deliver and ContinueAfterEvent: the queue of events and in_event.
LEMMA DeliverGood ==
    ASSUME NEW m, Good(m), m.events # << >>
    PROVE  Good([m EXCEPT !.events = Tail(@), !.in_event = TRUE, !.requested_to_suspend = FALSE])
<1> DEFINE a == [m EXCEPT !["events"] = Tail(m.events)]
           b == [a EXCEPT !["in_event"] = TRUE]
           c == [b EXCEPT !["requested_to_suspend"] = FALSE]
<1>1. Tail(m.events) \in FreeType["events"]
    BY DEF Good, Typed, FreeType
<1>2. Good(a)
    BY <1>1, SetField DEF FreeType
<1>3. Good(b)
    BY <1>2, SetField DEF FreeType
<1>4. Good(c)
    BY <1>3, SetField DEF FreeType
<1>5. c = [m EXCEPT !.events = Tail(@), !.in_event = TRUE, !.requested_to_suspend = FALSE]
    BY DEF Good, Shaped, Fields
<1> QED  BY <1>4, <1>5

\* dbg_continue_after_event ends the event, get_debug_event marks the exit.
LEMMA FlagsGood ==
    ASSUME NEW m, Good(m)
    PROVE  /\ Good([m EXCEPT !.in_event = FALSE])
           /\ Good([m EXCEPT !.exited = TRUE])
<1>1. Good([m EXCEPT !["in_event"] = FALSE])
    BY SetField DEF FreeType
<1>2. Good([m EXCEPT !["exited"] = TRUE])
    BY SetField DEF FreeType
<1> QED  BY <1>1, <1>2

\* The last assignments of get_debug_event.
LEMMA ReportedGood ==
    ASSUME NEW m, Good(m), NEW t \in Tids, NEW l \in Tids \cup {0}
    PROVE  /\ Good([m EXCEPT !.single_step[t] = FALSE, !.last_tid = l])
           /\ Good([m EXCEPT !.last_tid = l])
<1> DEFINE a == [m EXCEPT !.single_step[t] = FALSE]
           b == [a EXCEPT !["last_tid"] = l]
<1>1. Good(a)
    BY FieldsGood
<1>2. Good(b)
    BY <1>1, SetField DEF FreeType
<1>3. b = [m EXCEPT !.single_step[t] = FALSE, !.last_tid = l]
    BY DEF Good, Shaped, Fields
<1>4. Good([m EXCEPT !["last_tid"] = l])
    BY SetField DEF FreeType
<1> QED  BY <1>2, <1>3, <1>4

\* dbg_prepare_to_pause_process, with and without events in the queue.
LEMMA PausedGood ==
    ASSUME NEW m, Good(m), NEW t \in Tids
    PROVE  /\ Good([m EXCEPT !.waiting_sigstop[t] = TRUE,
                             !.may_run = FALSE, !.requested_to_suspend = TRUE])
           /\ Good([m EXCEPT !.may_run = FALSE, !.requested_to_suspend = TRUE])
<1>1. ASSUME NEW k, Good(k)
      PROVE  Good([k EXCEPT !.may_run = FALSE, !.requested_to_suspend = TRUE])
  <2> DEFINE a == [k EXCEPT !["may_run"] = FALSE]
             b == [a EXCEPT !["requested_to_suspend"] = TRUE]
  <2>1. Good(a)
    BY <1>1, SetField DEF FreeType
  <2>2. Good(b)
    BY <2>1, SetField DEF FreeType
  <2>3. b = [k EXCEPT !.may_run = FALSE, !.requested_to_suspend = TRUE]
    BY <1>1 DEF Good, Shaped, Fields
  <2> QED  BY <2>2, <2>3
<1> DEFINE a == [m EXCEPT !.waiting_sigstop[t] = TRUE]
<1>2. Good(a)
    BY FieldsGood
<1>3. Good([a EXCEPT !.may_run = FALSE, !.requested_to_suspend = TRUE])
    BY <1>1, <1>2
<1>4. [a EXCEPT !.may_run = FALSE, !.requested_to_suspend = TRUE]
        = [m EXCEPT !.waiting_sigstop[t] = TRUE,
                    !.may_run = FALSE, !.requested_to_suspend = TRUE]
    BY DEF Good, Shaped, Fields
<1> QED  BY <1>1, <1>3, <1>4

\* dbg_exit_process once its SIGKILLs are sent.
LEMMA KilledGood ==
    ASSUME NEW m, Good(m)
    PROVE  Good([m EXCEPT
                  !.state = [t \in Tids |-> IF t \in m.threads THEN "RUNNING" ELSE @[t]],
                  !.suspend_count = [t \in Tids |-> IF t \in m.threads THEN 0 ELSE @[t]],
                  !.may_run = TRUE, !.exited = TRUE, !.process_handle = 0])
<1> DEFINE st == [t \in Tids |-> IF t \in m.threads THEN "RUNNING" ELSE m.state[t]]
           sc == [t \in Tids |-> IF t \in m.threads THEN 0 ELSE m.suspend_count[t]]
           a == [m EXCEPT !["state"] = st]
           b == [a EXCEPT !["suspend_count"] = sc]
           c == [b EXCEPT !["may_run"] = TRUE]
           d == [c EXCEPT !["exited"] = TRUE]
           e == [d EXCEPT !["process_handle"] = 0]
<1>1. st \in FreeType["state"] /\ sc \in FreeType["suspend_count"]
    BY DEF Good, Typed, FreeType
<1> HIDE DEF st, sc
<1>2. Good(a)
    BY <1>1, SetField DEF FreeType
<1>3. Good(b)
    BY <1>1, <1>2, SetField DEF FreeType
<1> HIDE DEF b
<1>4. Good(c)
    BY <1>3, SetField DEF FreeType
<1>5. Good(d)
    BY <1>4, SetField DEF FreeType
<1>6. Good(e)
    BY <1>5, SetField DEF FreeType
<1>7. e = [m EXCEPT !.state = st, !.suspend_count = sc,
                    !.may_run = TRUE, !.exited = TRUE, !.process_handle = 0]
    BY DEF Good, Shaped, Fields, b
<1> QED  BY <1>6, <1>7 DEF st, sc

\* handle_extended_wait for a thread whose own stop was seen before.
LEMMA SeenNewbornGood ==
    ASSUME NEW m, Good(m), NEW t \in Tids, child[t] \in Tids
    PROVE  Good(SeenNewborn(m, t))
<1> DEFINE a == AddThread(m, child[t])
           b == [a EXCEPT !["seen_threads"] = a.seen_threads \ {child[t]}]
<1>1. Good(a)
    BY AddThreadGood
<1> HIDE DEF a
<1>2. a.seen_threads \ {child[t]} \in FreeType["seen_threads"]
    BY <1>1 DEF Good, Typed, FreeType
<1>3. Good(b)
    BY <1>1, <1>2, SetField DEF FreeType
<1>4. Ev("THREAD_START", child[t]) \in Event
    BY DEF Ev, SignalEv, Event, EventIds
<1>5. Good(EnqueueFront(b, Ev("THREAD_START", child[t])))
    BY <1>3, <1>4, EnqueueGood
<1> QED  BY <1>5 DEF SeenNewborn, a

-----------------------------------------------------------------------------
(* The invariant *)

\* The types of what surrounds the object: the server's own state ...
ServerTyped ==
    /\ cur \in Event
    /\ pc \in {"idle", "poll", "newborn", "freeze", "halt"}
    /\ job \in Jobs
    /\ queue \in SUBSET Tids
    /\ failed \in {0, 1200, 30057, 30185, 30188}

\* ... and the kernel's tables.
KernelTyped ==
    /\ task \in [Tids -> {"none", "run", "stop", "zombie", "gone"}]
    /\ sigs \in [Tids -> SUBSET (Signals \cup {"SIGSTOP"})]
    /\ wstat \in [Tids -> Status \cup {None}]
    /\ stopsig \in [Tids -> Stops \cup {None}]
    /\ child \in [Tids -> Tids]

\* TypeOK and PendingNeverHidden, strengthened by the absence of signals
\* stored for threads outside the table: del_thread decrements the counter
\* only for a thread that has one.
IInv == Good(dm) /\ ServerTyped /\ KernelTyped /\ budget \in Nat

\* The inductive invariant gives the two properties of the runs.
LEMMA IInvTypes == IInv => TypeOK /\ PendingNeverHidden
BY DebmodFields DEF IInv, ServerTyped, KernelTyped, TypeOK, PendingNeverHidden, Good

\* handle_process_start leaves one stopped thread and no stored signal.
LEMMA StartedGood ==
    ASSUME NEW events \in Seq(Event)
    PROVE  Good(Started(events))
<1> DEFINE n == Started(events)
<1>1. Shaped(NoProcess) /\ Typed(NoProcess)
  <2>1. NoProcess \in Debmod
    BY TidsAssumption DEF NoProcess, Debmod
  <2> QED  BY <2>1, DebmodFields
<1>2. Shaped(n)
    BY <1>1 DEF Shaped, Fields, Started
<1>3. /\ n.threads = {Main} /\ n.events = events
      /\ \A f \in Fields \ {"threads", "events"} : n[f] = NoProcess[f]
    BY <1>1 DEF Shaped, Fields, Started
<1>4. /\ NoProcess.npending_signals = 0
      /\ NoProcess.pending_status = [t \in Tids |-> None]
    BY DEF NoProcess
<1> HIDE DEF n
<1>5. Typed(n)
    BY <1>1, <1>3, TidsAssumption DEF Typed, Fields
<1>6. Ghostless(n) /\ Flagged(n) = {} /\ n.npending_signals = 0
    BY <1>3, <1>4, TidsAssumption DEF Ghostless, Flagged, Fields
<1>7. Counted(n)
  <2>1. Cardinality(Flagged(n)) = 0
    BY <1>6, FS_EmptySet
  <2> QED  BY <1>6, <2>1 DEF Counted
<1>8. Good(n)
    BY <1>2, <1>5, <1>6, <1>7 DEF Good
<1> QED  BY <1>8 DEF n

\* Events and jobs built by the server are well typed.
LEMMA EventTypes ==
    /\ \A e \in EventIds, t \in Tids : Ev(e, t) \in Event
    /\ \A e \in EventIds, t \in Tids, s \in Status : SignalEv(e, t, s) \in Event
    /\ \A f \in {"none", "event", "memory", "suspend", "exit"}, t \in Tids : Job(f, t) \in Jobs
    /\ \A t \in Tids, s \in Status \cup {None}, r \in BOOLEAN : EventJob(t, s, r) \in Jobs
    /\ Idle \in Jobs
BY TidsAssumption DEF Ev, SignalEv, Event, Job, EventJob, Idle, Jobs

\* The invariant holds when a process has been started or attached to.
THEOREM InitIInv == Init => IInv
<1> SUFFICES ASSUME Init PROVE IInv  OBVIOUS
<1>1. PICK events \in {<<Ev("PROCESS_START", Main)>>,
                       <<Ev("PROCESS_START", Main), Ev("PROCESS_ATTACH", Main)>>} :
        dm = Started(events)
    BY DEF Init
<1>2. Ev("PROCESS_START", Main) \in Event /\ Ev("PROCESS_ATTACH", Main) \in Event
    BY EventTypes, TidsAssumption DEF EventIds
<1>3. events \in Seq(Event)
    BY <1>1, <1>2
<1>4. Good(dm)
    BY <1>1, <1>3, StartedGood
<1>5. ServerTyped
    BY <1>2, EventTypes DEF Init, ServerTyped
<1>6. KernelTyped
    BY DEF Init, KernelTyped
<1>7. budget \in Nat
    BY BoundsAssumption DEF Init
<1> QED  BY <1>4, <1>5, <1>6, <1>7 DEF IInv

-----------------------------------------------------------------------------
(* The pieces that actions share *)

\* What Collect does to the types of the kernel's tables.
Collected ==
    /\ task' \in [Tids -> {"none", "run", "stop", "zombie", "gone"}]
    /\ wstat' \in [Tids -> Status \cup {None}]
    /\ UNCHANGED <<stopsig, child>>

\* waitpid, tkill and ptrace keep the types of the kernel's tables.
LEMMA KernelSteps ==
    ASSUME KernelTyped
    PROVE  /\ \A S \in SUBSET Tids :
                 Collected /\ (SendSigstop(S) \/ UNCHANGED sigs) => KernelTyped'
           /\ \A S \in SUBSET Tids :
                 SendSigstop(S) /\ UNCHANGED <<task, wstat, stopsig, child>> => KernelTyped'
           /\ \A S \in SUBSET Tids : Restart(S) => KernelTyped'
           /\ \A s \in Exits : TakeDown(s) => KernelTyped'
<1>1. ASSUME NEW S \in SUBSET Tids, SendSigstop(S) \/ UNCHANGED sigs
      PROVE  sigs' \in [Tids -> SUBSET (Signals \cup {"SIGSTOP"})]
    BY <1>1 DEF SendSigstop, KernelTyped
<1>3. ASSUME NEW S \in SUBSET Tids, Restart(S) PROVE KernelTyped'
    BY <1>3 DEF Restart, KernelTyped
<1>4. ASSUME NEW s \in Exits, TakeDown(s) PROVE KernelTyped'
    BY <1>4 DEF TakeDown, KernelTyped, Status
<1>5. ASSUME NEW S \in SUBSET Tids, SendSigstop(S), UNCHANGED <<task, wstat, stopsig, child>>
      PROVE  KernelTyped'
    BY <1>1, <1>5 DEF KernelTyped
<1>6. ASSUME Collected, NEW S \in SUBSET Tids, SendSigstop(S) \/ UNCHANGED sigs
      PROVE  KernelTyped'
    BY <1>1, <1>6 DEF Collected, KernelTyped
<1> QED  BY <1>3, <1>4, <1>5, <1>6

\* Steps of the server that make no system call.
LEMMA KernelUnchanged ==
    ASSUME KernelTyped, UNCHANGED kernel
    PROVE  KernelTyped'
BY DEF KernelTyped, kernel

\* get_debug_event stops the thread of the status and freezes the others.
LEMMA BeginEventStep ==
    ASSUME IInv, NEW m, Good(m), NEW t \in Tids, NEW s \in Status \cup {None},
           NEW r \in BOOLEAN, BeginEvent(m, t, s, r)
    PROVE  Good(dm)' /\ ServerTyped' /\ budget' = budget
<1> DEFINE k == [m EXCEPT !.state[t] = "STOPPED"]
<1>1. Good(k)
    BY FieldsGood
<1> HIDE DEF k
<1>2. Good(Freeze(k, Tids)) /\ FreezeSet(k, Tids) \in SUBSET Tids
    BY <1>1, FreezeGood
<1>3. EventJob(t, s, r) \in Jobs
    BY EventTypes
<1>4. CASE StartFreeze(k, Tids, EventJob(t, s, r)) /\ UNCHANGED <<cur, failed, budget>>
    BY <1>2, <1>3, <1>4 DEF StartFreeze, ServerTyped, IInv
<1>5. CASE failed' = 30057 /\ pc' = "halt" /\ dm' = m /\ UNCHANGED <<cur, job, queue, budget>>
    BY <1>5 DEF ServerTyped, IInv
<1> QED  BY <1>4, <1>5 DEF BeginEvent, k

\* check_for_new_events on a status of a known thread, clones included.
LEMMA TakeStatusStep ==
    ASSUME IInv, NEW m, Good(m), NEW t \in Tids, NEW s \in Status, TakeStatus(m, t, s)
    PROVE  Good(dm)' /\ ServerTyped' /\ budget' = budget
<1>0. child[t] \in Tids
    BY DEF IInv, KernelTyped
<1>1. CASE BeginEvent(SeenNewborn(m, t), t, s, TRUE)
  <2>1. Good(SeenNewborn(m, t))
    BY <1>0, SeenNewbornGood
  <2> QED  BY <1>1, <2>1, BeginEventStep
<1>2. CASE Newborn(m, t, s)
  <2>1. Good(AddThread(m, child[t]))
    BY <1>0, AddThreadGood
  <2>2. /\ job' \in Jobs /\ pc' = "newborn"
        /\ UNCHANGED <<cur, queue, failed, budget>>
    BY <1>2 DEF Newborn, EventJob, Jobs
  <2>3. Good(dm)'
    BY <1>2, <2>1 DEF Newborn
  <2>4. ServerTyped' /\ budget' = budget
    BY <2>2 DEF ServerTyped, IInv
  <2> QED  BY <2>3, <2>4
<1>3. CASE BeginEvent(m, t, s, FALSE)
    BY <1>3, BeginEventStep
<1> QED  BY <1>1, <1>2, <1>3 DEF TakeStatus

\* A failed assertion changes nothing but where the server is.
LEMMA InterrStep ==
    ASSUME IInv, NEW code \in {1200, 30057, 30185, 30188}, Interr(code)
    PROVE  IInv'
<1>1. KernelTyped'
    BY KernelUnchanged DEF Interr, IInv
<1>2. ServerTyped'
    BY DEF Interr, IInv, ServerTyped
<1> QED  BY <1>1, <1>2 DEF Interr, IInv

\* dbg_thaw_threads at the end of a request.
LEMMA ThawStep ==
    ASSUME IInv, NEW m, Good(m), NEW S \in SUBSET Tids, DoThaw(m, S, "idle")
    PROVE  IInv'
<1>1. CASE ThawAssert(m, S)
  <2>1. Good(dm)'
    BY <1>1, ThawGood DEF DoThaw
  <2>2. Restarted(m, S) \in SUBSET Tids
    BY DEF Restarted, Restartable
  <2>3. KernelTyped'
    BY <1>1, <2>2, KernelSteps DEF DoThaw, IInv
  <2>4. ServerTyped' /\ budget' = budget
    BY <1>1, EventTypes DEF DoThaw, IInv, ServerTyped
  <2> QED  BY <2>1, <2>3, <2>4 DEF IInv
<1>2. CASE ~ThawAssert(m, S)
    BY <1>2, InterrStep DEF DoThaw
<1> QED  BY <1>1, <1>2

\* resume_app.
LEMMA ResumeAppStep ==
    ASSUME IInv, NEW m, Good(m), ResumeApp(m)
    PROVE  IInv'
BY RunnableGood, ThawStep DEF ResumeApp

\* get_debug_event returns to the loop of dbg_get_debug_event.
LEMMA ReturnStep ==
    ASSUME IInv, NEW m, Good(m), Return(m)
    PROVE  IInv'
<1>1. KernelTyped'
    BY KernelUnchanged DEF Return, IInv
<1>2. ServerTyped'
    BY EventTypes DEF Return, IInv, ServerTyped
<1> QED  BY <1>1, <1>2 DEF Return, IInv

\* get_debug_event returns with an event to report.
LEMMA ReportStep ==
    ASSUME IInv, NEW m, Good(m), NEW e \in Event, Report(m, e)
    PROVE  IInv'
<1> DEFINE n == Enqueue(m, e)
<1>1. Good(n)
    BY EnqueueGood
<1>2. e.tid \in Tids
    BY DEF Event
<1> HIDE DEF n
<1>3. Good([n EXCEPT !.single_step[e.tid] = FALSE, !.last_tid = e.tid])
    BY <1>1, <1>2, ReportedGood
<1> QED  BY <1>3, ReturnStep DEF Report, n

\* The label RESUME of get_debug_event.
LEMMA ResumeStep ==
    ASSUME IInv, NEW m, Good(m), Resume(m)
    PROVE  IInv'
<1>1. job.tid \in Tids
    BY DEF IInv, ServerTyped, Jobs
<1>2. Ev("PROCESS_SUSPEND", job.tid) \in Event
    BY <1>1, EventTypes DEF EventIds
<1> QED  BY <1>2, EnqueueGood, ReturnStep, ResumeAppStep DEF Resume

-----------------------------------------------------------------------------
(* The actions *)

\* check_for_new_events and retrieve_pending_signal.
LEMMA PollStep ==
    ASSUME IInv, Poll
    PROVE  IInv'
<1>1. CASE Deliver
  <2>1. Good(dm)'
    BY <1>1, DeliverGood DEF Deliver, IInv
  <2>2. ServerTyped'
    BY <1>1 DEF Deliver, IInv, ServerTyped, Good, Typed
  <2>3. KernelTyped' /\ budget' = budget
    BY <1>1, KernelUnchanged DEF Deliver, IInv
  <2> QED  BY <2>1, <2>2, <2>3 DEF IInv
<1>2. CASE PollPending
  <2>1. PICK t \in PendingChoice(dm) :
              TakeStatus(TakePending(dm, t), t, dm.pending_status[t])
    BY <1>2 DEF PollPending
  <2>2. t \in Flagged(dm) /\ t \in Tids
    BY DEF PendingChoice, Retrievable, Flagged, IInv, Good, Typed
  <2>3. dm.pending_status[t] \in Status
    BY <2>2 DEF Flagged, IInv, Good, Typed
  <2>4. Good(TakePending(dm, t))
    BY <2>2, TakePendingGood DEF IInv
  <2>5. Good(dm)' /\ ServerTyped' /\ budget' = budget
    BY <2>1, <2>2, <2>3, <2>4, TakeStatusStep
  <2>6. KernelTyped'
    BY <1>2, <2>5, KernelSteps DEF PollPending, IInv, ServerTyped
  <2> QED  BY <2>5, <2>6 DEF IInv
<1>3. CASE PollNothing
  <2>1. ServerTyped'
    BY <1>3 DEF PollNothing, IInv, ServerTyped
  <2> QED  BY <1>3, <2>1, KernelUnchanged DEF PollNothing, IInv
<1>4. CASE NewbornStopped
  <2> DEFINE u == child[job.tid]
             s == wstat[u]
             k == [dm EXCEPT !.waiting_sigstop[u] = TRUE]
             m == IF s = "SIGSTOP" THEN dm ELSE StorePendingSignal(k, u, s)
             e == Ev("THREAD_START", u)
  <2>1. job.tid \in Tids /\ job.status \in Status \cup {None}
    BY DEF IInv, ServerTyped, Jobs
  <2>2. u \in Tids
    BY <2>1 DEF IInv, KernelTyped
  <2>3. s \in Status
    BY <1>4, <2>2 DEF NewbornStopped, Reportable, IInv, KernelTyped
  <2>4. Good(k)
    BY <2>2, FieldsGood DEF IInv
  <2>5. BeginEvent(EnqueueFront(m, e), job.tid, job.status, TRUE)
    BY <1>4 DEF NewbornStopped
  <2>6. Collected /\ SendSigstop(queue')
    BY <1>4, <2>2 DEF NewbornStopped, Collect, Collected, IInv, KernelTyped
  <2> HIDE DEF u, s, k
  <2>7. Good(m)
    BY <2>2, <2>3, <2>4, StorePendingSignalGood DEF IInv
  <2>8. e \in Event
    BY <2>2, EventTypes DEF EventIds
  <2> HIDE DEF m, e
  <2>9. Good(EnqueueFront(m, e))
    BY <2>7, <2>8, EnqueueGood
  <2>10. Good(dm)' /\ ServerTyped' /\ budget' = budget
    BY <2>1, <2>5, <2>9, BeginEventStep
  <2>11. KernelTyped'
    BY <2>6, <2>10, KernelSteps DEF IInv, ServerTyped
  <2> QED  BY <2>10, <2>11 DEF IInv
<1>5. CASE NewbornStatus
    BY <1>4, <1>5, InterrStep DEF NewbornStatus
<1>6. ASSUME NEW t \in Tids, PollStatus(t) PROVE IInv'
  <2>1. wstat[t] \in Status
    BY <1>6 DEF PollStatus, Reportable, IInv, KernelTyped
  <2>2. Good(dm)' /\ ServerTyped' /\ budget' = budget
    <3>1. CASE t \in dm.threads
      BY <1>6, <2>1, <3>1, TakeStatusStep DEF PollStatus, IInv
    <3>2. CASE t \notin dm.threads
      <4>1. Good(StorePendingSignal(dm, t, wstat[t]))
        BY <2>1, StorePendingSignalGood DEF IInv
      <4> QED  BY <1>6, <3>2, <4>1 DEF PollStatus, IInv, ServerTyped
    <3> QED  BY <3>1, <3>2
  <2>3. KernelTyped'
    <3>1. Collected
      BY <1>6 DEF PollStatus, Collect, Collected, IInv, KernelTyped
    <3>2. SendSigstop(queue') /\ queue' \in SUBSET Tids
      BY <1>6, <2>2 DEF PollStatus, ServerTyped
    <3> QED  BY <3>1, <3>2, KernelSteps DEF IInv
  <2> QED  BY <2>2, <2>3 DEF IInv
<1> QED  BY <1>1, <1>2, <1>3, <1>4, <1>5, <1>6 DEF Poll

\* The waiting loop of dbg_freeze_threads.
LEMMA WaitStep ==
    ASSUME IInv, Wait
    PROVE  IInv'
<1>1. CASE FreezePoll
  <2>1. ServerTyped' /\ KernelTyped' /\ UNCHANGED <<dm, budget>>
    BY <1>1 DEF FreezePoll, vars, kernel, IInv, ServerTyped, KernelTyped
  <2> QED  BY <2>1 DEF IInv
<1>2. ASSUME NEW t \in Tids, FreezeStatus(t) PROVE IInv'
  <2>1. wstat[t] \in Status
    BY <1>2 DEF FreezeStatus, Reportable, IInv, KernelTyped
  <2>2. Good(SigstopArrived(dm, t)) /\ Good(StorePendingSignal(dm, t, wstat[t]))
    BY <2>1, SigstopArrivedGood, StorePendingSignalGood DEF IInv
  <2>3. dm' \in {dm, SigstopArrived(dm, t), StorePendingSignal(dm, t, wstat[t])}
    BY <1>2 DEF FreezeStatus
  <2>4. Good(dm)'
    BY <2>2, <2>3 DEF IInv
  <2>5. ServerTyped'
    BY <1>2 DEF FreezeStatus, IInv, ServerTyped
  <2>6. Collected
    BY <1>2 DEF FreezeStatus, Collect, Collected, IInv, KernelTyped
  <2>7. KernelTyped'
    BY <1>2, <2>6, KernelSteps DEF FreezeStatus, IInv
  <2> QED  BY <1>2, <2>4, <2>5, <2>7 DEF FreezeStatus, IInv
<1> QED  BY <1>1, <1>2 DEF Wait

\* What get_debug_event and the requests do once every thread is frozen.
LEMMA FinishStep ==
    ASSUME IInv, Finish
    PROVE  IInv'
<1>1. /\ job.tid \in Tids
      /\ Good(Held(dm))
      /\ Main \in Tids
      /\ Exits \in SUBSET Status /\ Signals \cup {"SIGSTOP", "SIGTRAP"} \in SUBSET Status
    BY RunnableGood, TidsAssumption DEF IInv, ServerTyped, Jobs, Status, Stops
<1> DEFINE h == Held(dm)
<1> HIDE DEF h
<1>2. Good(h)
    BY <1>1 DEF h
<1>3. CASE EventReady
  <2>1. Good([h EXCEPT !.single_step[job.tid] = FALSE, !.last_tid = 0])
    BY <1>1, <1>2, ReportedGood
  <2> QED  BY <1>3, <2>1, ReturnStep DEF EventReady, h
<1>4. CASE AwaitedSigstop
  <2>1. Good([h EXCEPT !.waiting_sigstop[job.tid] = FALSE])
    BY <1>1, <1>2, FieldsGood
  <2> QED  BY <1>4, <2>1, ResumeStep DEF AwaitedSigstop, h
<1>5. CASE Trap
  <2>1. PICK own \in BOOLEAN, found \in {FALSE, "library" \in World} :
          LET t == job.tid
              id == IF own THEN "BREAKPOINT" ELSE IF dm.single_step[t] THEN "STEP" ELSE "EXCEPTION"
              signum == IF id # "EXCEPTION" \/ "SIGTRAP" \in Mask THEN None ELSE "SIGTRAP"
              m == LibraryEvents([h EXCEPT !.child_signum[t] = signum], found)
          IN IF id = "EXCEPTION" /\ "SIGTRAP" \notin BreakOn
             THEN Resume(m)
             ELSE Report(m, SignalEv(id, t, "SIGTRAP"))
    BY <1>5 DEF Trap, h
  <2> DEFINE id == IF own THEN "BREAKPOINT"
                   ELSE IF dm.single_step[job.tid] THEN "STEP" ELSE "EXCEPTION"
             signum == IF id # "EXCEPTION" \/ "SIGTRAP" \in Mask THEN None ELSE "SIGTRAP"
             k == [h EXCEPT !.child_signum[job.tid] = signum]
             m == LibraryEvents(k, found)
             e == SignalEv(id, job.tid, "SIGTRAP")
  <2>2. signum \in Status \cup {None} /\ id \in EventIds
    BY <1>1 DEF EventIds
  <2>3. Resume(m) \/ Report(m, e)
    BY <2>1
  <2> HIDE DEF id, signum
  <2>4. Good(k)
    BY <1>1, <1>2, <2>2, FieldsGood
  <2>5. Ev("LIBRARY_LOAD", Main) \in Event
    BY <1>1, EventTypes DEF EventIds
  <2>6. e \in Event
    BY <1>1, <2>2, EventTypes
  <2> HIDE DEF k, e
  <2>7. Good(m)
    BY <2>4, <2>5, EnqueueGood DEF LibraryEvents
  <2> QED  BY <2>3, <2>6, <2>7, ResumeStep, ReportStep
<1>6. CASE Signalled
  <2> DEFINE s == job.status
             signum == IF s \notin BreakOn /\ s \in Mask THEN None ELSE s
             k == [h EXCEPT !.child_signum[job.tid] = signum]
             e == SignalEv("EXCEPTION", job.tid, s)
  <2>1. s \in Status
    BY <1>1, <1>6 DEF Signalled
  <2>2. Resume(k) \/ Report(k, e)
    BY <1>6 DEF Signalled, h
  <2>3. e \in Event
    BY <1>1, <2>1, EventTypes DEF EventIds
  <2>4. signum \in Status \cup {None}
    BY <2>1
  <2> HIDE DEF e, signum
  <2>5. Good(k)
    BY <1>1, <1>2, <2>4, FieldsGood
  <2> QED  BY <2>2, <2>3, <2>5, ResumeStep, ReportStep
<1>7. CASE ProcessExit
  <2>1. Good([h EXCEPT !.exited = TRUE])
    BY <1>2, FlagsGood
  <2>2. Ev("PROCESS_EXIT", job.tid) \in Event
    BY <1>1, EventTypes DEF EventIds
  <2> QED  BY <1>7, <2>1, <2>2, ReportStep DEF ProcessExit, h
<1>8. CASE ThreadExit
  <2> DEFINE k == DeadThread(h, job.tid)
  <2>1. Good(k)
    BY <1>1, <1>2, DeadThreadGood
  <2> HIDE DEF k
  <2>2. Good([k EXCEPT !.last_tid = job.tid])
    BY <1>1, <2>1, ReportedGood
  <2> QED  BY <1>8, <2>2, ReturnStep DEF ThreadExit, h, k
<1>9. CASE MemoryAccessed
    BY <1>9, ThawStep DEF MemoryAccessed, IInv
<1>10. CASE ThreadSuspended
  <2>0. dm.user_suspend \in [Tids -> Nat]
    BY DEF IInv, Good, Typed
  <2>1. dm.user_suspend[job.tid] + 1 \in Nat
    BY <1>1, <2>0
  <2>2. Good([dm EXCEPT !.user_suspend[job.tid] = dm.user_suspend[job.tid] + 1])
    BY <1>1, <2>1, FieldsGood DEF IInv
  <2>3. Good(dm)'
    BY <1>10, <2>2 DEF ThreadSuspended
  <2>4. ServerTyped' /\ KernelTyped' /\ budget' = budget
    BY <1>10, KernelUnchanged, EventTypes DEF ThreadSuspended, IInv, ServerTyped
  <2> QED  BY <2>3, <2>4 DEF IInv
<1>11. CASE ProcessKilled
  <2>1. Good(dm)'
    BY <1>11, KilledGood DEF ProcessKilled, IInv
  <2>2. KernelTyped'
    BY <1>11, KernelSteps DEF ProcessKilled, IInv, Exits
  <2>3. ServerTyped' /\ budget' = budget
    BY <1>11, EventTypes DEF ProcessKilled, IInv, ServerTyped
  <2> QED  BY <2>1, <2>2, <2>3 DEF IInv
<1> QED  BY <1>3, <1>4, <1>5, <1>6, <1>7, <1>8, <1>9, <1>10, <1>11 DEF Finish

\* The requests that do not end a get_debug_event call.
LEMMA RequestStep ==
    ASSUME IInv, Request
    PROVE  IInv'
<1>1. ASSUME NEW S \in SUBSET Tids, NEW j \in Jobs, StartFreeze(dm, S, j), SendSigstop(queue'),
             UNCHANGED <<cur, failed, task, wstat, stopsig, child, budget>>
      PROVE  IInv'
  <2>1. Good(dm)' /\ ServerTyped'
    BY <1>1, FreezeGood DEF StartFreeze, IInv, ServerTyped
  <2>2. KernelTyped'
    BY <1>1, <2>1, KernelSteps DEF IInv, ServerTyped
  <2> QED  BY <1>1, <2>1, <2>2 DEF IInv
<1>2. CASE AccessMemory
    BY <1>1, <1>2, EventTypes, TidsAssumption DEF AccessMemory
<1>3. CASE ExitProcess
    BY <1>1, <1>3, EventTypes, TidsAssumption DEF ExitProcess
<1>4. ASSUME NEW t \in Tids, ThreadSuspend(t) PROVE IInv'
  <2>1. {t} \in SUBSET Tids /\ Job("suspend", t) \in Jobs
    BY EventTypes
  <2> QED  BY <1>1, <1>4, <2>1 DEF ThreadSuspend
<1>5. ASSUME NEW t \in Tids, ThreadContinue(t) PROVE IInv'
  <2> DEFINE m == [dm EXCEPT !.user_suspend[t] = @ - 1]
  <2>0. dm.user_suspend \in [Tids -> Nat]
    BY DEF IInv, Good, Typed
  <2>1. dm.user_suspend[t] - 1 \in Nat
    BY <1>5, <2>0 DEF ThreadContinue
  <2>2. Good(m)
    BY <2>1, FieldsGood DEF IInv
  <2>3. \/ dm' = m /\ UNCHANGED <<cur, pc, job, queue, failed, kernel, budget>>
        \/ DoThaw(m, {t}, "idle")
    BY <1>5 DEF ThreadContinue
  <2> HIDE DEF m
  <2>4. CASE dm' = m /\ UNCHANGED <<cur, pc, job, queue, failed, kernel, budget>>
    <3>1. ServerTyped' /\ KernelTyped'
      BY <2>4, KernelUnchanged DEF IInv, ServerTyped
    <3> QED  BY <2>2, <2>4, <3>1 DEF IInv
  <2>5. CASE DoThaw(m, {t}, "idle")
    <3>1. {t} \in SUBSET Tids
      OBVIOUS
    <3> QED  BY <2>2, <2>5, <3>1, ThawStep
  <2> QED  BY <2>3, <2>4, <2>5
<1>6. ASSUME NEW t \in Tids, SetResumeMode(t) PROVE IInv'
  <2>1. Good([dm EXCEPT !.single_step[t] = TRUE])
    BY FieldsGood DEF IInv
  <2>2. ServerTyped' /\ KernelTyped' /\ budget' = budget
    BY <1>6, KernelUnchanged DEF SetResumeMode, IInv, ServerTyped
  <2> QED  BY <1>6, <2>1, <2>2 DEF SetResumeMode, IInv
<1>7. CASE PrepareToPause
  <2>1. PICK first \in dm.threads :
          IF dm.events = << >>
          THEN /\ dm' = [dm EXCEPT !.waiting_sigstop[first] = TRUE,
                                   !.may_run = FALSE, !.requested_to_suspend = TRUE]
               /\ SendSigstop({Main})
          ELSE /\ dm' = [dm EXCEPT !.may_run = FALSE, !.requested_to_suspend = TRUE]
               /\ UNCHANGED sigs
    BY <1>7 DEF PrepareToPause
  <2>2. first \in Tids
    BY DEF IInv, Good, Typed
  <2>3. /\ Good([dm EXCEPT !.waiting_sigstop[first] = TRUE,
                           !.may_run = FALSE, !.requested_to_suspend = TRUE])
        /\ Good([dm EXCEPT !.may_run = FALSE, !.requested_to_suspend = TRUE])
    BY <2>2, PausedGood DEF IInv
  <2>4. Good(dm)'
    BY <2>1, <2>3
  <2>5. {Main} \in SUBSET Tids
    BY TidsAssumption
  <2>6. SendSigstop({Main}) \/ UNCHANGED sigs
    BY <2>1
  <2>7. Collected
    BY <1>7 DEF PrepareToPause, Collected, IInv, KernelTyped
  <2>8. KernelTyped'
    BY <2>5, <2>6, <2>7, KernelSteps DEF IInv
  <2>9. UNCHANGED <<cur, pc, job, queue, failed, budget>>
    BY <1>7 DEF PrepareToPause
  <2>10. ServerTyped'
    BY <2>9 DEF IInv, ServerTyped
  <2> QED  BY <2>4, <2>8, <2>9, <2>10 DEF IInv
<1> QED  BY <1>2, <1>3, <1>4, <1>5, <1>6, <1>7 DEF Request

\* dbg_continue_after_event, for every event and either answer.
LEMMA ContinueStep ==
    ASSUME IInv, ContinueAfterEvent
    PROVE  IInv'
<1> DEFINE t == cur.tid
           k == [dm EXCEPT !.child_signum[t] = None]
<1>1. t \in Tids
    BY DEF IInv, ServerTyped, Event
<1>2. Good(dm) /\ Good(k)
    BY <1>1, FieldsGood DEF IInv
<1>3. PICK handled \in BOOLEAN :
        LET keeps == \/ cur.eid \in {"THREAD_START", "THREAD_EXIT", "LIBRARY_LOAD"}
                     \/ cur.eid = "EXCEPTION" /\ ~handled
            m1 == IF t \in dm.threads /\ ~keeps THEN k ELSE dm
            m2 == IF t \in dm.threads /\ dm.state[t] = "DEAD" THEN DelThread(m1, t) ELSE m1
        IN IF t \notin dm.threads /\ cur.eid # "THREAD_EXIT" /\ ~dm.exited
           THEN UNCHANGED vars
           ELSE ResumeApp([m2 EXCEPT !.in_event = FALSE])
    BY DEF ContinueAfterEvent
<1> HIDE DEF k, t
<1>4. CASE UNCHANGED vars
  <2>1. ServerTyped' /\ KernelTyped' /\ UNCHANGED <<dm, budget>>
    BY <1>4 DEF vars, kernel, IInv, ServerTyped, KernelTyped
  <2> QED  BY <2>1 DEF IInv
<1>5. ASSUME NEW m, m \in {dm, k, DelThread(dm, t), DelThread(k, t)},
             ResumeApp([m EXCEPT !.in_event = FALSE])
      PROVE  IInv'
  <2>1. Good(m)
    BY <1>1, <1>2, <1>5, DelThreadGood
  <2>2. Good([m EXCEPT !.in_event = FALSE])
    BY <2>1, FlagsGood
  <2> QED  BY <1>5, <2>2, ResumeAppStep
<1> QED  BY <1>3, <1>4, <1>5

\* The debugged process and the delivery of signals touch the kernel only.
LEMMA ProcessStep ==
    ASSUME IInv, Process \/ Signal
    PROVE  IInv'
<1>1. ASSUME ServerUnchanged, KernelTyped', budget' \in Nat PROVE IInv'
  <2>1. ServerTyped'
    BY <1>1 DEF ServerUnchanged, IInv, ServerTyped
  <2> QED  BY <1>1, <2>1 DEF ServerUnchanged, IInv
<1>2. Spend => budget' \in Nat
    BY DEF Spend, IInv
<1>3. ASSUME NEW t \in Tids, NEW s \in Signals \cup {"SIGSTOP", "SIGTRAP"}, StopTask(t, s)
      PROVE  /\ task' \in [Tids -> {"none", "run", "stop", "zombie", "gone"}]
             /\ wstat' \in [Tids -> Status \cup {None}]
             /\ stopsig' \in [Tids -> Stops \cup {None}]
    BY <1>3 DEF StopTask, IInv, KernelTyped, Status, Stops
<1>4. ASSUME NEW t \in Tids, NEW s \in Signals \cup {"SIGSTOP"}, TakeSignal(t, s)
      PROVE  IInv'
  <2>1. KernelTyped'
    BY <1>3, <1>4 DEF TakeSignal, IInv, KernelTyped
  <2> QED  BY <1>1, <1>4, <2>1 DEF TakeSignal, IInv
<1>5. ASSUME NEW t \in Tids, HitTrap(t) PROVE IInv'
  <2>1. KernelTyped'
    BY <1>3, <1>5 DEF HitTrap, IInv, KernelTyped
  <2> QED  BY <1>1, <1>2, <1>5, <2>1 DEF HitTrap
<1>6. ASSUME NEW t \in Tids, NEW s \in Signals, RaiseSignal(t, s) PROVE IInv'
  <2>1. KernelTyped'
    BY <1>6 DEF RaiseSignal, IInv, KernelTyped
  <2> QED  BY <1>1, <1>2, <1>6, <2>1 DEF RaiseSignal
<1>7. ASSUME NEW t \in Tids, NEW u \in Tids, Clone(t, u) PROVE IInv'
  <2>1. KernelTyped'
    BY <1>7 DEF Clone, IInv, KernelTyped, Status, Stops
  <2> QED  BY <1>1, <1>2, <1>7, <2>1 DEF Clone
<1>8. ASSUME NEW t \in Tids, ExitThread(t) PROVE IInv'
  <2>1. KernelTyped'
    BY <1>8 DEF ExitThread, IInv, KernelTyped, Status, Exits
  <2> QED  BY <1>1, <1>2, <1>8, <2>1 DEF ExitThread
<1>9. ASSUME NEW t \in Tids, ExitGroup(t) PROVE IInv'
  <2>1. KernelTyped'
    BY <1>9, KernelSteps DEF ExitGroup, IInv, Exits
  <2> QED  BY <1>1, <1>2, <1>9, <2>1 DEF ExitGroup
<1>10. CASE Killed
  <2>1. KernelTyped'
    BY <1>10, KernelSteps DEF Killed, IInv, Exits
  <2> QED  BY <1>1, <1>2, <1>10, <2>1 DEF Killed
<1> QED  BY <1>4, <1>5, <1>6, <1>7, <1>8, <1>9, <1>10 DEF Process, Signal

\* No step of the server, the client, the kernel or the process breaks the
\* invariant.
THEOREM NextIInv == IInv /\ [Next]_vars => IInv'
<1> SUFFICES ASSUME IInv, [Next]_vars PROVE IInv'  OBVIOUS
<1>1. CASE UNCHANGED vars
  <2>1. ServerTyped' /\ KernelTyped' /\ UNCHANGED <<dm, budget>>
    BY <1>1 DEF vars, kernel, IInv, ServerTyped, KernelTyped
  <2> QED  BY <2>1 DEF IInv
<1>2. CASE GetDebugEvent
  <2>1. ServerTyped' /\ KernelTyped' /\ UNCHANGED <<dm, budget>>
    BY <1>2, KernelUnchanged DEF GetDebugEvent, IInv, ServerTyped
  <2> QED  BY <2>1 DEF IInv
<1>3. CASE ContinueAfterEvent
    BY <1>3, ContinueStep
<1>4. CASE Poll
    BY <1>4, PollStep
<1>5. CASE Wait
    BY <1>5, WaitStep
<1>6. CASE Finish
    BY <1>6, FinishStep
<1>7. CASE Request
    BY <1>7, RequestStep
<1>8. CASE Signal \/ Process
    BY <1>8, ProcessStep
<1>9. CASE Over
    BY <1>1, <1>9 DEF Over
<1> QED  BY <1>1, <1>2, <1>3, <1>4, <1>5, <1>6, <1>7, <1>8, <1>9 DEF Next

\* Every reachable state is well typed: in particular no suspend_count and no
\* user_suspend ever goes below zero (dbg_thaw_threads, dbg_thread_continue),
\* whatever the number of threads, signals and requests.
THEOREM TypeCorrect == Spec => []TypeOK
<1>1. Spec => []IInv
    BY InitIInv, NextIInv, PTL DEF Spec
<1> QED  BY <1>1, IInvTypes, PTL

\* retrieve_pending_signal's test of npending_signals never hides a stored
\* signal, and the counter covers every signal that is stored: each path that
\* stores, takes or drops one keeps the two in step.
THEOREM NoSignalHidden == Spec => []PendingNeverHidden
<1>1. Spec => []IInv
    BY InitIInv, NextIInv, PTL DEF Spec
<1> QED  BY <1>1, IInvTypes, PTL

-----------------------------------------------------------------------------
(* What it means that the table agrees with the kernel *)

\* The tables of the kernel are parameters here: ta, st, sg and ch stand for
\* task, wstat, sigs and child before or after a step.  X says what the server
\* has taken from each thread and not yet dealt with.
Alive(ta, t) == ta[t] \in {"run", "stop"}

\* No task of the process is left.
Down(ta) == \A t \in Tids : ~Alive(ta, t)

\* The tables of the kernel among themselves: who has a status to collect, who
\* has signals to take, and that the leader is reaped last.
Kernel(ta, st, sg, ch) ==
    /\ \A t \in Tids :
        /\ ta[t] \in {"none", "run", "gone"} => st[t] = None
        /\ ta[t] = "zombie" => st[t] \in Exits
        /\ ta[t] = "stop" => st[t] \notin Exits
        /\ ~Alive(ta, t) => sg[t] = {}
        /\ ch[t] # t => ta[ch[t]] # "none"
        /\ st[t] = "SIGNALED" => Down(ta)
    /\ ta[Main] # "none"
    /\ ta[Main] = "gone" => \A t \in Tids : ta[t] \in {"none", "gone"}

\* An entry of the table whose task lives, against the kernel: stopped on both
\* sides or on neither, except for the status the server has in its hands, and
\* a SIGSTOP that is_running counts on is to come.
Known(m, x, ta, st, sg, t) ==
    t \in m.threads /\ Alive(ta, t) /\ x \notin Exits =>
        /\ m.state[t] # "DEAD"
        /\ m.state[t] = "STOPPED" \/ m.pending_status[t] # None => ta[t] = "stop" /\ st[t] = None
        /\ m.pending_status[t] # None => m.state[t] # "STOPPED"
        /\ ta[t] = "stop" /\ st[t] = None =>
              m.state[t] = "STOPPED" \/ m.pending_status[t] # None \/ x = "CLONE"
        /\ m.waiting_sigstop[t] => "SIGSTOP" \in sg[t] \/ st[t] = "SIGSTOP" \/ x = "SIGSTOP"

\* An entry of the table, whatever its task does: nothing runs that is held
\* back, and a stored exit is that of a reaped task.
Entry(m, x, ta, t) ==
    t \in m.threads =>
        /\ ta[t] # "none"
        /\ ta[t] = "zombie" /\ (m.state[t] # "RUNNING" \/ m.pending_status[t] # None) => Down(ta)
        /\ m.pending_status[t] \in Stops /\ ~m.exited /\ x \notin Exits => m.state[t] # "STOPPED"
        /\ IsRunning(m, t) => m.suspend_count[t] = 0 /\ (m.exited \/ m.user_suspend[t] = 0)
        /\ m.pending_status[t] \in Exits => ta[t] = "gone"

\* A task that is not in the table is new, and stopped or about to stop with its
\* own SIGSTOP, or it is dead.
Unseen(m, ta, st, sg, t) ==
    t \notin m.threads =>
        /\ Alive(ta, t) => IF ta[t] = "run" THEN sg[t] = {"SIGSTOP"} /\ t \notin m.seen_threads
                           ELSE sg[t] = {} /\ st[t] = IF t \in m.seen_threads THEN None ELSE "SIGSTOP"
        /\ t \in Deleted(m) => ta[t] \in {"zombie", "gone"}
        /\ t \in m.seen_threads => ta[t] # "none"

\* The clone event of p has not been looked at.
OpenClone(m, ta, st, p) ==
    p \in m.threads /\ Alive(ta, p) /\ "CLONE" \in {st[p], m.pending_status[p]}

\* Each task that is not in the table is announced by the clone event of one parent.
Clones(m, ta, st, ch) ==
    /\ \A p \in Tids : OpenClone(m, ta, st, p) => Alive(ta, ch[p]) /\ ch[p] \notin m.threads
    /\ \A p, q \in Tids : OpenClone(m, ta, st, p) /\ OpenClone(m, ta, st, q) /\ ch[p] = ch[q] => p = q
    /\ \A t \in Tids : Alive(ta, t) /\ t \notin m.threads =>
            \E p \in Tids : OpenClone(m, ta, st, p) /\ ch[p] = t

\* The object m, with X in the server's hands, fits the tables of the kernel.
Fit(m, X, ta, st, sg, ch) ==
    /\ \A t \in Tids : /\ Known(m, X[t], ta, st, sg, t)
                       /\ Entry(m, X[t], ta, t)
                       /\ Unseen(m, ta, st, sg, t)
    /\ Clones(m, ta, st, ch)
    /\ m.seen_threads \cap m.threads = {}
    /\ m.exited => Down(ta)
    /\ Main \in m.threads \/ Down(ta)
    /\ QwaitStub => \A t \in Tids : m.pending_status[t] = None

\* No thread runs as far as the server knows.
Quiet(m) == \A t \in m.threads : ~IsRunning(m, t)

\* An event that waits, or that the client holds, means that no thread runs;
\* may_run means that there is none.
Hushed(m, ta) ==
    /\ m.in_event \/ m.events # << >> => Quiet(m) \/ Down(ta)
    /\ m.may_run /\ ~m.exited => m.events = << >> /\ ~m.in_event

\* PROCESS_EXIT waits for the client, or the client has it.
Ended(m, e) == e.eid = "PROCESS_EXIT" \/ \E i \in 1 .. Len(m.events) : m.events[i].eid = "PROCESS_EXIT"

\* A reaped task is still in the table only while its exit is to be reported.
Reaped(m, X, ta, e) ==
    \A t \in m.threads : ta[t] = "gone" => m.pending_status[t] \in Exits \/ X[t] \in Exits \/ Ended(m, e)

\* What the server has in its hands: the status of the event it freezes the
\* process for; during handle_extended_wait the clone event of the parent, and
\* the new thread, whose entry says nothing yet (written as an exit).
Taken == [t \in Tids |->
            IF pc \in {"freeze", "halt"} /\ job.for = "event" /\ job.tid = t THEN job.status
            ELSE IF pc = "newborn" /\ job.tid = t THEN "CLONE"
            ELSE IF pc = "newborn" /\ child[job.tid] = t THEN "EXITED"
            ELSE None]

\* dbg_freeze_threads and what it is called for: who is awaited, and what has
\* been established before the call.
Freezing ==
    pc = "freeze" =>
        /\ job.for \in {"event", "memory", "suspend", "exit"}
        /\ \A t \in queue : /\ t \in dm.threads /\ dm.state[t] = "RUNNING"
                            /\ dm.waiting_sigstop[t] /\ dm.pending_status[t] = None
        /\ job.for # "suspend" => Quiet(dm)
        /\ job.for \in {"event", "suspend"} => job.tid \in dm.threads /\ ~IsRunning(dm, job.tid)
        /\ job.for = "event" => /\ dm.state[job.tid] = "STOPPED" /\ job.status # None
                                /\ job.ready <=> job.status = "CLONE"
                                /\ job.status \in Exits => task[job.tid] = "gone"
        /\ job.for # "event" => ~dm.exited
        /\ ~Ended(dm, cur)

\* handle_extended_wait while it waits for the first stop of the new thread.
Birth ==
    pc = "newborn" =>
        LET p == job.tid
            u == child[p]
        IN /\ u # p /\ p \in dm.threads /\ u \in dm.threads
           /\ job.status = "CLONE"
           /\ dm.state[p] # "STOPPED" /\ dm.pending_status[p] = None
           /\ dm.state[u] = "STOPPED" /\ dm.pending_status[u] = None /\ ~dm.waiting_sigstop[u]
           /\ Alive(task, p) <=> Alive(task, u)
           /\ Alive(task, p) => task[p] = "stop" /\ wstat[p] = None
           /\ Alive(task, u) => \/ task[u] = "run" /\ sigs[u] = {"SIGSTOP"}
                                \/ task[u] = "stop" /\ sigs[u] = {} /\ wstat[u] = "SIGSTOP"
           /\ task[u] # "gone"
           /\ ~Ended(dm, cur) /\ dm.events = << >>

\* get_debug_event is asked for no event while the client holds one.
Asked == pc \in {"poll", "newborn"} \/ (pc = "freeze" /\ job.for = "event") =>
             ~dm.in_event \/ dm.exited

\* The table of threads agrees with the kernel wherever the server is: the
\* inductive invariant behind the properties of the table.
Agree ==
    /\ Kernel(task, wstat, sigs, child)
    /\ Fit(dm, Taken, task, wstat, sigs, child)
    /\ Hushed(dm, task)
    /\ pc # "halt" => Reaped(dm, Taken, task, cur)
    /\ Freezing
    /\ Birth
    /\ Asked
    /\ pc = "poll" => cur.eid # "PROCESS_EXIT"
    /\ Ended(dm, cur) => dm.exited
    /\ pc \notin {"freeze", "halt"} => queue = {}
    /\ pc = "halt" => Down(task) /\ \A t \in dm.threads : task[t] = "gone" => ~IsRunning(dm, t)
    /\ failed \in {0, 30185}
    /\ failed = 0 => pc # "halt"

\* The types of the kernel's tables.
Tables(ta, st, sg, ch) ==
    /\ ta \in [Tids -> {"none", "run", "stop", "zombie", "gone"}]
    /\ st \in [Tids -> Status \cup {None}]
    /\ sg \in [Tids -> SUBSET (Signals \cup {"SIGSTOP"})]
    /\ ch \in [Tids -> Tids]

\* The wait statuses are the exits and the stops, and None is neither.
LEMMA StatusFacts ==
    /\ Exits \cap Stops = {}
    /\ None \notin Exits /\ None \notin Stops
    /\ Status = Exits \cup Stops
    /\ "CLONE" \in Stops /\ "SIGSTOP" \in Stops /\ "SIGTRAP" \in Stops
    /\ "EXITED" \in Exits /\ "SIGNALED" \in Exits
    /\ None # "CLONE" /\ None # "SIGSTOP" /\ None # "SIGTRAP" /\ None # "SIGNALED"
BY SignalsAssumption DEF Exits, Stops, Status, None

\* The fields Fit depends on.
FitFields == {"threads", "state", "suspend_count", "user_suspend", "waiting_sigstop",
              "pending_status", "deleted_threads", "seen_threads", "exited"}

\* A change to the other fields leaves Fit alone.
LEMMA SameFit ==
    ASSUME NEW m, NEW n, NEW X, NEW ta, NEW st, NEW sg, NEW ch,
           Fit(m, X, ta, st, sg, ch), \A f \in FitFields : n[f] = m[f]
    PROVE  Fit(n, X, ta, st, sg, ch)
<1>1. /\ n.threads = m.threads /\ n.state = m.state /\ n.suspend_count = m.suspend_count
      /\ n.user_suspend = m.user_suspend /\ n.waiting_sigstop = m.waiting_sigstop
      /\ n.pending_status = m.pending_status /\ n.deleted_threads = m.deleted_threads
      /\ n.seen_threads = m.seen_threads /\ n.exited = m.exited
    BY DEF FitFields
<1>2. \A t \in Tids : Known(n, X[t], ta, st, sg, t) /\ Entry(n, X[t], ta, t) /\ Unseen(n, ta, st, sg, t)
    BY <1>1 DEF Fit, Known, Entry, Unseen, IsRunning, Deleted
<1>3. Clones(n, ta, st, ch)
    BY <1>1 DEF Fit, Clones, OpenClone
<1> QED BY <1>1, <1>2, <1>3 DEF Fit

\* What dbg_freeze_threads changes before it waits.
LEMMA FreezeFields ==
    ASSUME NEW m, Good(m), NEW S \in SUBSET Tids, NEW n, n = Freeze(m, S)
    PROVE  /\ \A f \in Fields \ {"suspend_count", "waiting_sigstop"} : n[f] = m[f]
           /\ \A t \in Tids :
                /\ n.suspend_count[t] = IF t \in m.threads \cap S THEN m.suspend_count[t] + 1
                                        ELSE m.suspend_count[t]
                /\ n.waiting_sigstop[t] = (m.waiting_sigstop[t] \/ t \in FreezeSet(m, S))
BY DEF Good, Shaped, Fields, Freeze

\* tkill(SIGSTOP) to the threads of S.
Stopping(sg2, sg, S, ta) ==
    \A t \in Tids : sg2[t] = IF t \in S /\ Alive(ta, t) THEN sg[t] \cup {"SIGSTOP"} ELSE sg[t]

\* Freezing the threads of S: each running one is marked and is sent the SIGSTOP
\* it is marked for.
LEMMA FreezeFit ==
    ASSUME NEW m, Good(m), NEW S \in SUBSET Tids, NEW n, n = Freeze(m, S),
           NEW X, NEW ta, NEW st, NEW sg, NEW ch, NEW sg2, Tables(ta, st, sg, ch),
           Fit(m, X, ta, st, sg, ch), Kernel(ta, st, sg, ch),
           Stopping(sg2, sg, FreezeSet(m, S), ta)
    PROVE  /\ Fit(n, X, ta, st, sg2, ch) /\ Kernel(ta, st, sg2, ch)
           /\ \A t \in FreezeSet(m, S) : /\ t \in n.threads /\ n.state[t] = "RUNNING"
                                         /\ n.waiting_sigstop[t] /\ n.pending_status[t] = None
           /\ \A t \in n.threads \cap S : ~IsRunning(n, t)
<1>1. /\ n.threads = m.threads /\ n.state = m.state
      /\ n.user_suspend = m.user_suspend
      /\ n.pending_status = m.pending_status /\ n.deleted_threads = m.deleted_threads
      /\ n.seen_threads = m.seen_threads /\ n.exited = m.exited
    BY FreezeFields DEF Fields
<1>2. \A t \in Tids :
                /\ n.suspend_count[t] = IF t \in m.threads \cap S THEN m.suspend_count[t] + 1
                                        ELSE m.suspend_count[t]
                /\ n.waiting_sigstop[t] = (m.waiting_sigstop[t] \/ t \in FreezeSet(m, S))
    BY FreezeFields
<1>3. \A t \in Tids : t \in FreezeSet(m, S) <=> t \in m.threads \cap S /\ IsRunning(m, t)
    BY DEF FreezeSet
<1>4. \A t \in FreezeSet(m, S) : /\ t \in n.threads /\ n.state[t] = "RUNNING"
                                 /\ n.waiting_sigstop[t] /\ n.pending_status[t] = None
    BY <1>1, <1>2, <1>3 DEF FreezeSet, IsRunning
<1>5. \A t \in n.threads \cap S : ~IsRunning(n, t)
    BY <1>1, <1>2, <1>3 DEF IsRunning
<1>6. Kernel(ta, st, sg2, ch)
    BY DEF Kernel, Stopping
<1>0. \A t \in Tids : /\ Known(m, X[t], ta, st, sg, t) /\ Entry(m, X[t], ta, t)
                      /\ Unseen(m, ta, st, sg, t)
                      /\ m.waiting_sigstop[t] \in BOOLEAN
    BY DEF Fit, Good, Typed
<1>7. ASSUME NEW t \in Tids
      PROVE Known(n, X[t], ta, st, sg2, t)
  <2>1. "SIGSTOP" \in sg[t] => "SIGSTOP" \in sg2[t]
    BY DEF Stopping
  <2>2. t \in FreezeSet(m, S) /\ Alive(ta, t) => "SIGSTOP" \in sg2[t]
    BY DEF Stopping
  <2>3. Known(m, X[t], ta, st, sg, t) /\ m.waiting_sigstop[t] \in BOOLEAN
    BY <1>0
  <2> QED BY <1>1, <1>2, <2>1, <2>2, <2>3 DEF Known
<1>8. ASSUME NEW t \in Tids
      PROVE Entry(n, X[t], ta, t)
    BY <1>0, <1>1, <1>2, <1>3, ZenonT(40) DEF Entry, IsRunning
<1>9. ASSUME NEW t \in Tids
      PROVE Unseen(n, ta, st, sg2, t)
  <2>1. Unseen(m, ta, st, sg, t) /\ Deleted(n) = Deleted(m)
    BY <1>0, <1>1 DEF Deleted
  <2>2. t \notin m.threads => sg2[t] = sg[t]
    BY <1>3 DEF Stopping
  <2> QED BY <1>1, <2>1, <2>2 DEF Unseen
<1>10. Clones(n, ta, st, ch)
    BY <1>1 DEF Fit, Clones, OpenClone
<1> QED BY <1>1, <1>4, <1>5, <1>6, <1>7, <1>8, <1>9, <1>10 DEF Fit

-----------------------------------------------------------------------------
(* dbg_thaw_threads *)

\* What is known of a thread and of its entry.
LEMMA FitAt ==
    ASSUME NEW m, Good(m), NEW X, NEW ta, NEW st, NEW sg, NEW ch, Fit(m, X, ta, st, sg, ch), NEW t \in Tids
    PROVE  /\ Known(m, X[t], ta, st, sg, t) /\ Entry(m, X[t], ta, t) /\ Unseen(m, ta, st, sg, t)
           /\ m.waiting_sigstop[t] \in BOOLEAN
           /\ m.suspend_count[t] \in Nat /\ m.user_suspend[t] \in Nat
           /\ m.pending_status[t] \in Status \cup {None}
           /\ m.state[t] \in {"RUNNING", "STOPPED", "DEAD"}
           /\ m.exited \in BOOLEAN
BY DEF Fit, Good, Typed

\* What dbg_thaw_threads changes.
LEMMA ThawFields ==
    ASSUME NEW m, Good(m), NEW S \in SUBSET Tids, NEW n, n = Thaw(m, S)
    PROVE  /\ \A f \in FitFields \ {"suspend_count", "state"} : n[f] = m[f]
           /\ n.in_event = m.in_event
           /\ FirstZombies(m, S) = {} => n.events = m.events /\ n.may_run = m.may_run
           /\ FirstZombies(m, S) # {} => /\ ~n.may_run
                /\ \E z \in FirstZombies(m, S) : n.events = Append(m.events, Ev("THREAD_EXIT", z))
           /\ \A t \in Tids :
                /\ n.suspend_count[t] =
                     IF t \in m.threads \cap S /\ ~IsRunning(m, t) /\ m.suspend_count[t] > 0
                     THEN m.suspend_count[t] - 1 ELSE m.suspend_count[t]
                /\ n.state[t] = IF t \in Restarted(m, S) THEN "RUNNING"
                                ELSE IF t \in FirstZombies(m, S) THEN "DEAD" ELSE m.state[t]
<1> DEFINE k == Thawed(m, S)
<1>1. /\ k.suspend_count = [t \in Tids |->
              IF t \in m.threads \cap S /\ ~IsRunning(m, t) /\ m.suspend_count[t] > 0
              THEN m.suspend_count[t] - 1 ELSE m.suspend_count[t]]
      /\ k.state = [t \in Tids |-> IF t \in Restarted(m, S) THEN "RUNNING"
                                   ELSE IF t \in FirstZombies(m, S) THEN "DEAD" ELSE m.state[t]]
      /\ \A f \in Fields \ {"suspend_count", "state"} : k[f] = m[f]
      /\ Shaped(k)
    BY DEF Good, Shaped, Fields, Thawed
<1> HIDE DEF k
<1>2. CASE FirstZombies(m, S) = {}
  <2>1. n = k
    BY <1>2 DEF Thaw, k
  <2> QED BY <1>1, <1>2, <2>1 DEF Fields, FitFields
<1>3. CASE FirstZombies(m, S) # {}
  <2> DEFINE z == CHOOSE t \in FirstZombies(m, S) : TRUE
  <2>1. z \in FirstZombies(m, S)
    BY <1>3
  <2>2. n = Enqueue(k, Ev("THREAD_EXIT", z))
    BY <1>3 DEF Thaw, k
  <2> HIDE DEF z
  <2>3. /\ \A f \in Fields \ {"events", "may_run"} : n[f] = k[f]
        /\ n.events = Append(k.events, Ev("THREAD_EXIT", z)) /\ ~n.may_run
    BY <1>1, <2>2 DEF Enqueue, Shaped, Fields
  <2>4. n.state = k.state /\ n.suspend_count = k.suspend_count /\ n.in_event = m.in_event /\ k.events = m.events
    BY <1>1, <2>3 DEF Fields
  <2>5. \A f \in FitFields \ {"suspend_count", "state"} : n[f] = m[f]
    BY <1>1, <2>3 DEF Fields, FitFields
  <2> QED BY <1>1, <1>3, <2>1, <2>3, <2>4, <2>5
<1> QED BY <1>2, <1>3

\* dbg_thaw_threads.
LEMMA ThawFit ==
    ASSUME NEW m, Good(m), NEW S \in SUBSET Tids, NEW n, n = Thaw(m, S),
           NEW X, \A t \in Tids : X[t] = None,
           KernelTyped,
           Fit(m, X, task, wstat, sigs, child), Kernel(task, wstat, sigs, child),
           NEW ta, NEW st,
           \A t \in Tids : /\ ta[t] = IF t \in Restarted(m, S) THEN "run" ELSE task[t]
                           /\ st[t] = IF t \in Restarted(m, S) THEN None ELSE wstat[t]
    PROVE  Fit(n, X, ta, st, sigs, child) /\ Kernel(ta, st, sigs, child)
<1>1. /\ n.threads = m.threads
      /\ n.user_suspend = m.user_suspend /\ n.waiting_sigstop = m.waiting_sigstop
      /\ n.pending_status = m.pending_status /\ n.deleted_threads = m.deleted_threads
      /\ n.seen_threads = m.seen_threads /\ n.exited = m.exited
    BY ThawFields DEF FitFields
<1>2. \A t \in Tids :
                /\ n.suspend_count[t] =
                     IF t \in m.threads \cap S /\ ~IsRunning(m, t) /\ m.suspend_count[t] > 0
                     THEN m.suspend_count[t] - 1 ELSE m.suspend_count[t]
                /\ n.state[t] = IF t \in Restarted(m, S) THEN "RUNNING"
                                ELSE IF t \in FirstZombies(m, S) THEN "DEAD" ELSE m.state[t]
    BY ThawFields
<1>3. \A t \in Restarted(m, S) :
        /\ t \in Tids /\ t \in m.threads /\ m.state[t] = "STOPPED" /\ m.suspend_count[t] <= 1
        /\ m.user_suspend[t] = 0 /\ m.pending_status[t] = None /\ ~m.exited /\ task[t] = "stop"
    BY DEF Restarted, Restartable
<1>3a. \A t \in Restarted(m, S) : t \in S
    BY DEF Restarted, Restartable
<1>4. \A t \in FirstZombies(m, S) :
        /\ t \in Tids /\ t \in m.threads /\ m.state[t] = "STOPPED" /\ task[t] = "zombie"
    BY DEF FirstZombies, Zombies, Restartable
<1>5. \A t \in Tids : Alive(ta, t) <=> Alive(task, t)
    BY <1>3 DEF Alive
<1>6. Down(ta) <=> Down(task)
    BY <1>5 DEF Down
<1>7. Kernel(ta, st, sigs, child)
  <2>1. ASSUME NEW t \in Tids
        PROVE  /\ ta[t] \in {"none", "run", "gone"} => st[t] = None
               /\ ta[t] = "zombie" => st[t] \in Exits
               /\ ta[t] = "stop" => st[t] \notin Exits
               /\ ~Alive(ta, t) => sigs[t] = {}
               /\ st[t] = "SIGNALED" => Down(ta)
    BY <1>3, <1>5, <1>6, StatusFacts DEF Kernel
  <2>2. \A t \in Tids : /\ ta[t] = "none" <=> task[t] = "none"
                        /\ ta[t] = "gone" <=> task[t] = "gone"
    BY <1>3
  <2>3. \A t \in Tids : child[t] \in Tids
    BY DEF KernelTyped
  <2>4. \A t \in Tids : child[t] # t => ta[child[t]] # "none"
    BY <2>2, <2>3 DEF Kernel
  <2>5. ta[Main] # "none" /\ (ta[Main] = "gone" => \A t \in Tids : ta[t] \in {"none", "gone"})
    BY <2>2, TidsAssumption DEF Kernel
  <2> QED BY <2>1, <2>4, <2>5 DEF Kernel
<1>8. ASSUME NEW t \in Tids PROVE Known(n, X[t], ta, st, sigs, t)
  <2>1. Known(m, None, task, wstat, sigs, t)
    BY FitAt
  <2>2. /\ ta[t] = IF t \in Restarted(m, S) THEN "run" ELSE task[t]
        /\ st[t] = IF t \in Restarted(m, S) THEN None ELSE wstat[t]
        /\ X[t] = None
    OBVIOUS
  <2>3. CASE t \in Restarted(m, S)
    BY <1>1, <1>2, <1>3, <2>1, <2>2, <2>3, StatusFacts DEF Known, Alive
  <2>4. CASE t \in FirstZombies(m, S) /\ t \notin Restarted(m, S)
    BY <1>4, <2>2, <2>4 DEF Known, Alive
  <2>5. CASE t \notin FirstZombies(m, S) /\ t \notin Restarted(m, S)
    BY <1>1, <1>2, <2>1, <2>2, <2>5 DEF Known, Alive
  <2> QED BY <2>3, <2>4, <2>5
<1>9. ASSUME NEW t \in Tids PROVE Entry(n, X[t], ta, t)
  <2>1. /\ Entry(m, None, task, t) /\ X[t] = None /\ None \notin Exits
        /\ m.suspend_count[t] \in Nat /\ m.user_suspend[t] \in Nat
        /\ m.waiting_sigstop[t] \in BOOLEAN
    BY FitAt, StatusFacts
  <2>2. ta[t] = IF t \in Restarted(m, S) THEN "run" ELSE task[t]
    OBVIOUS
  <2>3. CASE t \in Restarted(m, S)
    BY <1>1, <1>2, <1>3, <1>3a, <1>6, <2>1, <2>2, <2>3, StatusFacts DEF Entry, IsRunning
  <2>4. CASE t \in FirstZombies(m, S) /\ t \notin Restarted(m, S)
    BY <1>1, <1>2, <1>4, <1>6, <2>1, <2>2, <2>4 DEF Entry, IsRunning
  <2>5. CASE t \notin FirstZombies(m, S) /\ t \notin Restarted(m, S)
    BY <1>1, <1>2, <1>6, <2>1, <2>2, <2>5 DEF Entry, IsRunning
  <2> QED BY <2>3, <2>4, <2>5
<1>10. ASSUME NEW t \in Tids PROVE Unseen(n, ta, st, sigs, t)
  <2>1. Unseen(m, task, wstat, sigs, t)
    BY FitAt
  <2> QED BY <1>1, <1>3, <2>1 DEF Unseen, Deleted, Alive
<1>11. \A p \in Tids : OpenClone(n, ta, st, p) <=> OpenClone(m, task, wstat, p)
  <2> SUFFICES ASSUME NEW p \in Tids PROVE OpenClone(n, ta, st, p) <=> OpenClone(m, task, wstat, p)
    OBVIOUS
  <2>1. Known(m, None, task, wstat, sigs, p) /\ X[p] = None
    BY FitAt
  <2>2. CASE p \in Restarted(m, S)
    BY <1>1, <1>3, <1>5, <2>1, <2>2, StatusFacts DEF OpenClone, Known, Alive
  <2>3. CASE p \notin Restarted(m, S)
    BY <1>1, <1>5, <2>3 DEF OpenClone
  <2> QED BY <2>2, <2>3
<1>12. Clones(n, ta, st, child)
  <2>1. Clones(m, task, wstat, child)
    BY DEF Fit
  <2>2. \A p \in Tids : child[p] \in Tids
    BY DEF KernelTyped
  <2> QED BY <1>1, <1>5, <1>11, <2>1, <2>2 DEF Clones
<1> QED BY <1>1, <1>6, <1>7, <1>8, <1>9, <1>10, <1>12 DEF Fit

-----------------------------------------------------------------------------
(* Taking a status *)

\* The tables after the status of t was collected.
Collects(t, ta, st, ta2, st2) ==
    \A u \in Tids : /\ ta2[u] = IF u = t /\ st[t] \in Exits THEN "gone" ELSE ta[u]
                    /\ st2[u] = IF u = t THEN None ELSE st[u]

\* waitpid: the exit of the leader comes last.
LEMMA CollectKernel ==
    ASSUME NEW ta, NEW st, NEW sg, NEW ch, Tables(ta, st, sg, ch), Kernel(ta, st, sg, ch),
           NEW t \in Tids, st[t] # None,
           t = Main /\ st[t] \in Exits => \A u \in Tids \ {Main} : ta[u] \in {"none", "gone"},
           NEW ta2, NEW st2, Collects(t, ta, st, ta2, st2)
    PROVE  /\ Kernel(ta2, st2, sg, ch)
           /\ \A u \in Tids : Alive(ta2, u) <=> Alive(ta, u)
           /\ \A u \in Tids : ta2[u] = "none" <=> ta[u] = "none"
           /\ Down(ta2) <=> Down(ta)
           /\ ta[t] = IF st[t] \in Exits THEN "zombie" ELSE "stop"
<1>1. ta[t] = IF st[t] \in Exits THEN "zombie" ELSE "stop"
    BY DEF Kernel, Tables
<1>2. \A u \in Tids : Alive(ta2, u) <=> Alive(ta, u)
    BY <1>1 DEF Collects, Alive
<1>3. \A u \in Tids : ta2[u] = "none" <=> ta[u] = "none"
    BY <1>1 DEF Collects
<1>4. Down(ta2) <=> Down(ta)
    BY <1>2 DEF Down
<1>5. \A u \in Tids : ch[u] \in Tids
    BY DEF Tables
<1>6. ASSUME NEW u \in Tids
      PROVE  /\ ta2[u] \in {"none", "run", "gone"} => st2[u] = None
             /\ ta2[u] = "zombie" => st2[u] \in Exits
             /\ ta2[u] = "stop" => st2[u] \notin Exits
             /\ ~Alive(ta2, u) => sg[u] = {}
             /\ ch[u] # u => ta2[ch[u]] # "none"
             /\ st2[u] = "SIGNALED" => Down(ta2)
    BY <1>1, <1>2, <1>3, <1>4, <1>5, StatusFacts DEF Kernel, Collects
<1>7. ta2[Main] # "none"
    BY <1>3, TidsAssumption DEF Kernel
<1>8. ta2[Main] = "gone" => \A u \in Tids : ta2[u] \in {"none", "gone"}
  <2>1. CASE ta[Main] = "gone"
    BY <1>1, <2>1, TidsAssumption DEF Kernel, Collects
  <2>2. CASE ta[Main] # "gone"
    BY <2>2, TidsAssumption DEF Collects
  <2> QED BY <2>1, <2>2
<1> QED BY <1>1, <1>2, <1>3, <1>4, <1>6, <1>7, <1>8 DEF Kernel

\* The thread whose status is handled is marked as stopped.
StopsEntry(m, n, t) ==
    /\ \A f \in FitFields \ {"state"} : n[f] = m[f]
    /\ \A u \in Tids : n.state[u] = IF u = t THEN "STOPPED" ELSE m.state[u]

\* waitpid hands over a status that is not a clone event.
LEMMA TakenFit ==
    ASSUME NEW m, Good(m), NEW X, NEW ta, NEW st, NEW sg, NEW ch, Tables(ta, st, sg, ch),
           Fit(m, X, ta, st, sg, ch), Kernel(ta, st, sg, ch),
           NEW t \in m.threads, X[t] = None, st[t] # None, st[t] # "CLONE",
           t = Main /\ st[t] \in Exits => \A u \in Tids \ {Main} : ta[u] \in {"none", "gone"},
           NEW n, StopsEntry(m, n, t),
           NEW X2, \A u \in Tids : X2[u] = IF u = t THEN st[t] ELSE X[u],
           NEW ta2, NEW st2, Collects(t, ta, st, ta2, st2)
    PROVE  Fit(n, X2, ta2, st2, sg, ch)
<1>0. t \in Tids
    BY DEF Good, Typed
<1>1. /\ n.threads = m.threads /\ n.suspend_count = m.suspend_count
      /\ n.user_suspend = m.user_suspend /\ n.waiting_sigstop = m.waiting_sigstop
      /\ n.pending_status = m.pending_status /\ n.deleted_threads = m.deleted_threads
      /\ n.seen_threads = m.seen_threads /\ n.exited = m.exited
    BY DEF FitFields, StopsEntry
<1>2. /\ \A u \in Tids : Alive(ta2, u) <=> Alive(ta, u)
      /\ \A u \in Tids : ta2[u] = "none" <=> ta[u] = "none"
      /\ Down(ta2) <=> Down(ta)
      /\ ta[t] = IF st[t] \in Exits THEN "zombie" ELSE "stop"
    BY <1>0, CollectKernel
<1>3. \A u \in Tids : /\ ta2[u] = IF u = t /\ st[t] \in Exits THEN "gone" ELSE ta[u]
                      /\ st2[u] = IF u = t THEN None ELSE st[u]
                      /\ X2[u] = IF u = t THEN st[t] ELSE X[u]
                      /\ n.state[u] = IF u = t THEN "STOPPED" ELSE m.state[u]
    BY DEF Collects, StopsEntry
<1>8. ASSUME NEW u \in Tids PROVE Known(n, X2[u], ta2, st2, sg, u)
  <2>1. Known(m, X[u], ta, st, sg, u)
    BY FitAt
  <2>2. CASE u = t
    BY <1>1, <1>2, <1>3, <2>1, <2>2, StatusFacts DEF Known, Alive
  <2>3. CASE u # t
    BY <1>1, <1>2, <1>3, <2>1, <2>3 DEF Known, Alive
  <2> QED BY <2>2, <2>3
<1>9. ASSUME NEW u \in Tids PROVE Entry(n, X2[u], ta2, u)
  <2>1. Entry(m, X[u], ta, u)
    BY FitAt
  <2>2. Known(m, X[u], ta, st, sg, u)
    BY FitAt
  <2>3. CASE u = t
    BY <1>1, <1>2, <1>3, <2>1, <2>2, <2>3, StatusFacts DEF Entry, IsRunning, Known, Alive
  <2>4. CASE u # t
    BY <1>1, <1>2, <1>3, <2>1, <2>4 DEF Entry, IsRunning
  <2> QED BY <2>3, <2>4
<1>10. ASSUME NEW u \in Tids PROVE Unseen(n, ta2, st2, sg, u)
  <2>1. Unseen(m, ta, st, sg, u)
    BY FitAt
  <2> QED BY <1>1, <1>2, <1>3, <2>1 DEF Unseen, Deleted, Alive
<1>11. \A p \in Tids : OpenClone(n, ta2, st2, p) <=> OpenClone(m, ta, st, p)
    BY <1>1, <1>2, <1>3, StatusFacts DEF OpenClone
<1>12. Clones(n, ta2, st2, ch)
  <2>1. Clones(m, ta, st, ch)
    BY DEF Fit
  <2>2. \A p \in Tids : ch[p] \in Tids
    BY DEF Tables
  <2> QED BY <1>1, <1>2, <1>11, <2>1, <2>2 DEF Clones
<1> QED BY <1>1, <1>2, <1>8, <1>9, <1>10, <1>12 DEF Fit

\* retrieve_pending_signal hands over a stored one.
LEMMA PendingFit ==
    ASSUME NEW m, Good(m), NEW X, NEW ta, NEW st, NEW sg, NEW ch, Tables(ta, st, sg, ch),
           Fit(m, X, ta, st, sg, ch), Kernel(ta, st, sg, ch),
           NEW t \in m.threads, X[t] = None, m.pending_status[t] \notin {None, "CLONE"},
           NEW n, \A f \in FitFields \ {"state", "pending_status"} : n[f] = m[f],
           \A u \in Tids : /\ n.state[u] = IF u = t THEN "STOPPED" ELSE m.state[u]
                           /\ n.pending_status[u] = IF u = t THEN None ELSE m.pending_status[u],
           NEW X2, \A u \in Tids : X2[u] = IF u = t THEN m.pending_status[t] ELSE X[u]
    PROVE  Fit(n, X2, ta, st, sg, ch)
<1>0. t \in Tids
    BY DEF Good, Typed
<1>1. /\ n.threads = m.threads /\ n.suspend_count = m.suspend_count
      /\ n.user_suspend = m.user_suspend /\ n.waiting_sigstop = m.waiting_sigstop
      /\ n.deleted_threads = m.deleted_threads
      /\ n.seen_threads = m.seen_threads /\ n.exited = m.exited
    BY DEF FitFields
<1>3. \A u \in Tids : /\ n.pending_status[u] = IF u = t THEN None ELSE m.pending_status[u]
                      /\ X2[u] = IF u = t THEN m.pending_status[t] ELSE X[u]
                      /\ n.state[u] = IF u = t THEN "STOPPED" ELSE m.state[u]
    OBVIOUS
<1>8. ASSUME NEW u \in Tids PROVE Known(n, X2[u], ta, st, sg, u)
  <2>1. Known(m, X[u], ta, st, sg, u)
    BY FitAt
  <2>2. CASE u = t
    BY <1>1, <1>3, <2>1, <2>2, StatusFacts DEF Known, Alive
  <2>3. CASE u # t
    BY <1>1, <1>3, <2>1, <2>3 DEF Known, Alive
  <2> QED BY <2>2, <2>3
<1>9. ASSUME NEW u \in Tids PROVE Entry(n, X2[u], ta, u)
  <2>1. Entry(m, X[u], ta, u)
    BY FitAt
  <2>3. CASE u = t
    BY <1>1, <1>3, <2>1, <2>3, StatusFacts DEF Entry, IsRunning
  <2>4. CASE u # t
    BY <1>1, <1>3, <2>1, <2>4 DEF Entry, IsRunning
  <2> QED BY <2>3, <2>4
<1>10. ASSUME NEW u \in Tids PROVE Unseen(n, ta, st, sg, u)
  <2>1. Unseen(m, ta, st, sg, u)
    BY FitAt
  <2> QED BY <1>1, <1>3, <2>1 DEF Unseen, Deleted
<1>11. \A p \in Tids : OpenClone(n, ta, st, p) <=> OpenClone(m, ta, st, p)
    BY <1>1, <1>3, StatusFacts DEF OpenClone
<1>12. Clones(n, ta, st, ch)
  <2>1. Clones(m, ta, st, ch)
    BY DEF Fit
  <2>2. \A p \in Tids : ch[p] \in Tids
    BY DEF Tables
  <2> QED BY <1>1, <1>11, <2>1, <2>2 DEF Clones
<1>13. QwaitStub => \A u \in Tids : n.pending_status[u] = None
    BY <1>3 DEF Fit
<1> QED BY <1>1, <1>8, <1>9, <1>10, <1>12, <1>13 DEF Fit

-----------------------------------------------------------------------------
(* Clone events *)

\* handle_extended_wait takes the clone event of p: the new thread joins the
\* table.  Its own stop was seen before (S = {u}), or is waited for (S = {}).
LEMMA CloneFit ==
    ASSUME NEW m, Good(m), NEW X, NEW ta, NEW st, NEW sg, NEW ch, Tables(ta, st, sg, ch),
           Fit(m, X, ta, st, sg, ch), Kernel(ta, st, sg, ch),
           NEW p \in Tids, X[p] = None, OpenClone(m, ta, st, p), NEW u, u = ch[p], X[u] = None,
           m.pending_status[p] # None => m.suspend_count[p] = 0 /\ m.user_suspend[p] = 0,
           NEW n, n.exited = m.exited, n.deleted_threads = m.deleted_threads,
           n.threads = m.threads \cup {u}, n.seen_threads = m.seen_threads \ {u},
           \A t \in Tids :
              /\ n.state[t] = IF t = u \/ (t = p /\ u \in m.seen_threads) THEN "STOPPED" ELSE m.state[t]
              /\ n.pending_status[t] = IF t = p \/ t = u THEN None ELSE m.pending_status[t]
              /\ n.suspend_count[t] = IF t = u THEN 0 ELSE m.suspend_count[t]
              /\ n.user_suspend[t] = IF t = u THEN 0 ELSE m.user_suspend[t]
              /\ t # u => n.waiting_sigstop[t] = m.waiting_sigstop[t],
           ~n.waiting_sigstop[u],
           NEW X2, \A t \in Tids : X2[t] = IF t = p THEN "CLONE"
                                           ELSE IF t = u /\ u \notin m.seen_threads THEN "EXITED" ELSE X[t],
           NEW st2, \A t \in Tids : st2[t] = IF t = p THEN None ELSE st[t]
    PROVE  /\ Fit(n, X2, ta, st2, sg, ch) /\ Kernel(ta, st2, sg, ch)
           /\ u \in Tids /\ u # p /\ u \notin m.threads /\ Alive(ta, u) /\ ta[p] = "stop"
           /\ m.state[p] # "STOPPED"
<1> DEFINE seen == u \in m.seen_threads
<1>1. u \in Tids /\ ch \in [Tids -> Tids]
    BY DEF Tables
<1>2. p \in m.threads /\ Alive(ta, p) /\ "CLONE" \in {st[p], m.pending_status[p]}
    BY DEF OpenClone
<1>3. Alive(ta, u) /\ u \notin m.threads
    BY DEF Fit, Clones
<1>4. u # p
    BY <1>2, <1>3
<1>5. Known(m, None, ta, st, sg, p)
    BY FitAt
<1>6. ta[p] = "stop" /\ m.state[p] # "STOPPED"
    BY <1>2, <1>5, StatusFacts DEF Known, Kernel, Alive
<1>6a. \/ st[p] = "CLONE" /\ m.pending_status[p] = None
       \/ st[p] = None /\ m.pending_status[p] = "CLONE"
    BY <1>2, <1>5, StatusFacts DEF Known
<1>7. Unseen(m, ta, st, sg, u)
    BY <1>1, FitAt
<1>7a. ta[u] \in {"run", "stop"}
    BY <1>3 DEF Alive
<1>8. /\ seen => ta[u] = "stop" /\ sg[u] = {} /\ st[u] = None
      /\ ~seen => \/ ta[u] = "run" /\ sg[u] = {"SIGSTOP"}
                  \/ ta[u] = "stop" /\ sg[u] = {} /\ st[u] = "SIGSTOP"
    BY <1>3, <1>7, <1>7a DEF Unseen
<1>8a. st[u] # "CLONE"
    BY <1>1, <1>7a, <1>8, StatusFacts DEF Kernel
<1>9. Kernel(ta, st2, sg, ch)
  <2>1. st2[Main] \in {st[Main], None}  BY TidsAssumption
  <2> QED BY <1>6, StatusFacts DEF Kernel
<1>10. ASSUME NEW t \in Tids PROVE Known(n, X2[t], ta, st2, sg, t)
  <2>1. Known(m, X[t], ta, st, sg, t)
    BY FitAt
  <2>2. CASE t = u
    BY <1>4, <1>8, <2>2, StatusFacts DEF Known
  <2>3. CASE t = p
    <3>1. X2[t] = "CLONE" /\ n.pending_status[t] = None /\ st2[t] = None
          /\ n.waiting_sigstop[t] = m.waiting_sigstop[t]
          /\ n.state[t] = IF seen THEN "STOPPED" ELSE m.state[t]
      BY <1>4, <2>3
    <3>2. m.waiting_sigstop[t] => "SIGSTOP" \in sg[t]
      BY <1>2, <1>6a, <2>1, <2>3, StatusFacts DEF Known
    <3>3. m.state[t] # "DEAD"
      BY <1>2, <2>1, <2>3, StatusFacts DEF Known
    <3> QED BY <1>6, <2>3, <3>1, <3>2, <3>3, StatusFacts DEF Known
  <2>4. CASE t \notin {p, u}
    <3>1. /\ X2[t] = X[t] /\ n.pending_status[t] = m.pending_status[t] /\ st2[t] = st[t]
          /\ n.waiting_sigstop[t] = m.waiting_sigstop[t] /\ n.state[t] = m.state[t]
          /\ t \in n.threads <=> t \in m.threads
      BY <2>4
    <3> QED BY <2>1, <3>1 DEF Known
  <2> QED BY <2>2, <2>3, <2>4
<1>11. ASSUME NEW t \in Tids PROVE Entry(n, X2[t], ta, t)
  <2>1. Entry(m, X[t], ta, t)
    BY FitAt
  <2>2. CASE t = u
    BY <1>4, <1>7a, <2>2, StatusFacts DEF Entry, IsRunning
  <2>3. CASE t = p
    <3>1. IsRunning(m, t) => m.suspend_count[t] = 0 /\ (m.exited \/ m.user_suspend[t] = 0)
      BY <1>2, <2>1, <2>3 DEF Entry
    <3>2. IsRunning(n, t) => IsRunning(m, t) \/ m.pending_status[t] # None
      BY <1>4, <2>3 DEF IsRunning
    <3>3. n.pending_status[t] \notin Stops /\ n.pending_status[t] \notin Exits /\ ta[t] = "stop"
      BY <1>6, <2>3, StatusFacts
    <3>4. IsRunning(n, t) => n.suspend_count[t] = 0 /\ (m.exited \/ n.user_suspend[t] = 0)
      BY <1>4, <2>3, <3>1, <3>2
    <3> QED BY <3>3, <3>4 DEF Entry
  <2>4. CASE t \notin {p, u}
    <3>1. /\ X2[t] = X[t] /\ n.pending_status[t] = m.pending_status[t]
          /\ n.waiting_sigstop[t] = m.waiting_sigstop[t] /\ n.state[t] = m.state[t]
          /\ n.suspend_count[t] = m.suspend_count[t] /\ n.user_suspend[t] = m.user_suspend[t]
          /\ t \in n.threads <=> t \in m.threads
      BY <2>4
    <3> QED BY <2>1, <3>1 DEF Entry, IsRunning
  <2> QED BY <2>2, <2>3, <2>4
<1>12. ASSUME NEW t \in Tids PROVE Unseen(n, ta, st2, sg, t)
  <2>1. Unseen(m, ta, st, sg, t)
    BY FitAt
  <2>2. CASE t \in n.threads
    BY <2>2 DEF Unseen
  <2>3. CASE t \notin n.threads
    <3>1. t # u /\ t # p /\ t \notin m.threads /\ st2[t] = st[t]
          /\ (t \in n.seen_threads <=> t \in m.seen_threads) /\ Deleted(n) = Deleted(m)
      BY <1>2, <2>3 DEF Deleted
    <3> QED BY <2>1, <3>1 DEF Unseen
  <2> QED BY <2>2, <2>3
<1>13. Clones(m, ta, st, ch)
  BY DEF Fit
<1>14. ASSUME NEW q \in Tids PROVE OpenClone(n, ta, st2, q) <=> q # p /\ OpenClone(m, ta, st, q)
  <2>1. CASE q = u
    BY <1>3, <1>4, <1>8a, <2>1, StatusFacts DEF OpenClone
  <2>2. CASE q = p
    BY <1>4, <2>2, StatusFacts DEF OpenClone
  <2>3. CASE q \notin {p, u}
    BY <2>3 DEF OpenClone
  <2> QED BY <2>1, <2>2, <2>3
<1>15. \A q \in Tids : OpenClone(n, ta, st2, q) => Alive(ta, ch[q]) /\ ch[q] \notin n.threads
  BY <1>13, <1>14 DEF Clones
<1>16. \A q, r \in Tids : OpenClone(n, ta, st2, q) /\ OpenClone(n, ta, st2, r) /\ ch[q] = ch[r] => q = r
  BY <1>13, <1>14 DEF Clones
<1>17. ASSUME NEW t \in Tids, Alive(ta, t), t \notin n.threads
       PROVE  \E q \in Tids : OpenClone(n, ta, st2, q) /\ ch[q] = t
  <2>1. PICK q \in Tids : OpenClone(m, ta, st, q) /\ ch[q] = t
    BY <1>13, <1>17 DEF Clones
  <2>2. q # p
    BY <1>17, <2>1
  <2> QED BY <1>14, <2>1, <2>2
<1>18. Clones(n, ta, st2, ch)
  BY <1>15, <1>16, <1>17 DEF Clones
<1>19. n.seen_threads \cap n.threads = {}
  BY DEF Fit
<1>20. QwaitStub => \A t \in Tids : n.pending_status[t] = None
  BY DEF Fit
<1>21. Fit(n, X2, ta, st2, sg, ch)
  BY <1>10, <1>11, <1>12, <1>18, <1>19, <1>20 DEF Fit
<1> QED BY <1>1, <1>3, <1>4, <1>6, <1>8, <1>9, <1>21

-----------------------------------------------------------------------------
(* Statuses put aside, and entries removed *)

\* What store_pending_signal changes.
LEMMA StoreFields ==
    ASSUME NEW m, Good(m), NEW t \in Tids, NEW s \in Status, NEW n, n = StorePendingSignal(m, t, s)
    PROVE  /\ n.threads = m.threads /\ n.suspend_count = m.suspend_count
           /\ n.user_suspend = m.user_suspend /\ n.deleted_threads = m.deleted_threads
           /\ n.exited = m.exited /\ n.events = m.events /\ n.may_run = m.may_run
           /\ n.in_event = m.in_event
           /\ t \notin m.threads /\ t \notin Deleted(m) /\ s \in Stops =>
                \A u \in Tids : u \in n.seen_threads <=> u = t \/ u \in m.seen_threads
           /\ t \in m.threads \/ t \in Deleted(m) \/ s \notin Stops =>
                n.seen_threads = m.seen_threads
           /\ \A u \in Tids : u # t \/ t \notin m.threads =>
                /\ n.state[u] = m.state[u] /\ n.waiting_sigstop[u] = m.waiting_sigstop[u]
                /\ n.pending_status[u] = m.pending_status[u]
           /\ t \in m.threads /\ m.waiting_sigstop[t] /\ s = "SIGSTOP" =>
                /\ n.state[t] = "STOPPED" /\ ~n.waiting_sigstop[t]
                /\ n.pending_status[t] = m.pending_status[t]
           /\ t \in m.threads /\ ~(m.waiting_sigstop[t] /\ s = "SIGSTOP") =>
                /\ n.state[t] = m.state[t] /\ n.waiting_sigstop[t] = m.waiting_sigstop[t]
                /\ n.pending_status[t] = s
<1>1. CASE t \in m.threads /\ m.waiting_sigstop[t] /\ s = "SIGSTOP"
  <2>1. n = SigstopArrived(m, t)
    BY <1>1 DEF StorePendingSignal
  <2>2. /\ n.state = [m.state EXCEPT ![t] = "STOPPED"]
        /\ n.waiting_sigstop = [m.waiting_sigstop EXCEPT ![t] = FALSE]
        /\ \A f \in Fields \ {"state", "waiting_sigstop"} : n[f] = m[f]
    BY <2>1 DEF Good, Shaped, Fields, SigstopArrived
  <2>3. \A u \in Tids : u # t => n.state[u] = m.state[u] /\ n.waiting_sigstop[u] = m.waiting_sigstop[u]
    BY <2>2
  <2>4. n.state[t] = "STOPPED" /\ ~n.waiting_sigstop[t]
    BY <2>2 DEF Good, Typed
  <2> QED BY <1>1, <2>2, <2>3, <2>4 DEF Fields
<1>2. CASE t \in m.threads /\ ~(m.waiting_sigstop[t] /\ s = "SIGSTOP")
  <2>1. n = [m EXCEPT !.pending_status[t] = s, !.npending_signals = @ + 1]
    BY <1>2 DEF StorePendingSignal
  <2> QED BY <1>2, <2>1, ZenonT(40) DEF Good, Shaped, Fields, Typed
<1>3. CASE t \notin m.threads
  <2>1. n = IF t \notin Deleted(m) /\ s \in Stops
            THEN [m EXCEPT !.seen_threads = @ \cup {t}] ELSE m
    BY <1>3 DEF StorePendingSignal
  <2>2. \A f \in Fields \ {"seen_threads"} : n[f] = m[f]
    BY <2>1 DEF Good, Shaped, Fields
  <2>3. n.seen_threads = IF t \notin Deleted(m) /\ s \in Stops
                         THEN m.seen_threads \cup {t} ELSE m.seen_threads
    BY <2>1 DEF Good, Shaped, Fields
  <2> QED BY <1>3, <2>2, <2>3 DEF Fields
<1> QED BY <1>1, <1>2, <1>3

\* A status that nobody waits for is put aside.
LEMMA StoreFit ==
    ASSUME NEW m, Good(m), NEW X, NEW ta, NEW st, NEW sg, NEW ch, Tables(ta, st, sg, ch),
           Fit(m, X, ta, st, sg, ch), Kernel(ta, st, sg, ch), ~QwaitStub,
           NEW t \in Tids, st[t] # None, X[t] \notin Exits \/ st[t] \in Exits,
           t = Main /\ st[t] \in Exits => \A u \in Tids \ {Main} : ta[u] \in {"none", "gone"},
           NEW n, n = StorePendingSignal(m, t, st[t]),
           NEW ta2, NEW st2, Collects(t, ta, st, ta2, st2)
    PROVE  Fit(n, X, ta2, st2, sg, ch)
<1>0. st[t] \in Status
    BY DEF Tables
<1>1. /\ n.threads = m.threads /\ n.suspend_count = m.suspend_count
      /\ n.user_suspend = m.user_suspend /\ n.deleted_threads = m.deleted_threads
      /\ n.exited = m.exited
    BY <1>0, StoreFields
<1>2. /\ \A u \in Tids : Alive(ta2, u) <=> Alive(ta, u)
      /\ \A u \in Tids : ta2[u] = "none" <=> ta[u] = "none"
      /\ Down(ta2) <=> Down(ta)
      /\ ta[t] = IF st[t] \in Exits THEN "zombie" ELSE "stop"
    BY CollectKernel
<1>3. \A u \in Tids : /\ ta2[u] = IF u = t /\ st[t] \in Exits THEN "gone" ELSE ta[u]
                      /\ st2[u] = IF u = t THEN None ELSE st[u]
    BY DEF Collects
<1>4. st[t] \in Exits \/ st[t] \in Stops
    BY StatusFacts DEF Tables
<1> DEFINE stop == m.waiting_sigstop[t] /\ st[t] = "SIGSTOP"
<1>5. /\ \A u \in Tids : u # t \/ t \notin m.threads =>
            /\ n.state[u] = m.state[u] /\ n.waiting_sigstop[u] = m.waiting_sigstop[u]
            /\ n.pending_status[u] = m.pending_status[u]
      /\ t \in m.threads /\ stop =>
            /\ n.state[t] = "STOPPED" /\ ~n.waiting_sigstop[t]
            /\ n.pending_status[t] = m.pending_status[t]
      /\ t \in m.threads /\ ~stop =>
            /\ n.state[t] = m.state[t] /\ n.waiting_sigstop[t] = m.waiting_sigstop[t]
            /\ n.pending_status[t] = st[t]
    BY <1>0, StoreFields
<1>6. /\ t \notin m.threads /\ t \notin Deleted(m) /\ st[t] \in Stops =>
                \A u \in Tids : u \in n.seen_threads <=> u = t \/ u \in m.seen_threads
      /\ t \in m.threads \/ t \in Deleted(m) \/ st[t] \notin Stops =>
                n.seen_threads = m.seen_threads
    BY <1>0, StoreFields
<1>7. t \in m.threads => Known(m, X[t], ta, st, sg, t) /\ Entry(m, X[t], ta, t)
    BY FitAt
<1>8. t \in m.threads /\ st[t] \in Stops =>
         /\ X[t] \notin Exits /\ m.pending_status[t] = None /\ m.state[t] # "STOPPED"
         /\ m.state[t] # "DEAD" /\ Alive(ta, t)
    BY <1>2, <1>7, StatusFacts DEF Known, Alive
<1>10. ASSUME NEW u \in Tids PROVE Known(n, X[u], ta2, st2, sg, u)
  <2>1. Known(m, X[u], ta, st, sg, u)
    BY FitAt
  <2>2. CASE u # t
    BY <1>1, <1>2, <1>3, <1>5, <2>1, <2>2 DEF Known
  <2>3. CASE u = t /\ st[t] \in Exits
    BY <1>2, <1>3, <2>3 DEF Known, Alive
  <2>4. CASE u = t /\ st[t] \in Stops /\ t \in m.threads
    <3>1. ta2[t] = "stop" /\ st2[t] = None /\ X[t] \notin Exits
      BY <1>2, <1>3, <1>8, <2>4, StatusFacts
    <3>2. CASE stop
      BY <1>1, <1>5, <1>8, <2>4, <3>1, <3>2 DEF Known
    <3>3. CASE ~stop
      <4>1. n.pending_status[t] = st[t] /\ n.state[t] = m.state[t]
            /\ n.waiting_sigstop[t] = m.waiting_sigstop[t]
        BY <1>5, <2>4, <3>3
      <4>2. m.waiting_sigstop[t] => "SIGSTOP" \in sg[t] \/ X[t] = "SIGSTOP"
        BY <1>8, <2>1, <2>4, <3>3 DEF Known
      <4> QED BY <1>8, <2>4, <3>1, <4>1, <4>2, StatusFacts DEF Known
    <3> QED BY <3>2, <3>3
  <2>5. CASE u = t /\ t \notin m.threads
    BY <1>1, <2>5 DEF Known
  <2> QED BY <1>4, <2>2, <2>3, <2>4, <2>5
<1>11. ASSUME NEW u \in Tids PROVE Entry(n, X[u], ta2, u)
  <2>1. Entry(m, X[u], ta, u)
    BY FitAt
  <2>2. CASE u # t
    BY <1>1, <1>2, <1>3, <1>5, <2>1, <2>2 DEF Entry, IsRunning
  <2>3. CASE u = t /\ t \in m.threads /\ st[t] \in Exits
    <3>1. ta2[t] = "gone" /\ n.pending_status[t] = st[t] /\ st[t] # None /\ st[t] \notin Stops
      BY <1>3, <1>5, <2>3, StatusFacts
    <3> QED BY <2>3, <3>1 DEF Entry, IsRunning
  <2>4. CASE u = t /\ t \in m.threads /\ st[t] \in Stops
    <3>1. ta2[t] = "stop"
      BY <1>2, <1>3, <2>4, StatusFacts
    <3>2. CASE stop
      <4>1. n.state[t] = "STOPPED" /\ n.pending_status[t] = None
        BY <1>5, <1>8, <2>4, <3>2
      <4> QED BY <2>4, <3>1, <4>1, StatusFacts DEF Entry, IsRunning
    <3>3. CASE ~stop
      <4>1. n.state[t] = m.state[t] /\ n.pending_status[t] = st[t]
        BY <1>5, <2>4, <3>3
      <4> QED BY <1>8, <2>4, <3>1, <4>1, StatusFacts DEF Entry, IsRunning
    <3> QED BY <3>2, <3>3
  <2>5. CASE u = t /\ t \notin m.threads
    BY <1>1, <2>5 DEF Entry
  <2> QED BY <1>4, <2>2, <2>3, <2>4, <2>5
<1>12. ASSUME NEW u \in Tids PROVE Unseen(n, ta2, st2, sg, u)
  <2>1. Unseen(m, ta, st, sg, u) /\ Deleted(n) = Deleted(m)
    BY <1>1, FitAt DEF Deleted
  <2>2. CASE u # t
    BY <1>1, <1>2, <1>3, <1>6, <2>1, <2>2 DEF Unseen
  <2>3. CASE u = t /\ st[t] \in Exits
    BY <1>1, <1>2, <1>3, <2>1, <2>3, StatusFacts DEF Unseen, Alive
  <2>4. CASE u = t /\ st[t] \in Stops /\ t \notin m.threads
    <3>1. Alive(ta, t) /\ ta[t] = "stop" /\ ta2[t] = "stop" /\ st2[t] = None
      BY <1>2, <1>3, <2>4, StatusFacts DEF Alive
    <3>2. t \notin Deleted(m) /\ sg[t] = {}
      BY <2>1, <2>4, <3>1 DEF Unseen
    <3>3. t \in n.seen_threads
      BY <1>6, <2>4, <3>2
    <3> QED BY <2>1, <2>4, <3>1, <3>2, <3>3 DEF Unseen
  <2>5. CASE u = t /\ t \in m.threads
    BY <1>1, <2>5 DEF Unseen
  <2> QED BY <1>4, <2>2, <2>3, <2>4, <2>5
<1>13. ASSUME NEW p \in Tids PROVE OpenClone(n, ta2, st2, p) <=> OpenClone(m, ta, st, p)
  <2>1. CASE p # t
    BY <1>1, <1>2, <1>3, <1>5, <2>1 DEF OpenClone
  <2>2. CASE p = t /\ t \notin m.threads
    BY <1>1, <2>2 DEF OpenClone
  <2>3. CASE p = t /\ st[t] \in Exits
    BY <1>2, <1>3, <2>3 DEF OpenClone, Alive
  <2>4. CASE p = t /\ st[t] \in Stops /\ t \in m.threads
    <3>1. st2[t] = None /\ m.pending_status[t] = None /\ Alive(ta, t) /\ Alive(ta2, t)
      BY <1>2, <1>3, <1>8, <2>4
    <3>2. n.pending_status[t] = IF stop THEN None ELSE st[t]
      BY <1>5, <2>4, <3>1
    <3>3. stop => st[t] # "CLONE"
      OBVIOUS
    <3> QED BY <1>1, <2>4, <3>1, <3>2, <3>3, StatusFacts DEF OpenClone
  <2> QED BY <1>4, <2>1, <2>2, <2>3, <2>4
<1>14. Clones(n, ta2, st2, ch)
  <2>1. Clones(m, ta, st, ch)
    BY DEF Fit
  <2>2. \A p \in Tids : ch[p] \in Tids
    BY DEF Tables
  <2> QED BY <1>1, <1>2, <1>13, <2>1, <2>2 DEF Clones
<1>15. n.seen_threads \cap n.threads = {}
  <2>1. m.threads \in SUBSET Tids /\ m.seen_threads \cap m.threads = {}
    BY DEF Fit, Good, Typed
  <2> QED BY <1>1, <1>6, <2>1
<1> QED BY <1>1, <1>2, <1>10, <1>11, <1>12, <1>14, <1>15 DEF Fit

\* del_thread, and dead_thread with it.
LEMMA RemoveFit ==
    ASSUME NEW m, Good(m), NEW X, NEW ta, NEW st, NEW sg, NEW ch, Tables(ta, st, sg, ch),
           Fit(m, X, ta, st, sg, ch), Kernel(ta, st, sg, ch),
           NEW t \in m.threads, ta[t] \in {"zombie", "gone"}, t = Main => Down(ta),
           NEW n, n.exited = m.exited, n.seen_threads = m.seen_threads, n.state = m.state,
           n.suspend_count = m.suspend_count, n.user_suspend = m.user_suspend,
           n.waiting_sigstop = m.waiting_sigstop,
           n.threads = m.threads \ {t}, Deleted(n) \in SUBSET (Deleted(m) \cup {t}),
           \A u \in Tids : n.pending_status[u] = IF u = t THEN None ELSE m.pending_status[u],
           NEW X2, \A u \in Tids \ {t} : X2[u] = X[u]
    PROVE  Fit(n, X2, ta, st, sg, ch)
<1>0. t \in Tids /\ ~Alive(ta, t)
    BY DEF Good, Typed, Alive
<1>1. ASSUME NEW u \in Tids PROVE Known(n, X2[u], ta, st, sg, u)
  <2>1. Known(m, X[u], ta, st, sg, u)
    BY FitAt
  <2> QED BY <2>1 DEF Known
<1>2. ASSUME NEW u \in Tids PROVE Entry(n, X2[u], ta, u)
  <2>1. Entry(m, X[u], ta, u)
    BY FitAt
  <2> QED BY <2>1 DEF Entry, IsRunning
<1>3. ASSUME NEW u \in Tids PROVE Unseen(n, ta, st, sg, u)
  <2>1. Unseen(m, ta, st, sg, u)
    BY FitAt
  <2>2. CASE u = t
    BY <1>0, <2>2 DEF Unseen
  <2>3. CASE u # t
    BY <2>1, <2>3 DEF Unseen
  <2> QED BY <2>2, <2>3
<1>4. \A p \in Tids : OpenClone(n, ta, st, p) <=> OpenClone(m, ta, st, p)
    BY <1>0 DEF OpenClone
<1>5. Clones(n, ta, st, ch)
  <2>1. Clones(m, ta, st, ch)
    BY DEF Fit
  <2>2. \A p \in Tids : ch[p] \in Tids
    BY DEF Tables
  <2> QED BY <1>0, <1>4, <2>1, <2>2 DEF Clones
<1>6. n.seen_threads \cap n.threads = {}
    BY DEF Fit
<1>7. Main \in n.threads \/ Down(ta)
    BY DEF Fit
<1>8. (n.exited => Down(ta)) /\ (QwaitStub => \A u \in Tids : n.pending_status[u] = None)
    BY DEF Fit
<1> QED BY <1>1, <1>2, <1>3, <1>5, <1>6, <1>7, <1>8 DEF Fit

\* What was taken from t is dealt with.
LEMMA ForgetFit ==
    ASSUME NEW m, Good(m), NEW X, NEW ta, NEW st, NEW sg, NEW ch,
           Fit(m, X, ta, st, sg, ch),
           NEW t \in Tids, m.state[t] = "STOPPED" \/ t \notin m.threads,
           X[t] # "SIGSTOP" \/ ~m.waiting_sigstop[t] \/ ~Alive(ta, t),
           X[t] \in Exits => ~Alive(ta, t) /\ (m.exited \/ t \notin m.threads),
           NEW X2, \A u \in Tids : X2[u] = IF u = t THEN None ELSE X[u]
    PROVE  Fit(m, X2, ta, st, sg, ch)
<1>1. ASSUME NEW u \in Tids PROVE Known(m, X2[u], ta, st, sg, u)
  <2>1. Known(m, X[u], ta, st, sg, u)
    BY FitAt
  <2>2. CASE u = t
    BY <2>1, <2>2 DEF Known
  <2> QED BY <2>1, <2>2 DEF Known
<1>2. ASSUME NEW u \in Tids PROVE Entry(m, X2[u], ta, u)
  <2>1. Entry(m, X[u], ta, u)
    BY FitAt
  <2> QED BY <2>1 DEF Entry
<1> QED BY <1>1, <1>2 DEF Fit

\* A process that is down: only the entries count.
LEMMA DownFit ==
    ASSUME NEW m, Good(m), NEW X, NEW ta, NEW st, NEW sg, NEW ch, Down(ta),
           \A t \in m.threads : ta[t] # "none",
           \A t \in (Deleted(m) \cup m.seen_threads) \ m.threads : ta[t] # "none",
           ta \in [Tids -> {"none", "run", "stop", "zombie", "gone"}],
           m.seen_threads \cap m.threads = {}, QwaitStub => \A t \in Tids : m.pending_status[t] = None,
           \A t \in m.threads : /\ m.pending_status[t] \in Stops /\ ~m.exited /\ X[t] \notin Exits
                                      => m.state[t] # "STOPPED"
                                /\ IsRunning(m, t) => /\ m.suspend_count[t] = 0
                                                      /\ m.exited \/ m.user_suspend[t] = 0
                                /\ m.pending_status[t] \in Exits => ta[t] = "gone"
    PROVE  Fit(m, X, ta, st, sg, ch)
<1>1. \A t \in Tids : ~Alive(ta, t)
    BY DEF Down
<1>2. Clones(m, ta, st, ch)
    BY <1>1 DEF Clones, OpenClone
<1>3. ASSUME NEW t \in Tids
      PROVE Known(m, X[t], ta, st, sg, t) /\ Entry(m, X[t], ta, t) /\ Unseen(m, ta, st, sg, t)
  <2>1. Known(m, X[t], ta, st, sg, t)
    BY <1>1 DEF Known
  <2>2. Entry(m, X[t], ta, t)
    BY DEF Entry
  <2>3. Unseen(m, ta, st, sg, t)
    BY <1>1 DEF Unseen, Alive
  <2> QED BY <2>1, <2>2, <2>3
<1> QED BY <1>2, <1>3 DEF Fit

-----------------------------------------------------------------------------
(* Steps of the debugged process *)

\* The invariant of the first part gives these types.
LEMMA KernelTables == KernelTyped => Tables(task, wstat, sigs, child)
BY DEF KernelTyped, Tables

\* What remains to be shown when only the process and the kernel move.
LEMMA ProcessFrame ==
    ASSUME Agree, ServerUnchanged, Kernel(task, wstat, sigs, child)',
           Fit(dm, Taken, task, wstat, sigs, child)', Birth',
           \A t \in Tids : task'[t] = "gone" <=> task[t] = "gone",
           Down(task) => Down(task)',
           pc = "newborn" => child'[job.tid] = child[job.tid],
           job.tid \in Tids, dm.threads \in SUBSET Tids
    PROVE  Agree'
<1>1. Taken' = Taken
    BY DEF Taken, ServerUnchanged
<1>2. Hushed(dm, task)'
    BY DEF Agree, ServerUnchanged, Hushed, Quiet, IsRunning
<1>3. pc' # "halt" => Reaped(dm, Taken, task, cur)'
    BY <1>1 DEF Agree, ServerUnchanged, Reaped, Ended
<1>4. Freezing'
    BY DEF Agree, ServerUnchanged, Freezing, Ended, Quiet, IsRunning
<1>5. Asked'
    BY DEF Agree, ServerUnchanged, Asked
<1> QED BY <1>2, <1>3, <1>4, <1>5 DEF Agree, ServerUnchanged

\* The newborn and its parent, when the step is about neither.
LEMMA BirthFrame ==
    ASSUME Birth, ServerUnchanged,
           pc = "newborn" =>
              /\ child'[job.tid] = child[job.tid]
              /\ \A t \in {job.tid, child[job.tid]} :
                    task'[t] = task[t] /\ wstat'[t] = wstat[t] /\ sigs'[t] = sigs[t]
    PROVE  Birth'
<1> SUFFICES ASSUME pc = "newborn" PROVE Birth'
    BY DEF Birth, ServerUnchanged
<1> DEFINE p == job.tid
           u == child[job.tid]
<1>1. /\ job'.tid = p /\ child'[p] = u /\ job' = job /\ dm' = dm /\ pc' = pc /\ cur' = cur
      /\ task'[p] = task[p] /\ wstat'[p] = wstat[p] /\ sigs'[p] = sigs[p]
      /\ task'[u] = task[u] /\ wstat'[u] = wstat[u] /\ sigs'[u] = sigs[u]
    BY DEF ServerUnchanged
<1>2. Alive(task, p)' <=> Alive(task, p)
    BY <1>1 DEF Alive
<1>3. Alive(task, u)' <=> Alive(task, u)
    BY <1>1 DEF Alive
<1> QED BY <1>1, <1>2, <1>3 DEF Birth, Ended

\* A task stops to take a signal, or at a trap.
LEMMA StopFit ==
    ASSUME NEW m, Good(m), NEW X, NEW ta, NEW st, NEW sg, NEW ch, Tables(ta, st, sg, ch),
           Fit(m, X, ta, st, sg, ch), Kernel(ta, st, sg, ch),
           NEW t \in Tids, ta[t] = "run", NEW s \in Stops, s # "CLONE",
           s \in sg[t] \/ sg[t] = {},
           NEW ta2, NEW st2, NEW sg2,
           \A u \in Tids : /\ ta2[u] = IF u = t THEN "stop" ELSE ta[u]
                           /\ st2[u] = IF u = t THEN s ELSE st[u]
                           /\ u # t => sg2[u] = sg[u],
           sg2[t] = sg[t] \ {s}
    PROVE  Fit(m, X, ta2, st2, sg2, ch) /\ Kernel(ta2, st2, sg2, ch)
<1>1. \A u \in Tids : Alive(ta2, u) <=> Alive(ta, u)
    BY DEF Alive
<1>2. Down(ta2) <=> Down(ta)
    BY <1>1 DEF Down
<1>3. st[t] = None /\ ~Down(ta) /\ Alive(ta, t)
    BY DEF Kernel, Down, Alive
<1>4. \A u \in Tids : ch[u] \in Tids
    BY DEF Tables
<1>5. Kernel(ta2, st2, sg2, ch)
  <2>1. ASSUME NEW u \in Tids
        PROVE  /\ ta2[u] \in {"none", "run", "gone"} => st2[u] = None
               /\ ta2[u] = "zombie" => st2[u] \in Exits
               /\ ta2[u] = "stop" => st2[u] \notin Exits
               /\ ~Alive(ta2, u) => sg2[u] = {}
               /\ st2[u] = "SIGNALED" => Down(ta2)
    BY <1>1, <1>2, <1>3, StatusFacts DEF Kernel
  <2>2. \A u \in Tids : ta2[u] = "none" <=> ta[u] = "none"
    OBVIOUS
  <2>3. \A u \in Tids : ch[u] # u => ta2[ch[u]] # "none"
    BY <1>4, <2>2 DEF Kernel
  <2>4. ta2[Main] # "none" /\ (ta2[Main] = "gone" => \A u \in Tids : ta2[u] \in {"none", "gone"})
    BY TidsAssumption DEF Kernel
  <2> QED BY <2>1, <2>3, <2>4 DEF Kernel
<1>6. ASSUME NEW u \in Tids PROVE Known(m, X[u], ta2, st2, sg2, u)
  <2>1. Known(m, X[u], ta, st, sg, u)
    BY FitAt
  <2>2. CASE u = t
    BY <1>3, <2>1, <2>2, StatusFacts DEF Known
  <2>3. CASE u # t
    BY <1>1, <2>1, <2>3 DEF Known
  <2> QED BY <2>2, <2>3
<1>7. ASSUME NEW u \in Tids PROVE Entry(m, X[u], ta2, u)
  <2>1. Entry(m, X[u], ta, u)
    BY FitAt
  <2> QED BY <1>2, <2>1 DEF Entry
<1>8. ASSUME NEW u \in Tids PROVE Unseen(m, ta2, st2, sg2, u)
  <2>1. Unseen(m, ta, st, sg, u)
    BY FitAt
  <2>2. CASE u = t
    BY <1>3, <2>1, <2>2 DEF Unseen
  <2>3. CASE u # t
    BY <1>1, <2>1, <2>3 DEF Unseen
  <2> QED BY <2>2, <2>3
<1>9. \A p \in Tids : OpenClone(m, ta2, st2, p) <=> OpenClone(m, ta, st, p)
    BY <1>1, <1>3, StatusFacts DEF OpenClone
<1>10. Clones(m, ta2, st2, ch)
  <2>1. Clones(m, ta, st, ch)
    BY DEF Fit
  <2> QED BY <1>1, <1>4, <1>9, <2>1 DEF Clones
<1> QED BY <1>2, <1>5, <1>6, <1>7, <1>8, <1>10 DEF Fit

\* A thread in user mode is in the table and recorded as running.
LEMMA UserMode ==
    ASSUME NEW m, Good(m), NEW X, NEW ta, NEW st, NEW sg, NEW ch, Tables(ta, st, sg, ch),
           Fit(m, X, ta, st, sg, ch), Kernel(ta, st, sg, ch),
           NEW t \in Tids, ta[t] = "run", sg[t] = {}
    PROVE  /\ t \in m.threads /\ st[t] = None
           /\ X[t] \notin Exits => /\ m.state[t] = "RUNNING" /\ m.pending_status[t] = None
                                   /\ X[t] # "SIGSTOP" => IsRunning(m, t)
<1>1. Alive(ta, t) /\ st[t] = None
    BY DEF Alive, Kernel
<1>2. Unseen(m, ta, st, sg, t) /\ Known(m, X[t], ta, st, sg, t)
    BY FitAt
<1>3. t \in m.threads
    BY <1>1, <1>2 DEF Unseen
<1> QED BY <1>1, <1>2, <1>3, FitAt, StatusFacts DEF Known, IsRunning

\* A signal is sent to a task that runs and is in the table.
LEMMA RaiseFit ==
    ASSUME NEW m, Good(m), NEW X, NEW ta, NEW st, NEW sg, NEW ch,
           Fit(m, X, ta, st, sg, ch), Kernel(ta, st, sg, ch),
           NEW t \in m.threads, Alive(ta, t),
           NEW s, NEW sg2, \A u \in Tids : sg2[u] = IF u = t THEN sg[t] \cup {s} ELSE sg[u]
    PROVE  Fit(m, X, ta, st, sg2, ch) /\ Kernel(ta, st, sg2, ch)
<1>1. Kernel(ta, st, sg2, ch)
    BY DEF Kernel
<1>2. ASSUME NEW u \in Tids PROVE Known(m, X[u], ta, st, sg2, u)
  <2>1. Known(m, X[u], ta, st, sg, u)
    BY FitAt
  <2>2. "SIGSTOP" \in sg[u] => "SIGSTOP" \in sg2[u]
    OBVIOUS
  <2> QED BY <2>1, <2>2 DEF Known
<1>3. ASSUME NEW u \in Tids PROVE Unseen(m, ta, st, sg2, u)
  <2>1. Unseen(m, ta, st, sg, u)
    BY FitAt
  <2> QED BY <2>1 DEF Unseen
<1> QED BY <1>1, <1>2, <1>3 DEF Fit

\* A thread in user mode exits.
LEMMA ExitFit ==
    ASSUME NEW m, Good(m), NEW X, NEW ta, NEW st, NEW sg, NEW ch, Tables(ta, st, sg, ch),
           Fit(m, X, ta, st, sg, ch), Kernel(ta, st, sg, ch),
           NEW t \in Tids, ta[t] = "run", sg[t] = {}, X[t] \notin Exits,
           NEW ta2, NEW st2,
           \A u \in Tids : /\ ta2[u] = IF u = t THEN "zombie" ELSE ta[u]
                           /\ st2[u] = IF u = t THEN "EXITED" ELSE st[u]
    PROVE  Fit(m, X, ta2, st2, sg, ch) /\ Kernel(ta2, st2, sg, ch)
<1>1. /\ t \in m.threads /\ m.state[t] = "RUNNING" /\ m.pending_status[t] = None
      /\ st[t] = None
    BY UserMode
<1>2. \A u \in Tids : Alive(ta2, u) <=> Alive(ta, u) /\ u # t
    BY DEF Alive
<1>3. Down(ta) => Down(ta2)
    BY <1>2 DEF Down
<1>4. \A u \in Tids : ch[u] \in Tids
    BY DEF Tables
<1>5. Kernel(ta2, st2, sg, ch)
  <2>1. ASSUME NEW u \in Tids
        PROVE  /\ ta2[u] \in {"none", "run", "gone"} => st2[u] = None
               /\ ta2[u] = "zombie" => st2[u] \in Exits
               /\ ta2[u] = "stop" => st2[u] \notin Exits
               /\ ~Alive(ta2, u) => sg[u] = {}
               /\ st2[u] = "SIGNALED" => Down(ta2)
    BY <1>2, <1>3, StatusFacts DEF Kernel
  <2>2. \A u \in Tids : ta2[u] = "none" <=> ta[u] = "none"
    OBVIOUS
  <2>3. \A u \in Tids : ch[u] # u => ta2[ch[u]] # "none"
    BY <1>4, <2>2 DEF Kernel
  <2>4. ta2[Main] # "none" /\ (ta2[Main] = "gone" => \A u \in Tids : ta2[u] \in {"none", "gone"})
    BY TidsAssumption DEF Kernel
  <2> QED BY <2>1, <2>3, <2>4 DEF Kernel
<1>6. ASSUME NEW u \in Tids PROVE Known(m, X[u], ta2, st2, sg, u)
  <2>1. Known(m, X[u], ta, st, sg, u)
    BY FitAt
  <2> QED BY <1>2, <2>1 DEF Known
<1>7. ASSUME NEW u \in Tids PROVE Entry(m, X[u], ta2, u)
  <2>1. Entry(m, X[u], ta, u)
    BY FitAt
  <2> QED BY <1>1, <1>3, <2>1 DEF Entry
<1>8. ASSUME NEW u \in Tids PROVE Unseen(m, ta2, st2, sg, u)
  <2>1. Unseen(m, ta, st, sg, u)
    BY FitAt
  <2> QED BY <1>1, <1>2, <2>1 DEF Unseen
<1>9. \A p \in Tids : OpenClone(m, ta2, st2, p) <=> OpenClone(m, ta, st, p)
    BY <1>1, <1>2, StatusFacts DEF OpenClone
<1>10. Clones(m, ta2, st2, ch)
  <2>1. Clones(m, ta, st, ch)
    BY DEF Fit
  <2>2. \A p \in Tids : OpenClone(m, ta2, st2, p) => ch[p] # t
    BY <1>1, <1>9, <2>1 DEF Clones
  <2> QED BY <1>2, <1>4, <1>9, <2>1, <2>2 DEF Clones
<1> QED BY <1>3, <1>5, <1>6, <1>7, <1>8, <1>10 DEF Fit

\* A thread in user mode clones.
LEMMA BearFit ==
    ASSUME NEW m, Good(m), NEW X, NEW ta, NEW st, NEW sg, NEW ch, Tables(ta, st, sg, ch),
           Fit(m, X, ta, st, sg, ch), Kernel(ta, st, sg, ch),
           NEW t \in Tids, ta[t] = "run", sg[t] = {}, X[t] \notin Exits,
           NEW u \in Tids, ta[u] = "none",
           NEW ta2, NEW st2, NEW sg2, NEW ch2,
           \A v \in Tids : /\ ta2[v] = IF v = t THEN "stop" ELSE IF v = u THEN "run" ELSE ta[v]
                           /\ st2[v] = IF v = t THEN "CLONE" ELSE st[v]
                           /\ sg2[v] = IF v = u THEN {"SIGSTOP"} ELSE sg[v]
                           /\ ch2[v] = IF v = t THEN u ELSE ch[v]
    PROVE  Fit(m, X, ta2, st2, sg2, ch2) /\ Kernel(ta2, st2, sg2, ch2)
<1>1. /\ t \in m.threads /\ m.state[t] = "RUNNING" /\ m.pending_status[t] = None
      /\ st[t] = None /\ u # t
    BY UserMode
<1>2. u \notin m.threads /\ u \notin Deleted(m) /\ u \notin m.seen_threads
  <2>1. Entry(m, X[u], ta, u) /\ Unseen(m, ta, st, sg, u)
    BY FitAt
  <2> QED BY <2>1 DEF Entry, Unseen
<1>3. \A v \in Tids : Alive(ta2, v) <=> Alive(ta, v) \/ v = u
    BY <1>1 DEF Alive
<1>4. ~Down(ta) /\ ~Down(ta2) /\ ~Alive(ta, u) /\ Alive(ta, t)
    BY <1>3 DEF Down, Alive
<1>5. \A v \in Tids : ch[v] \in Tids
    BY DEF Tables
<1>6. Kernel(ta2, st2, sg2, ch2)
  <2>0. st[u] = None
    BY DEF Kernel
  <2>1. ASSUME NEW v \in Tids
        PROVE  /\ ta2[v] \in {"none", "run", "gone"} => st2[v] = None
               /\ ta2[v] = "zombie" => st2[v] \in Exits
               /\ ta2[v] = "stop" => st2[v] \notin Exits
               /\ ~Alive(ta2, v) => sg2[v] = {}
               /\ st2[v] = "SIGNALED" => Down(ta2)
    <3>1. CASE v = t
      BY <1>1, <1>3, <1>4, <3>1, StatusFacts
    <3>2. CASE v = u
      BY <1>1, <1>3, <1>4, <2>0, <3>2, StatusFacts
    <3>3. CASE v \notin {t, u}
      <4>1. ta2[v] = ta[v] /\ st2[v] = st[v] /\ sg2[v] = sg[v] /\ (Alive(ta2, v) <=> Alive(ta, v))
        BY <1>3, <3>3
      <4> QED BY <1>4, <4>1 DEF Kernel
    <3> QED BY <3>1, <3>2, <3>3
  <2>2. \A v \in Tids : ta[v] # "none" => ta2[v] # "none"
    BY <1>1
  <2>3. ASSUME NEW v \in Tids, ch2[v] # v PROVE ta2[ch2[v]] # "none"
    <3>1. CASE v = t
      BY <1>1, <3>1
    <3>2. CASE v # t
      BY <1>5, <2>2, <2>3, <3>2 DEF Kernel
    <3> QED BY <3>1, <3>2
  <2>4. ta2[Main] # "none"
    BY <2>2, TidsAssumption DEF Kernel
  <2>5. ta2[Main] # "gone"
    <3>1. ta[Main] # "gone"
      BY DEF Kernel
    <3> QED BY <3>1, TidsAssumption
  <2> QED BY <2>1, <2>3, <2>4, <2>5 DEF Kernel
<1>7. ASSUME NEW v \in Tids PROVE Known(m, X[v], ta2, st2, sg2, v)
  <2>1. Known(m, X[v], ta, st, sg, v)
    BY FitAt
  <2>2. CASE v = t
    <3>1. ta2[t] = "stop" /\ st2[t] = "CLONE" /\ sg2[t] = sg[t]
      BY <1>1
    <3>2. m.waiting_sigstop[t] => X[t] = "SIGSTOP"
      BY <1>1, <1>4, <2>1, <2>2, StatusFacts DEF Known
    <3> QED BY <1>1, <2>2, <3>1, <3>2, StatusFacts DEF Known
  <2>3. CASE v = u
    BY <1>2, <2>3 DEF Known
  <2>4. CASE v \notin {t, u}
    <3>1. ta2[v] = ta[v] /\ st2[v] = st[v] /\ sg2[v] = sg[v] /\ (Alive(ta2, v) <=> Alive(ta, v))
      BY <1>3, <2>4
    <3> QED BY <2>1, <3>1 DEF Known
  <2> QED BY <2>2, <2>3, <2>4
<1>8. ASSUME NEW v \in Tids PROVE Entry(m, X[v], ta2, v)
  <2>1. Entry(m, X[v], ta, v)
    BY FitAt
  <2>2. CASE v = t
    BY <1>1, <2>1, <2>2, StatusFacts DEF Entry
  <2>3. CASE v = u
    BY <1>2, <2>3 DEF Entry
  <2>4. CASE v \notin {t, u}
    <3>1. ta2[v] = ta[v]
      BY <2>4
    <3> QED BY <1>4, <2>1, <3>1 DEF Entry
  <2> QED BY <2>2, <2>3, <2>4
<1>9. ASSUME NEW v \in Tids PROVE Unseen(m, ta2, st2, sg2, v)
  <2>1. Unseen(m, ta, st, sg, v)
    BY FitAt
  <2>2. CASE v = t
    BY <1>1, <2>2 DEF Unseen
  <2>3. CASE v = u
    BY <1>1, <1>2, <2>3 DEF Unseen
  <2>4. CASE v \notin {t, u}
    <3>1. ta2[v] = ta[v] /\ st2[v] = st[v] /\ sg2[v] = sg[v] /\ (Alive(ta2, v) <=> Alive(ta, v))
      BY <1>3, <2>4
    <3> QED BY <2>1, <3>1 DEF Unseen
  <2> QED BY <2>2, <2>3, <2>4
<1>10. \A p \in Tids : OpenClone(m, ta2, st2, p) <=> p = t \/ (p # t /\ OpenClone(m, ta, st, p))
  <2>1. OpenClone(m, ta2, st2, t)
    BY <1>1, <1>3, <1>4 DEF OpenClone
  <2>2. ASSUME NEW p \in Tids, p # t
        PROVE  OpenClone(m, ta2, st2, p) <=> OpenClone(m, ta, st, p)
    BY <1>2, <1>3, <2>2 DEF OpenClone
  <2> QED BY <2>1, <2>2
<1>10a. ~OpenClone(m, ta, st, t)
    BY <1>1, StatusFacts DEF OpenClone
<1>11. Clones(m, ta2, st2, ch2)
  <2>1. Clones(m, ta, st, ch)
    BY DEF Fit
  <2>2. ch2[t] = u /\ \A p \in Tids : p # t => ch2[p] = ch[p]
    OBVIOUS
  <2>3. \A p \in Tids : OpenClone(m, ta2, st2, p) => Alive(ta2, ch2[p]) /\ ch2[p] \notin m.threads
    BY <1>2, <1>3, <1>5, <1>10, <2>1, <2>2 DEF Clones
  <2>4. \A p \in Tids : p # t /\ OpenClone(m, ta2, st2, p) => ch2[p] # u
    BY <1>4, <1>10, <2>1, <2>2 DEF Clones
  <2>5. \A p, q \in Tids : OpenClone(m, ta2, st2, p) /\ OpenClone(m, ta2, st2, q) /\ ch2[p] = ch2[q] => p = q
    BY <1>10, <2>1, <2>2, <2>4 DEF Clones
  <2>6. ASSUME NEW v \in Tids, Alive(ta2, v), v \notin m.threads
        PROVE  \E p \in Tids : OpenClone(m, ta2, st2, p) /\ ch2[p] = v
    <3>1. CASE v = u
      BY <1>10, <2>2, <3>1
    <3>2. CASE v # u
      <4>1. PICK p \in Tids : OpenClone(m, ta, st, p) /\ ch[p] = v
        BY <1>3, <2>1, <2>6, <3>2 DEF Clones
      <4> QED BY <1>10, <1>10a, <2>2, <4>1
    <3> QED BY <3>1, <3>2
  <2> QED BY <2>3, <2>5, <2>6 DEF Clones
<1>12. Main \in m.threads
    BY <1>4 DEF Fit
<1> QED BY <1>4, <1>6, <1>7, <1>8, <1>9, <1>11, <1>12 DEF Fit

\* SIGKILL or exit_group.
LEMMA KillFit ==
    ASSUME NEW m, Good(m), NEW X, NEW ta, NEW st, NEW sg, NEW ch, Tables(ta, st, sg, ch),
           Fit(m, X, ta, st, sg, ch), Kernel(ta, st, sg, ch),
           NEW s \in Exits, NEW ta2, NEW st2, NEW sg2,
           ta2 \in [Tids -> {"none", "run", "stop", "zombie", "gone"}],
           \A v \in Tids : /\ ta2[v] = IF Alive(ta, v) THEN "zombie" ELSE ta[v]
                           /\ st2[v] = IF Alive(ta, v) THEN s ELSE st[v]
                           /\ sg2[v] = {}
    PROVE  Fit(m, X, ta2, st2, sg2, ch) /\ Kernel(ta2, st2, sg2, ch) /\ Down(ta2)
<1>1. Down(ta2)
    BY DEF Down, Alive
<1>2. \A v \in Tids : ta2[v] = "none" <=> ta[v] = "none"
    BY DEF Alive
<1>3. \A v \in Tids : ta2[v] # "run" /\ ta2[v] # "stop"
    BY DEF Alive
<1>4. Kernel(ta2, st2, sg2, ch)
  <2>1. \A v \in Tids : ch[v] \in Tids
    BY DEF Tables
  <2>2. ASSUME NEW v \in Tids
        PROVE  /\ ta2[v] \in {"none", "run", "gone"} => st2[v] = None
               /\ ta2[v] = "zombie" => st2[v] \in Exits
               /\ ta2[v] = "stop" => st2[v] \notin Exits
               /\ ~Alive(ta2, v) => sg2[v] = {}
               /\ st2[v] = "SIGNALED" => Down(ta2)
    BY <1>1, <1>3 DEF Kernel, Alive
  <2>3. \A v \in Tids : ch[v] # v => ta2[ch[v]] # "none"
    BY <1>2, <2>1 DEF Kernel
  <2>4. ta2[Main] # "none" /\ (ta2[Main] = "gone" => \A v \in Tids : ta2[v] \in {"none", "gone"})
    BY TidsAssumption DEF Kernel, Alive
  <2> QED BY <2>2, <2>3, <2>4 DEF Kernel
<1>5. m.threads \in SUBSET Tids /\ m.seen_threads \in SUBSET Tids /\ Deleted(m) \in SUBSET Tids
    BY DEF Good, Typed, Deleted
<1>6. ASSUME NEW v \in m.threads
      PROVE  /\ ta2[v] # "none"
             /\ m.pending_status[v] \in Stops /\ ~m.exited /\ X[v] \notin Exits => m.state[v] # "STOPPED"
             /\ IsRunning(m, v) => m.suspend_count[v] = 0 /\ (m.exited \/ m.user_suspend[v] = 0)
             /\ m.pending_status[v] \in Exits => ta2[v] = "gone"
  <2>1. v \in Tids
    BY <1>5
  <2>2. Entry(m, X[v], ta, v)
    BY <2>1, FitAt
  <2>3. ta[v] = "gone" => ta2[v] = "gone"
    BY <2>1 DEF Alive
  <2> QED BY <1>2, <2>1, <2>2, <2>3 DEF Entry
<1>7. ASSUME NEW v \in (Deleted(m) \cup m.seen_threads) \ m.threads PROVE ta2[v] # "none"
  <2>1. v \in Tids
    BY <1>5
  <2>2. Unseen(m, ta, st, sg, v)
    BY <2>1, FitAt
  <2> QED BY <1>2, <2>1, <2>2 DEF Unseen
<1>8. m.seen_threads \cap m.threads = {} /\ (QwaitStub => \A t \in Tids : m.pending_status[t] = None)
    BY DEF Fit
<1>9. Fit(m, X, ta2, st2, sg2, ch)
    BY <1>1, <1>6, <1>7, <1>8, DownFit
<1> QED BY <1>1, <1>4, <1>9

\* The parts of the invariant that most steps need.
LEMMA AgreeFacts ==
    ASSUME IInv, Agree
    PROVE  /\ Good(dm) /\ dm.threads \in SUBSET Tids /\ job.tid \in Tids /\ KernelTyped
           /\ Tables(task, wstat, sigs, child)
           /\ Kernel(task, wstat, sigs, child)
           /\ Fit(dm, Taken, task, wstat, sigs, child)
           /\ Freezing /\ Birth
           /\ \A t \in Tids : child[t] \in Tids
           /\ \A t \in Tids : task[t] \in {"none", "run", "stop", "zombie", "gone"}
<1>1. Good(dm) /\ dm.threads \in SUBSET Tids /\ job.tid \in Tids /\ KernelTyped
    BY DEF IInv, Good, Typed, ServerTyped, Jobs
<1> QED BY <1>1, KernelTables DEF Agree, KernelTyped

\* What the step of the process has to preserve.
LEMMA ProcessAgree ==
    ASSUME IInv, Agree, ServerUnchanged,
           Kernel(task', wstat', sigs', child'),
           Fit(dm, Taken, task', wstat', sigs', child'), Birth',
           \A t \in Tids : task'[t] = "gone" <=> task[t] = "gone",
           Down(task) => Down(task'),
           pc = "newborn" => child'[job.tid] = child[job.tid]
    PROVE  Agree'
<1>1. Taken' = Taken
    BY DEF Taken, ServerUnchanged
<1>2. Fit(dm, Taken, task, wstat, sigs, child)'
    BY <1>1 DEF ServerUnchanged
<1>3. Kernel(task, wstat, sigs, child)' /\ (Down(task) => Down(task)')
    OBVIOUS
<1> QED BY <1>2, <1>3, AgreeFacts, ProcessFrame

\* The server has nothing in its hands from a task in user mode.
LEMMA UserNotTaken ==
    ASSUME IInv, Agree, NEW t \in Tids, InUserMode(t)
    PROVE  /\ Taken[t] \notin Exits /\ task[t] = "run" /\ sigs[t] = {}
           /\ pc = "newborn" => t # job.tid /\ t # child[job.tid]
<1>1. task[t] = "run" /\ sigs[t] = {}
    BY DEF InUserMode
<1>2. pc = "newborn" => t # job.tid /\ t # child[job.tid]
    BY <1>1, AgreeFacts DEF Birth, Alive
<1>2a. pc # "halt"
    BY <1>1 DEF Agree, Down, Alive
<1>3. Taken[t] \in {None, "CLONE"} \/ (pc = "freeze" /\ job.for = "event" /\ job.tid = t)
    BY <1>2, <1>2a DEF Taken
<1>4. CASE pc = "freeze" /\ job.for = "event" /\ job.tid = t
  <2>1. Taken[t] = job.status
    BY <1>4 DEF Taken
  <2>2. job.status \notin Exits
    BY <1>1, <1>4, AgreeFacts DEF Freezing
  <2> QED BY <1>1, <1>2, <2>1, <2>2
<1> QED BY <1>1, <1>2, <1>3, <1>4, StatusFacts

\* A task stops with a signal it has.
LEMMA TakeSignalAgree ==
    ASSUME IInv, Agree, NEW t \in Tids, NEW s \in Signals \cup {"SIGSTOP"}, TakeSignal(t, s)
    PROVE  Agree'
<1>1. /\ task[t] = "run" /\ s \in sigs[t] /\ ServerUnchanged /\ child' = child
      /\ \A u \in Tids : /\ task'[u] = IF u = t THEN "stop" ELSE task[u]
                         /\ wstat'[u] = IF u = t THEN s ELSE wstat[u]
                         /\ u # t => sigs'[u] = sigs[u]
      /\ sigs'[t] = sigs[t] \ {s}
    BY AgreeFacts DEF TakeSignal, StopTask, KernelTyped
<1>2. s \in Stops /\ s # "CLONE"
    BY SignalsAssumption DEF Stops
<1>3. Kernel(task', wstat', sigs', child) /\ Fit(dm, Taken, task', wstat', sigs', child)
    BY <1>1, <1>2, AgreeFacts, StopFit
<1>4. Birth'
  <2>1. CASE pc # "newborn"
    BY <1>1, <2>1 DEF Birth, ServerUnchanged
  <2>2. CASE pc = "newborn" /\ t # child[job.tid]
    <3>1. t # job.tid
      BY <1>1, <2>2, AgreeFacts DEF Birth, Alive
    <3> QED BY <1>1, <2>2, <3>1, AgreeFacts, BirthFrame
  <2>3. CASE pc = "newborn" /\ t = child[job.tid]
    <3> DEFINE p == job.tid
               u == child[job.tid]
    <3>1. u # p /\ Alive(task, u) /\ Alive(task, p) /\ task[p] = "stop" /\ wstat[p] = None
      BY <1>1, <2>3, AgreeFacts DEF Birth, Alive
    <3>2. sigs[u] = {"SIGSTOP"} /\ s = "SIGSTOP"
      BY <1>1, <2>3, AgreeFacts DEF Birth, Alive
    <3>3. /\ task'[u] = "stop" /\ wstat'[u] = "SIGSTOP" /\ sigs'[u] = {}
          /\ task'[p] = "stop" /\ wstat'[p] = None
      BY <1>1, <2>3, <3>1, <3>2, AgreeFacts
    <3>4. Alive(task', u) /\ Alive(task', p)
      BY <3>3 DEF Alive
    <3>5. /\ job' = job /\ dm' = dm /\ pc' = pc /\ cur' = cur /\ child' = child
      BY <1>1 DEF ServerUnchanged
    <3> QED BY <2>3, <3>1, <3>3, <3>4, <3>5, AgreeFacts DEF Birth, Ended
  <2> QED BY <2>1, <2>2, <2>3
<1>5. \A u \in Tids : Alive(task', u) <=> Alive(task, u)
    BY <1>1 DEF Alive
<1>6. Down(task) => Down(task')
    BY <1>5 DEF Down
<1>7. \A u \in Tids : task'[u] = "gone" <=> task[u] = "gone"
    BY <1>1
<1> QED BY <1>1, <1>3, <1>4, <1>6, <1>7, ProcessAgree

\* A task runs into a breakpoint or finishes a step.
LEMMA HitTrapAgree ==
    ASSUME IInv, Agree, NEW t \in Tids, HitTrap(t)
    PROVE  Agree'
<1>0. Taken[t] \notin Exits /\ task[t] = "run" /\ sigs[t] = {}
      /\ (pc = "newborn" => t # job.tid /\ t # child[job.tid])
    BY UserNotTaken DEF HitTrap
<1>1. /\ ServerUnchanged /\ child' = child
      /\ \A u \in Tids : /\ task'[u] = IF u = t THEN "stop" ELSE task[u]
                         /\ wstat'[u] = IF u = t THEN "SIGTRAP" ELSE wstat[u]
                         /\ u # t => sigs'[u] = sigs[u]
      /\ sigs'[t] = sigs[t] \ {"SIGTRAP"}
    BY <1>0, AgreeFacts DEF HitTrap, StopTask, KernelTyped
<1>3. Kernel(task', wstat', sigs', child) /\ Fit(dm, Taken, task', wstat', sigs', child)
    BY <1>0, <1>1, StatusFacts, AgreeFacts, StopFit
<1>4. Birth'
    BY <1>0, <1>1, AgreeFacts, BirthFrame
<1>5. \A u \in Tids : Alive(task', u) <=> Alive(task, u)
    BY <1>0, <1>1 DEF Alive
<1>6. Down(task) => Down(task')
    BY <1>5 DEF Down
<1>7. \A u \in Tids : task'[u] = "gone" <=> task[u] = "gone"
    BY <1>0, <1>1
<1> QED BY <1>1, <1>3, <1>4, <1>6, <1>7, ProcessAgree

\* A task gets a signal.
LEMMA RaiseSignalAgree ==
    ASSUME IInv, Agree, NEW t \in Tids, NEW s \in Signals, RaiseSignal(t, s)
    PROVE  Agree'
<1>0. Taken[t] \notin Exits /\ task[t] = "run" /\ sigs[t] = {}
      /\ (pc = "newborn" => t # job.tid /\ t # child[job.tid])
    BY UserNotTaken DEF RaiseSignal
<1>1. /\ ServerUnchanged /\ child' = child /\ task' = task /\ wstat' = wstat
      /\ \A u \in Tids : sigs'[u] = IF u = t THEN sigs[t] \cup {s} ELSE sigs[u]
    BY <1>0, AgreeFacts DEF RaiseSignal, KernelTyped
<1>2. t \in dm.threads /\ Alive(task, t)
    BY <1>0, AgreeFacts, UserMode DEF Alive
<1>3. Kernel(task, wstat, sigs', child) /\ Fit(dm, Taken, task, wstat, sigs', child)
    BY <1>1, <1>2, AgreeFacts, RaiseFit
<1>4. Birth'
    BY <1>0, <1>1, AgreeFacts, BirthFrame
<1> QED BY <1>1, <1>3, <1>4, ProcessAgree

\* A thread exits.
LEMMA ExitThreadAgree ==
    ASSUME IInv, Agree, NEW t \in Tids, ExitThread(t)
    PROVE  Agree'
<1>0. Taken[t] \notin Exits /\ task[t] = "run" /\ sigs[t] = {}
      /\ (pc = "newborn" => t # job.tid /\ t # child[job.tid])
    BY UserNotTaken DEF ExitThread
<1>1. /\ ServerUnchanged /\ child' = child /\ sigs' = sigs
      /\ \A u \in Tids : /\ task'[u] = IF u = t THEN "zombie" ELSE task[u]
                         /\ wstat'[u] = IF u = t THEN "EXITED" ELSE wstat[u]
    BY AgreeFacts DEF ExitThread, KernelTyped
<1>3. Kernel(task', wstat', sigs, child) /\ Fit(dm, Taken, task', wstat', sigs, child)
    BY <1>0, <1>1, AgreeFacts, ExitFit
<1>4. Birth'
    BY <1>0, <1>1, AgreeFacts, BirthFrame
<1>5. \A u \in Tids : Alive(task', u) => Alive(task, u)
    BY <1>0, <1>1 DEF Alive
<1>6. Down(task) => Down(task')
    BY <1>5 DEF Down
<1>7. \A u \in Tids : task'[u] = "gone" <=> task[u] = "gone"
    BY <1>0, <1>1
<1> QED BY <1>1, <1>3, <1>4, <1>6, <1>7, ProcessAgree

\* A thread starts another.
LEMMA CloneAgree ==
    ASSUME IInv, Agree, NEW t \in Tids, NEW u \in Tids, Clone(t, u)
    PROVE  Agree'
<1>0. Taken[t] \notin Exits /\ task[t] = "run" /\ sigs[t] = {}
      /\ (pc = "newborn" => t # job.tid /\ t # child[job.tid])
    BY UserNotTaken DEF Clone
<1>1. /\ ServerUnchanged /\ task[u] = "none" /\ u # t
      /\ \A v \in Tids : /\ task'[v] = IF v = t THEN "stop" ELSE IF v = u THEN "run" ELSE task[v]
                         /\ wstat'[v] = IF v = t THEN "CLONE" ELSE wstat[v]
                         /\ sigs'[v] = IF v = u THEN {"SIGSTOP"} ELSE sigs[v]
                         /\ child'[v] = IF v = t THEN u ELSE child[v]
    BY <1>0, AgreeFacts DEF Clone, KernelTyped
<1>2. \A v \in dm.threads : v # u
    BY <1>1, AgreeFacts, FitAt DEF Entry
<1>3. Kernel(task', wstat', sigs', child') /\ Fit(dm, Taken, task', wstat', sigs', child')
    BY <1>0, <1>1, AgreeFacts, BearFit
<1>4. pc = "newborn" => /\ child'[job.tid] = child[job.tid]
              /\ \A v \in {job.tid, child[job.tid]} :
                    task'[v] = task[v] /\ wstat'[v] = wstat[v] /\ sigs'[v] = sigs[v]
    BY <1>0, <1>1, <1>2, AgreeFacts DEF Birth
<1>5. Birth'
    BY <1>1, <1>4, AgreeFacts, BirthFrame
<1>6. ~Down(task)
    BY <1>0 DEF Down, Alive
<1>7. \A v \in Tids : task'[v] = "gone" <=> task[v] = "gone"
    BY <1>0, <1>1
<1> QED BY <1>1, <1>3, <1>4, <1>5, <1>6, <1>7, ProcessAgree

\* exit_group, or a SIGKILL from outside.
LEMMA TakeDownAgree ==
    ASSUME IInv, Agree, NEW s \in Exits, TakeDown(s), ServerUnchanged
    PROVE  Agree'
<1>1. /\ child' = child
      /\ \A v \in Tids : /\ task'[v] = IF Alive(task, v) THEN "zombie" ELSE task[v]
                         /\ wstat'[v] = IF Alive(task, v) THEN s ELSE wstat[v]
                         /\ sigs'[v] = {}
    BY DEF TakeDown, Alive
<1>2. task' \in [Tids -> {"none", "run", "stop", "zombie", "gone"}]
    BY AgreeFacts DEF TakeDown, KernelTyped
<1>3. Kernel(task', wstat', sigs', child) /\ Fit(dm, Taken, task', wstat', sigs', child) /\ Down(task')
    BY <1>1, <1>2, AgreeFacts, KillFit
<1>4. Birth'
  <2> SUFFICES ASSUME pc = "newborn" PROVE Birth'
    BY DEF Birth, ServerUnchanged
  <2> DEFINE p == job.tid
             u == child[job.tid]
  <2>1. /\ job' = job /\ dm' = dm /\ pc' = pc /\ cur' = cur /\ child' = child
    BY <1>1 DEF ServerUnchanged
  <2>2. p \in Tids /\ u \in Tids
    BY AgreeFacts
  <2>3. ~Alive(task', p) /\ ~Alive(task', u)
    BY <1>3, <2>2 DEF Down
  <2>4. task'[u] # "gone"
    BY <1>1, <2>2, AgreeFacts DEF Birth
  <2> QED BY <2>1, <2>3, <2>4, AgreeFacts DEF Birth, Ended
<1>7. \A v \in Tids : task'[v] = "gone" <=> task[v] = "gone"
    BY <1>1 DEF Alive
<1> QED BY <1>1, <1>3, <1>4, <1>7, ProcessAgree

\* Whatever the debugged process does, the table still agrees.
LEMMA ProcessStepAgree ==
    ASSUME IInv, Agree, Process \/ Signal
    PROVE  Agree'
<1>1. ASSUME NEW t \in Tids, ExitGroup(t) PROVE Agree'
    BY <1>1, TakeDownAgree, StatusFacts DEF ExitGroup
<1>2. ASSUME Killed PROVE Agree'
    BY <1>2, TakeDownAgree, StatusFacts DEF Killed
<1> QED BY <1>1, <1>2, TakeSignalAgree, HitTrapAgree, RaiseSignalAgree, ExitThreadAgree, CloneAgree
        DEF Process, Signal

-----------------------------------------------------------------------------
(* dbg_get_debug_event *)

\* What a waitpid does to the tables.
LEMMA CollectStep ==
    ASSUME IInv, Agree, NEW t \in Tids, Reportable(t), NEW r,
           Collect(t, r), r => t \in Deleted(dm) \ dm.threads
    PROVE  /\ Collects(t, task, wstat, task', wstat') /\ child' = child
           /\ ~QwaitStub /\ wstat[t] # None /\ wstat[t] \in Status
           /\ t = Main /\ wstat[t] \in Exits => \A u \in Tids \ {Main} : task[u] \in {"none", "gone"}
           /\ Tables(task', wstat', sigs, child)
<1>1. /\ ~QwaitStub /\ wstat[t] # None
      /\ t = Main /\ wstat[t] \in Exits => \A u \in Tids \ {Main} : task[u] \in {"none", "gone"}
    BY DEF Reportable
<1>2. wstat[t] \in Status
    BY <1>1, AgreeFacts DEF KernelTyped
<1>3. task[t] = IF wstat[t] \in Exits THEN "zombie" ELSE "stop"
    BY <1>1, AgreeFacts DEF Kernel
<1>4. r => wstat[t] \in Exits
  <2>1. r => Unseen(dm, task, wstat, sigs, t)
    BY AgreeFacts, FitAt
  <2> QED BY <1>3, <2>1 DEF Unseen
<1>5. /\ task' = [task EXCEPT ![t] = IF wstat[t] \in Exits THEN "gone" ELSE IF r THEN "run" ELSE @]
      /\ wstat' = [wstat EXCEPT ![t] = None] /\ child' = child
    BY DEF Collect
<1>6. Collects(t, task, wstat, task', wstat')
    BY <1>4, <1>5, AgreeFacts DEF Collects, KernelTyped
<1>7. Tables(task', wstat', sigs, child)
  <2>1. task' \in [Tids -> {"none", "run", "stop", "zombie", "gone"}]
    BY <1>5, AgreeFacts DEF KernelTyped
  <2>2. wstat' \in [Tids -> Status \cup {None}]
    BY <1>5, AgreeFacts DEF KernelTyped
  <2> QED BY <2>1, <2>2, AgreeFacts DEF Tables
<1> QED BY <1>1, <1>2, <1>5, <1>6, <1>7

\* get_debug_event has taken the status s of t and freezes the process; n is
\* the object with t marked as stopped.
LEMMA BeginAgree ==
    ASSUME IInv, Agree, NEW n, Good(n), NEW t \in Tids, NEW s, NEW r \in BOOLEAN,
           Kernel(task', wstat', sigs, child), Tables(task', wstat', sigs, child),
           \A u \in Tids : Alive(task', u) <=> Alive(task, u),
           t \in n.threads, n.state[t] = "STOPPED", s # None, r <=> s = "CLONE",
           s \in Exits => task'[t] = "gone",
           (\A u \in Tids : Taken'[u] = IF u = t THEN s ELSE None) => Fit(n, Taken', task', wstat', sigs, child),
           n.may_run /\ ~n.exited => n.events = << >> /\ ~n.in_event,
           ~Ended(n, cur),
           \A u \in n.threads : task'[u] = "gone" => n.pending_status[u] \in Exits \/ (u = t /\ s \in Exits),
           ~n.in_event \/ n.exited,
           dm' = Freeze(n, Tids), queue' = FreezeSet(n, Tids), job' = EventJob(t, s, r),
           pc' = "freeze", SendSigstop(queue'), cur' = cur, failed' = failed, child' = child
    PROVE  Agree'
<1>1. /\ job'.for = "event" /\ job'.tid = t /\ job'.status = s /\ job'.ready = r
    BY DEF EventJob
<1>2. \A u \in Tids : Taken'[u] = IF u = t THEN s ELSE None
    BY <1>1 DEF Taken
<1>3. Fit(n, Taken', task', wstat', sigs, child)
    BY <1>2
<1>4. Stopping(sigs', sigs, FreezeSet(n, Tids), task')
    BY DEF SendSigstop, Stopping, Alive
<1>5. /\ Fit(dm', Taken', task', wstat', sigs', child)
      /\ Kernel(task', wstat', sigs', child)
      /\ \A u \in FreezeSet(n, Tids) : /\ u \in dm'.threads /\ dm'.state[u] = "RUNNING"
                                       /\ dm'.waiting_sigstop[u] /\ dm'.pending_status[u] = None
      /\ \A u \in dm'.threads \cap Tids : ~IsRunning(dm', u)
    BY <1>3, <1>4, FreezeFit
<1>6. \A f \in Fields \ {"suspend_count", "waiting_sigstop"} : dm'[f] = n[f]
    BY FreezeFields
<1>7. /\ dm'.threads = n.threads /\ dm'.state = n.state /\ dm'.events = n.events
      /\ dm'.may_run = n.may_run /\ dm'.in_event = n.in_event /\ dm'.exited = n.exited
      /\ dm'.pending_status = n.pending_status /\ n.threads \in SUBSET Tids
    BY <1>6 DEF Fields, Good, Typed
<1>8. Quiet(dm)'
    BY <1>5, <1>7 DEF Quiet
<1>9. Hushed(dm, task)'
    BY <1>7, <1>8 DEF Hushed
<1>10. ~Ended(dm, cur)'
    BY <1>7 DEF Ended
<1>11. Reaped(dm, Taken, task, cur)'
    BY <1>2, <1>7 DEF Reaped
<1>12. Freezing'
    BY <1>1, <1>5, <1>7, <1>8, <1>10 DEF Freezing, IsRunning
<1>13. Birth' /\ Asked'
    BY <1>7 DEF Birth, Asked
<1> QED BY <1>5, <1>9, <1>10, <1>11, <1>12, <1>13 DEF Agree

\* Where the server has nothing in its hands.
LEMMA NothingTaken ==
    ASSUME pc \notin {"freeze", "halt", "newborn"} \/ (pc = "freeze" /\ job.for # "event"), NEW t \in Tids
    PROVE  Taken[t] = None
BY DEF Taken

\* The first assignment of get_debug_event to the thread of a status.
MarkStopped(m, t) == [m EXCEPT !.state[t] = "STOPPED"]

\* What it changes.
LEMMA StoppedFields ==
    ASSUME NEW m, Good(m), NEW t \in Tids, NEW n, n = MarkStopped(m, t)
    PROVE  /\ Good(n) /\ StopsEntry(m, n, t)
           /\ n.threads = m.threads /\ n.events = m.events /\ n.may_run = m.may_run
           /\ n.in_event = m.in_event /\ n.exited = m.exited
           /\ n.pending_status = m.pending_status /\ n.waiting_sigstop = m.waiting_sigstop
           /\ n.suspend_count = m.suspend_count /\ n.user_suspend = m.user_suspend
           /\ n.deleted_threads = m.deleted_threads /\ n.seen_threads = m.seen_threads
           /\ \A u \in Tids : n.state[u] = IF u = t THEN "STOPPED" ELSE m.state[u]
<1>1. Good(n)
    BY FieldsGood, StatusFacts DEF MarkStopped
<1>2. n.state = [m.state EXCEPT ![t] = "STOPPED"] /\ \A f \in Fields \ {"state"} : n[f] = m[f]
    BY DEF Good, Shaped, Fields, MarkStopped
<1>3. m.state \in [Tids -> {"RUNNING", "STOPPED", "DEAD"}]
    BY DEF Good, Typed
<1>4. \A u \in Tids : n.state[u] = IF u = t THEN "STOPPED" ELSE m.state[u]
    BY <1>2, <1>3
<1>5. StopsEntry(m, n, t)
    BY <1>2, <1>4 DEF StopsEntry, Fields, FitFields
<1> QED BY <1>1, <1>2, <1>4, <1>5 DEF Fields

\* What handle_extended_wait changes for a new thread that was seen before.
LEMMA SeenNewbornFields ==
    ASSUME NEW m, Good(m), NEW t \in Tids, NEW u, u = child[t], u \in Tids, u \notin m.threads,
           NEW n, n = SeenNewborn(m, t)
    PROVE  /\ Good(n)
           /\ n.threads = m.threads \cup {u} /\ n.seen_threads = m.seen_threads \ {u}
           /\ m.events = << >> => \A i \in 1 .. Len(n.events) : n.events[i].eid = "THREAD_START"
           /\ ~n.may_run
           /\ n.in_event = m.in_event /\ n.exited = m.exited
           /\ n.deleted_threads = m.deleted_threads
           /\ \A v \in Tids :
                /\ n.state[v] = IF v = u THEN "STOPPED" ELSE m.state[v]
                /\ n.pending_status[v] = IF v = u THEN None ELSE m.pending_status[v]
                /\ n.suspend_count[v] = IF v = u THEN 0 ELSE m.suspend_count[v]
                /\ n.user_suspend[v] = IF v = u THEN 0 ELSE m.user_suspend[v]
                /\ v # u => n.waiting_sigstop[v] = m.waiting_sigstop[v]
           /\ ~n.waiting_sigstop[u]
<1> DEFINE k == AddThread(m, u)
           l == [k EXCEPT !.seen_threads = @ \ {u}]
<1>0. Good(n)
    BY SeenNewbornGood
<1>1. /\ k.threads = m.threads \cup {u}
      /\ k.state = [m.state EXCEPT ![u] = "STOPPED"]
      /\ k.suspend_count = [m.suspend_count EXCEPT ![u] = 0]
      /\ k.user_suspend = [m.user_suspend EXCEPT ![u] = 0]
      /\ k.waiting_sigstop = [m.waiting_sigstop EXCEPT ![u] = FALSE]
      /\ k.pending_status = [m.pending_status EXCEPT ![u] = None]
      /\ k.seen_threads = m.seen_threads /\ k.deleted_threads = m.deleted_threads
      /\ k.events = m.events /\ k.in_event = m.in_event /\ k.exited = m.exited
      /\ k.may_run = m.may_run
    BY DEF Good, Shaped, Fields, AddThread
<1>1a. Shaped(k)
    BY AddThreadGood DEF Good
<1> HIDE DEF k
<1>2. /\ l.seen_threads = m.seen_threads \ {u} /\ Shaped(l)
      /\ \A f \in Fields \ {"seen_threads"} : l[f] = k[f]
    BY <1>1, <1>1a DEF Shaped, Fields
<1>3. n = EnqueueFront(l, Ev("THREAD_START", u))
    BY DEF SeenNewborn, k
<1> HIDE DEF l
<1>4. /\ n.events = <<Ev("THREAD_START", u)>> \o l.events /\ ~n.may_run
      /\ \A f \in Fields \ {"events", "may_run"} : n[f] = l[f]
    BY <1>2, <1>3 DEF Shaped, Fields, EnqueueFront
<1>5. /\ n.threads = k.threads /\ n.state = k.state /\ n.suspend_count = k.suspend_count
      /\ n.user_suspend = k.user_suspend /\ n.waiting_sigstop = k.waiting_sigstop
      /\ n.pending_status = k.pending_status /\ n.deleted_threads = k.deleted_threads
      /\ n.in_event = k.in_event /\ n.exited = k.exited
      /\ n.seen_threads = l.seen_threads /\ l.events = k.events
    BY <1>2, <1>4 DEF Fields
<1>5a. /\ m.state \in [Tids -> {"RUNNING", "STOPPED", "DEAD"}]
       /\ m.pending_status \in [Tids -> Status \cup {None}]
       /\ m.suspend_count \in [Tids -> Nat] /\ m.user_suspend \in [Tids -> Nat]
       /\ m.waiting_sigstop \in [Tids -> BOOLEAN]
    BY DEF Good, Typed
<1>6. ASSUME NEW v \in Tids
      PROVE  /\ n.state[v] = IF v = u THEN "STOPPED" ELSE m.state[v]
             /\ n.pending_status[v] = IF v = u THEN None ELSE m.pending_status[v]
             /\ n.suspend_count[v] = IF v = u THEN 0 ELSE m.suspend_count[v]
             /\ n.user_suspend[v] = IF v = u THEN 0 ELSE m.user_suspend[v]
             /\ v # u => n.waiting_sigstop[v] = m.waiting_sigstop[v]
  <2>1. n.state[v] = IF v = u THEN "STOPPED" ELSE m.state[v]
    BY <1>1, <1>5, <1>5a
  <2>2. n.pending_status[v] = IF v = u THEN None ELSE m.pending_status[v]
    BY <1>1, <1>5, <1>5a
  <2>3. n.suspend_count[v] = IF v = u THEN 0 ELSE m.suspend_count[v]
    BY <1>1, <1>5, <1>5a
  <2>4. n.user_suspend[v] = IF v = u THEN 0 ELSE m.user_suspend[v]
    BY <1>1, <1>5, <1>5a
  <2>5. v # u => n.waiting_sigstop[v] = m.waiting_sigstop[v]
    BY <1>1, <1>5, <1>5a
  <2> QED BY <2>1, <2>2, <2>3, <2>4, <2>5
<1>8. m.events = << >> => \A i \in 1 .. Len(n.events) : n.events[i].eid = "THREAD_START"
  <2> SUFFICES ASSUME m.events = << >>
               PROVE  \A i \in 1 .. Len(n.events) : n.events[i].eid = "THREAD_START"
    OBVIOUS
  <2>1. n.events = <<Ev("THREAD_START", u)>>
    BY <1>1, <1>4, <1>5
  <2>2. n.events[1] = Ev("THREAD_START", u) /\ Len(n.events) = 1
    BY <2>1
  <2>3. Ev("THREAD_START", u).eid = "THREAD_START"
    BY DEF Ev, SignalEv
  <2> QED BY <2>2, <2>3
<1>7. ~n.waiting_sigstop[u]
    <2>1. n.waiting_sigstop = [m.waiting_sigstop EXCEPT ![u] = FALSE]
      BY <1>1, <1>5
    <2> QED BY <1>5a, <2>1
<1>9. /\ n.threads = m.threads \cup {u} /\ n.seen_threads = m.seen_threads \ {u} /\ ~n.may_run
      /\ n.in_event = m.in_event /\ n.exited = m.exited
      /\ n.deleted_threads = m.deleted_threads
    BY <1>1, <1>2, <1>4, <1>5
<1> QED BY <1>0, <1>6, <1>7, <1>8, <1>9

\* What add_thread changes.
LEMMA AddThreadFields ==
    ASSUME NEW m, Good(m), NEW u \in Tids, u \notin m.threads, NEW n, n = AddThread(m, u)
    PROVE  /\ Good(n)
           /\ n.threads = m.threads \cup {u} /\ n.seen_threads = m.seen_threads
           /\ n.events = m.events /\ n.may_run = m.may_run
           /\ n.in_event = m.in_event /\ n.exited = m.exited
           /\ n.deleted_threads = m.deleted_threads
           /\ \A v \in Tids :
                /\ n.state[v] = IF v = u THEN "STOPPED" ELSE m.state[v]
                /\ n.pending_status[v] = IF v = u THEN None ELSE m.pending_status[v]
                /\ n.suspend_count[v] = IF v = u THEN 0 ELSE m.suspend_count[v]
                /\ n.user_suspend[v] = IF v = u THEN 0 ELSE m.user_suspend[v]
                /\ v # u => n.waiting_sigstop[v] = m.waiting_sigstop[v]
           /\ ~n.waiting_sigstop[u]
<1>0. Good(n)
    BY AddThreadGood
<1>1. /\ n.threads = m.threads \cup {u}
      /\ n.state = [m.state EXCEPT ![u] = "STOPPED"]
      /\ n.suspend_count = [m.suspend_count EXCEPT ![u] = 0]
      /\ n.user_suspend = [m.user_suspend EXCEPT ![u] = 0]
      /\ n.waiting_sigstop = [m.waiting_sigstop EXCEPT ![u] = FALSE]
      /\ n.pending_status = [m.pending_status EXCEPT ![u] = None]
      /\ n.seen_threads = m.seen_threads /\ n.deleted_threads = m.deleted_threads
      /\ n.events = m.events /\ n.in_event = m.in_event /\ n.exited = m.exited
      /\ n.may_run = m.may_run
    BY DEF Good, Shaped, Fields, AddThread
<1>6. ASSUME NEW v \in Tids
      PROVE  /\ n.state[v] = IF v = u THEN "STOPPED" ELSE m.state[v]
             /\ n.pending_status[v] = IF v = u THEN None ELSE m.pending_status[v]
             /\ n.suspend_count[v] = IF v = u THEN 0 ELSE m.suspend_count[v]
             /\ n.user_suspend[v] = IF v = u THEN 0 ELSE m.user_suspend[v]
             /\ v # u => n.waiting_sigstop[v] = m.waiting_sigstop[v]
    BY <1>1 DEF Good, Typed
<1>7. ~n.waiting_sigstop[u]
    BY <1>1 DEF Good, Typed
<1> QED BY <1>0, <1>1, <1>6, <1>7

\* What retrieve_pending_signal changes.
LEMMA TakePendingFields ==
    ASSUME NEW m, Good(m), NEW t \in Flagged(m), NEW n, n = TakePending(m, t)
    PROVE  /\ Good(n)
           /\ n.threads = m.threads /\ n.events = m.events /\ n.may_run = m.may_run
           /\ n.in_event = m.in_event /\ n.exited = m.exited /\ n.state = m.state
           /\ n.waiting_sigstop = m.waiting_sigstop
           /\ n.suspend_count = m.suspend_count /\ n.user_suspend = m.user_suspend
           /\ n.deleted_threads = m.deleted_threads /\ n.seen_threads = m.seen_threads
           /\ \A u \in Tids : n.pending_status[u] = IF u = t THEN None ELSE m.pending_status[u]
<1>0. Good(n)
    BY TakePendingGood
<1>1. /\ n.pending_status = [m.pending_status EXCEPT ![t] = None]
      /\ \A f \in Fields \ {"pending_status", "npending_signals"} : n[f] = m[f]
    BY DEF Good, Shaped, Fields, TakePending
<1>2. \A u \in Tids : n.pending_status[u] = IF u = t THEN None ELSE m.pending_status[u]
    BY <1>1 DEF Good, Typed
<1> QED BY <1>0, <1>1, <1>2 DEF Fields

\* get_debug_event on a status; its assertion 30057 holds.
LEMMA BeginUnfold ==
    ASSUME NEW m, NEW t, NEW s, NEW r, BeginEvent(m, t, s, r),
           m.state[t] # "STOPPED" \/ m.exited \/ s \in Exits,
           NEW n, n = MarkStopped(m, t)
    PROVE  /\ dm' = Freeze(n, Tids) /\ queue' = FreezeSet(n, Tids)
           /\ job' = EventJob(t, s, r) /\ pc' = "freeze" /\ cur' = cur /\ failed' = failed
<1>1. StartFreeze(n, Tids, EventJob(t, s, r)) /\ cur' = cur /\ failed' = failed
    BY DEF BeginEvent, MarkStopped
<1> QED BY <1>1 DEF StartFreeze

\* The parts of the invariant between two calls of get_debug_event.
LEMMA PollFacts ==
    ASSUME IInv, Agree, pc = "poll", dm.events = << >>
    PROVE  /\ ~Ended(dm, cur) /\ queue = {} /\ \A t \in Tids : Taken[t] = None
           /\ \A t \in dm.threads : task[t] = "gone" => dm.pending_status[t] \in Exits
<1>1. ~Ended(dm, cur)
    BY DEF Agree, Ended
<1>2. \A t \in Tids : Taken[t] = None
    BY NothingTaken
<1>3. queue = {} /\ Reaped(dm, Taken, task, cur)
    BY DEF Agree
<1>4. \A t \in dm.threads : task[t] = "gone" => dm.pending_status[t] \in Exits
    BY <1>1, <1>2, <1>3, AgreeFacts, StatusFacts DEF Reaped
<1> QED BY <1>1, <1>2, <1>3, <1>4

\* The status of a known thread, not a clone.
LEMMA PollKnownAgree ==
    ASSUME IInv, Agree, NEW t \in Tids, PollStatus(t), t \in dm.threads, wstat[t] # "CLONE"
    PROVE  Agree'
<1>0. pc = "poll" /\ dm.events = << >> /\ Reportable(t) /\ t \notin Deleted(dm) \ dm.threads
      /\ Collect(t, t \in Deleted(dm) \ dm.threads)
    BY DEF PollStatus
<1>1. /\ ~Ended(dm, cur) /\ queue = {} /\ \A u \in Tids : Taken[u] = None
      /\ \A u \in dm.threads : task[u] = "gone" => dm.pending_status[u] \in Exits
    BY <1>0, PollFacts
<1>2. /\ Collects(t, task, wstat, task', wstat') /\ child' = child
      /\ ~QwaitStub /\ wstat[t] # None /\ wstat[t] \in Status
      /\ t = Main /\ wstat[t] \in Exits => \A u \in Tids \ {Main} : task[u] \in {"none", "gone"}
      /\ Tables(task', wstat', sigs, child)
    BY <1>0, CollectStep
<1>3. /\ Kernel(task', wstat', sigs, child)
      /\ \A u \in Tids : Alive(task', u) <=> Alive(task, u)
      /\ task[t] = IF wstat[t] \in Exits THEN "zombie" ELSE "stop"
    BY <1>2, AgreeFacts, CollectKernel
<1>4. dm.state[t] # "STOPPED" \/ dm.exited \/ wstat[t] \in Exits
  <2>1. Known(dm, None, task, wstat, sigs, t)
    BY <1>1, AgreeFacts, FitAt
  <2> QED BY <1>2, <1>3, <2>1, StatusFacts DEF Known, Alive
<1> DEFINE n == MarkStopped(dm, t)
<1>4a. BeginEvent(dm, t, wstat[t], FALSE) /\ SendSigstop(queue')
    BY DEF PollStatus, TakeStatus
<1>4b. n = MarkStopped(dm, t)
    OBVIOUS
<1> HIDE DEF n
<1>5. /\ dm' = Freeze(n, Tids) /\ queue' = FreezeSet(n, Tids)
      /\ job' = EventJob(t, wstat[t], FALSE) /\ pc' = "freeze" /\ SendSigstop(queue')
      /\ UNCHANGED <<cur, failed>>
    BY <1>4, <1>4a, <1>4b, BeginUnfold
<1>6. /\ Good(n) /\ StopsEntry(dm, n, t)
      /\ n.threads = dm.threads /\ n.events = dm.events /\ n.may_run = dm.may_run
      /\ n.in_event = dm.in_event /\ n.exited = dm.exited
      /\ n.pending_status = dm.pending_status /\ n.state[t] = "STOPPED"
    BY <1>4b, AgreeFacts, StoppedFields
<1>7. (\A u \in Tids : Taken'[u] = IF u = t THEN wstat[t] ELSE None)
        => Fit(n, Taken', task', wstat', sigs, child)
    BY <1>1, <1>2, <1>6, AgreeFacts, TakenFit
<1>8. wstat[t] \in Exits => task'[t] = "gone"
    BY <1>2 DEF Collects
<1>9. n.may_run /\ ~n.exited => n.events = << >> /\ ~n.in_event
    BY <1>6 DEF Agree, Hushed
<1>9a. ~n.in_event \/ n.exited
    BY <1>0, <1>6 DEF Agree, Asked
<1>10. ~Ended(n, cur)
    BY <1>1, <1>6 DEF Ended
<1>11. \A u \in n.threads : task'[u] = "gone" => n.pending_status[u] \in Exits \/ (u = t /\ wstat[t] \in Exits)
    BY <1>1, <1>2, <1>6, AgreeFacts DEF Collects
<1> QED BY <1>2, <1>3, <1>5, <1>6, <1>7, <1>8, <1>9, <1>9a, <1>10, <1>11, BeginAgree

\* The clone event of p, taken from wait or put aside before; k is the object
\* without it.
LEMMA CloneTaken ==
    ASSUME IInv, Agree, pc = "poll", dm.events = << >>,
           NEW p \in Tids, OpenClone(dm, task, wstat, p),
           dm.pending_status[p] # None => dm.suspend_count[p] = 0 /\ dm.user_suspend[p] = 0,
           NEW k, Good(k), k.threads = dm.threads, k.events = dm.events, k.may_run = dm.may_run,
           k.in_event = dm.in_event, k.exited = dm.exited, k.state = dm.state,
           k.waiting_sigstop = dm.waiting_sigstop,
           k.suspend_count = dm.suspend_count, k.user_suspend = dm.user_suspend,
           k.deleted_threads = dm.deleted_threads, k.seen_threads = dm.seen_threads,
           \A t \in Tids : k.pending_status[t] = IF t = p THEN None ELSE dm.pending_status[t],
           TakeStatus(k, p, "CLONE"), SendSigstop(queue'),
           task' = task, child' = child,
           wstat' \in [Tids -> Status \cup {None}],
           \A t \in Tids : wstat'[t] = IF t = p THEN None ELSE wstat[t]
    PROVE  Agree'
<1> DEFINE u == child[p]
<1>0. u = child[p]
    OBVIOUS
<1> HIDE DEF u
<1>1. /\ ~Ended(dm, cur) /\ queue = {} /\ \A t \in Tids : Taken[t] = None
      /\ \A t \in dm.threads : task[t] = "gone" => dm.pending_status[t] \in Exits
    BY PollFacts
<1>2. p \in dm.threads /\ u \in Tids
    BY <1>0, AgreeFacts DEF OpenClone
<1>3. Alive(task, u) /\ u \notin dm.threads /\ u # p
    BY <1>0, <1>2, AgreeFacts DEF OpenClone, Fit, Clones
<1>4. Tables(task', wstat', sigs, child)
    BY AgreeFacts DEF Tables
<1>4a. /\ Good(dm) /\ Tables(task, wstat, sigs, child) /\ Kernel(task, wstat, sigs, child)
       /\ Fit(dm, Taken, task, wstat, sigs, child)
    BY AgreeFacts
<1>4b. Taken[p] = None /\ Taken[u] = None
    BY <1>1, <1>2
<1>5. CASE u \in dm.seen_threads
  <2> DEFINE l == SeenNewborn(k, p)
             n == MarkStopped(l, p)
  <2>0. l = SeenNewborn(k, p) /\ n = MarkStopped(l, p)
    OBVIOUS
  <2> HIDE DEF l, n
  <2>1. /\ Good(l)
        /\ l.threads = k.threads \cup {u} /\ l.seen_threads = k.seen_threads \ {u}
        /\ k.events = << >> => \A i \in 1 .. Len(l.events) : l.events[i].eid = "THREAD_START"
        /\ ~l.may_run
        /\ l.in_event = k.in_event /\ l.exited = k.exited
        /\ l.deleted_threads = k.deleted_threads
        /\ \A v \in Tids :
                /\ l.state[v] = IF v = u THEN "STOPPED" ELSE k.state[v]
                /\ l.pending_status[v] = IF v = u THEN None ELSE k.pending_status[v]
                /\ l.suspend_count[v] = IF v = u THEN 0 ELSE k.suspend_count[v]
                /\ l.user_suspend[v] = IF v = u THEN 0 ELSE k.user_suspend[v]
                /\ v # u => l.waiting_sigstop[v] = k.waiting_sigstop[v]
        /\ ~l.waiting_sigstop[u]
    BY <1>0, <1>2, <1>3, <2>0, SeenNewbornFields
  <2>2. BeginEvent(l, p, "CLONE", TRUE)
    BY <1>0, <1>5, <2>0 DEF TakeStatus
  <2>3. /\ Good(n)
        /\ n.threads = l.threads /\ n.events = l.events /\ n.may_run = l.may_run
        /\ n.in_event = l.in_event /\ n.exited = l.exited
        /\ n.pending_status = l.pending_status /\ n.waiting_sigstop = l.waiting_sigstop
        /\ n.suspend_count = l.suspend_count /\ n.user_suspend = l.user_suspend
        /\ n.deleted_threads = l.deleted_threads /\ n.seen_threads = l.seen_threads
        /\ \A v \in Tids : n.state[v] = IF v = p THEN "STOPPED" ELSE l.state[v]
    BY <2>0, <2>1, StoppedFields
  <2>4. \A t \in Tids :
              /\ n.state[t] = IF t = u \/ (t = p /\ u \in dm.seen_threads) THEN "STOPPED" ELSE dm.state[t]
              /\ n.pending_status[t] = IF t = p \/ t = u THEN None ELSE dm.pending_status[t]
              /\ n.suspend_count[t] = IF t = u THEN 0 ELSE dm.suspend_count[t]
              /\ n.user_suspend[t] = IF t = u THEN 0 ELSE dm.user_suspend[t]
              /\ t # u => n.waiting_sigstop[t] = dm.waiting_sigstop[t]
    BY <1>3, <1>5, <2>1, <2>3
  <2>5. /\ n.exited = dm.exited /\ n.deleted_threads = dm.deleted_threads
        /\ n.threads = dm.threads \cup {u} /\ n.seen_threads = dm.seen_threads \ {u}
    BY <2>1, <2>3
  <2>6. dm.state[p] # "STOPPED" /\ task[p] = "stop" /\ Kernel(task, wstat', sigs, child)
        /\ ((\A t \in Tids : Taken'[t] = IF t = p THEN "CLONE" ELSE None)
              => Fit(n, Taken', task, wstat', sigs, child))
    <3> DEFINE X2 == [t \in Tids |-> IF t = p THEN "CLONE" ELSE None]
    <3>1. \A Y : (\A t \in Tids : Y[t] = IF t = p THEN "CLONE" ELSE None) =>
              /\ Fit(n, Y, task, wstat', sigs, child)
              /\ dm.state[p] # "STOPPED" /\ task[p] = "stop" /\ Kernel(task, wstat', sigs, child)
      <4> SUFFICES ASSUME NEW Y, \A t \in Tids : Y[t] = IF t = p THEN "CLONE" ELSE None
                   PROVE  /\ Fit(n, Y, task, wstat', sigs, child)
                          /\ dm.state[p] # "STOPPED" /\ task[p] = "stop" /\ Kernel(task, wstat', sigs, child)
        OBVIOUS
      <4>1. \A t \in Tids : Y[t] = IF t = p THEN "CLONE" ELSE IF t = u /\ u \notin dm.seen_threads THEN "EXITED" ELSE Taken[t]
        BY <1>1, <1>5
      <4>2. ~n.waiting_sigstop[u]
        BY <2>1, <2>3
      <4> QED BY <1>0, <1>4a, <1>4b, <2>4, <2>5, <4>1, <4>2, CloneFit, SMTT(20)
    <3>2. \A t \in Tids : X2[t] = IF t = p THEN "CLONE" ELSE None
      OBVIOUS
    <3> QED BY <3>1, <3>2
  <2>7. l.state[p] # "STOPPED"
    BY <1>3, <2>1, <2>6
  <2>8. /\ dm' = Freeze(n, Tids) /\ queue' = FreezeSet(n, Tids)
        /\ job' = EventJob(p, "CLONE", TRUE) /\ pc' = "freeze"
        /\ UNCHANGED <<cur, failed>>
    BY <2>0, <2>2, <2>7 DEF BeginEvent, StartFreeze, MarkStopped
  <2>9. ~Ended(n, cur)
    BY <1>1, <2>1, <2>3 DEF Ended
  <2>10. \A t \in n.threads : task[t] = "gone" => n.pending_status[t] \in Exits \/ (t = p /\ "CLONE" \in Exits)
    BY <1>1, <1>2, <1>3, <2>4, <2>5, <2>6, AgreeFacts DEF Alive
  <2>11. p \in n.threads /\ n.state[p] = "STOPPED" /\ ~n.may_run /\ (~n.in_event \/ n.exited)
    BY <1>2, <2>1, <2>3, <2>5 DEF Agree, Asked
  <2> QED BY <1>4, <2>3, <2>6, <2>8, <2>9, <2>10, <2>11, AgreeFacts, StatusFacts, BeginAgree
<1>6. CASE u \notin dm.seen_threads
  <2>1. /\ dm' = AddThread(k, u) /\ job' = EventJob(p, "CLONE", TRUE) /\ pc' = "newborn"
        /\ UNCHANGED <<cur, queue, failed, budget>>
    BY <1>0, <1>6 DEF TakeStatus, Newborn
  <2>2. /\ Good(dm')
        /\ dm'.threads = k.threads \cup {u} /\ dm'.seen_threads = k.seen_threads
        /\ dm'.events = k.events /\ dm'.may_run = k.may_run
        /\ dm'.in_event = k.in_event /\ dm'.exited = k.exited
        /\ dm'.deleted_threads = k.deleted_threads
        /\ \A v \in Tids :
                /\ dm'.state[v] = IF v = u THEN "STOPPED" ELSE k.state[v]
                /\ dm'.pending_status[v] = IF v = u THEN None ELSE k.pending_status[v]
                /\ dm'.suspend_count[v] = IF v = u THEN 0 ELSE k.suspend_count[v]
                /\ dm'.user_suspend[v] = IF v = u THEN 0 ELSE k.user_suspend[v]
                /\ v # u => dm'.waiting_sigstop[v] = k.waiting_sigstop[v]
        /\ ~dm'.waiting_sigstop[u]
    BY <1>2, <1>3, <2>1, AddThreadFields
  <2>3. \A t \in Tids :
              /\ dm'.state[t] = IF t = u \/ (t = p /\ u \in dm.seen_threads) THEN "STOPPED" ELSE dm.state[t]
              /\ dm'.pending_status[t] = IF t = p \/ t = u THEN None ELSE dm.pending_status[t]
              /\ dm'.suspend_count[t] = IF t = u THEN 0 ELSE dm.suspend_count[t]
              /\ dm'.user_suspend[t] = IF t = u THEN 0 ELSE dm.user_suspend[t]
              /\ t # u => dm'.waiting_sigstop[t] = dm.waiting_sigstop[t]
    BY <1>3, <1>6, <2>2
  <2>4. /\ dm'.exited = dm.exited /\ dm'.deleted_threads = dm.deleted_threads
        /\ dm'.threads = dm.threads \cup {u} /\ dm'.seen_threads = dm.seen_threads \ {u}
    BY <1>6, <2>2
  <2>5. job'.tid = p /\ job'.status = "CLONE"
    BY <2>1 DEF EventJob
  <2>6. \A t \in Tids : Taken'[t] = IF t = p THEN "CLONE" ELSE IF t = u /\ u \notin dm.seen_threads THEN "EXITED" ELSE Taken[t]
    BY <1>0, <1>1, <1>6, <2>1, <2>5 DEF Taken
  <2>7. /\ Fit(dm', Taken', task, wstat', sigs, child) /\ Kernel(task, wstat', sigs, child)
        /\ task[p] = "stop" /\ dm.state[p] # "STOPPED"
    <3>1. ~dm'.waiting_sigstop[u]
      BY <2>2
    <3> QED BY <1>0, <1>4a, <1>4b, <2>3, <2>4, <2>6, <3>1, CloneFit, SMTT(20)
  <2>7a. \/ task[u] = "run" /\ sigs[u] = {"SIGSTOP"}
         \/ task[u] = "stop" /\ sigs[u] = {} /\ wstat[u] = "SIGSTOP"
    <3>1. Unseen(dm, task, wstat, sigs, u)
      BY <1>2, AgreeFacts, FitAt
    <3> QED BY <1>3, <1>6, <3>1 DEF Unseen, Alive
  <2>8. \A t \in Tids : sigs'[t] = sigs[t]
    BY <1>1, <2>1 DEF SendSigstop
  <2>9. sigs' = sigs
    BY <1>1, <2>1, <2>8, AgreeFacts DEF SendSigstop, KernelTyped
  <2>10. ~Ended(dm, cur)' /\ dm'.events = << >>
    BY <1>1, <2>1, <2>2 DEF Ended
  <2>11. Birth'
    <3>1. dm'.state[p] # "STOPPED" /\ dm'.pending_status[p] = None
      BY <1>2, <1>3, <1>6, <2>3, <2>7, AgreeFacts
    <3>2. dm'.state[u] = "STOPPED" /\ dm'.pending_status[u] = None /\ ~dm'.waiting_sigstop[u]
      BY <1>2, <1>3, <2>2, <2>3
    <3>3. Alive(task, p) /\ wstat'[p] = None /\ wstat'[u] = wstat[u]
      BY <1>2, <1>3, <2>7 DEF Alive
    <3>4. task[u] # "gone"
      BY <2>7a
    <3>5. child'[p] = u
      BY <1>0
    <3> QED BY <1>2, <1>3, <2>4, <2>5, <2>7, <2>7a, <2>9, <2>10, <3>1, <3>2, <3>3, <3>4, <3>5 DEF Birth
  <2>12. Hushed(dm, task)'
    <3>1. Hushed(dm, task)
      BY DEF Agree
    <3>2. dm'.in_event => Down(task)
      BY <1>4a, <2>2 DEF Agree, Asked, Fit
    <3> QED BY <2>2, <2>10, <3>1, <3>2 DEF Hushed
  <2>13. Reaped(dm, Taken, task, cur)'
    BY <1>1, <1>2, <1>3, <2>3, <2>4, <2>7, AgreeFacts DEF Reaped, Alive
  <2>14. Freezing' /\ Asked'
    BY <2>1, <2>2 DEF Freezing, Agree, Asked
  <2> QED BY <1>1, <2>1, <2>7, <2>9, <2>10, <2>11, <2>12, <2>13, <2>14 DEF Agree
<1> QED BY <1>5, <1>6

\* The status of a thread that is not in the table is put aside.
LEMMA PollUnknownAgree ==
    ASSUME IInv, Agree, NEW t \in Tids, PollStatus(t), t \notin dm.threads
    PROVE  Agree'
<1>0. /\ pc = "poll" /\ dm.events = << >> /\ Reportable(t)
      /\ Collect(t, t \in Deleted(dm) \ dm.threads)
      /\ dm' = StorePendingSignal(dm, t, wstat[t])
      /\ UNCHANGED <<cur, pc, job, queue, failed, budget>>
      /\ SendSigstop(queue')
    BY DEF PollStatus
<1>1. /\ ~Ended(dm, cur) /\ queue = {} /\ \A u \in Tids : Taken[u] = None
      /\ \A u \in dm.threads : task[u] = "gone" => dm.pending_status[u] \in Exits
    BY <1>0, PollFacts
<1>2. /\ Collects(t, task, wstat, task', wstat') /\ child' = child
      /\ ~QwaitStub /\ wstat[t] # None /\ wstat[t] \in Status
      /\ t = Main /\ wstat[t] \in Exits => \A u \in Tids \ {Main} : task[u] \in {"none", "gone"}
      /\ Tables(task', wstat', sigs, child)
    BY <1>0, CollectStep
<1>3. /\ Kernel(task', wstat', sigs, child)
      /\ Down(task') <=> Down(task)
    BY <1>2, AgreeFacts, CollectKernel
<1>4. Taken[t] \notin Exits
    BY <1>1, StatusFacts
<1>5. Fit(dm', Taken, task', wstat', sigs, child)
    BY <1>0, <1>2, <1>4, AgreeFacts, StoreFit
<1>6. sigs' = sigs
  <2>1. \A u \in Tids : sigs'[u] = sigs[u]
    BY <1>0, <1>1 DEF SendSigstop
  <2> QED BY <1>0, <2>1, AgreeFacts DEF SendSigstop, KernelTyped
<1>7. Taken' = Taken
    BY <1>0, <1>2 DEF Taken
<1>8. /\ dm'.threads = dm.threads /\ dm'.exited = dm.exited /\ dm'.events = dm.events
      /\ dm'.may_run = dm.may_run /\ dm'.in_event = dm.in_event
      /\ \A u \in Tids : /\ dm'.state[u] = dm.state[u] /\ dm'.waiting_sigstop[u] = dm.waiting_sigstop[u]
                         /\ dm'.pending_status[u] = dm.pending_status[u]
    BY <1>0, <1>2, AgreeFacts, StoreFields
<1>9. Quiet(dm) => Quiet(dm')
    BY <1>8, AgreeFacts DEF Quiet, IsRunning
<1>10. Hushed(dm, task)'
    BY <1>3, <1>8, <1>9 DEF Agree, Hushed
<1>11. Reaped(dm, Taken, task, cur)'
    BY <1>1, <1>2, <1>8, AgreeFacts DEF Reaped, Collects
<1>12. Freezing' /\ Birth' /\ Asked' /\ ~Ended(dm, cur)'
    BY <1>0, <1>1, <1>8 DEF Freezing, Birth, Asked, Agree, Ended
<1> QED BY <1>0, <1>1, <1>2, <1>3, <1>5, <1>6, <1>7, <1>10, <1>11, <1>12 DEF Agree

\* The clone event of a known thread.
LEMMA PollCloneAgree ==
    ASSUME IInv, Agree, NEW t \in Tids, PollStatus(t), t \in dm.threads, wstat[t] = "CLONE"
    PROVE  Agree'
<1>0. /\ pc = "poll" /\ dm.events = << >> /\ Reportable(t)
      /\ Collect(t, t \in Deleted(dm) \ dm.threads)
      /\ TakeStatus(dm, t, "CLONE") /\ SendSigstop(queue')
    BY DEF PollStatus
<1>1. \A u \in Tids : Taken[u] = None
    BY <1>0, PollFacts
<1>2. /\ Collects(t, task, wstat, task', wstat') /\ child' = child
      /\ Tables(task', wstat', sigs, child)
    BY <1>0, CollectStep
<1>3. task' = task
    BY <1>0, StatusFacts, AgreeFacts DEF Collect, KernelTyped
<1>4. Alive(task, t)
    BY StatusFacts, AgreeFacts DEF Kernel, Alive
<1>5. OpenClone(dm, task, wstat, t)
    BY <1>4 DEF OpenClone
<1>6. dm.pending_status[t] = None
  <2>1. Known(dm, None, task, wstat, sigs, t)
    BY <1>1, AgreeFacts, FitAt
  <2> QED BY <1>4, <2>1, StatusFacts DEF Known
<1>7. \A u \in Tids : /\ wstat'[u] = IF u = t THEN None ELSE wstat[u]
                      /\ dm.pending_status[u] = IF u = t THEN None ELSE dm.pending_status[u]
    BY <1>2, <1>6 DEF Collects
<1>8. wstat' \in [Tids -> Status \cup {None}] /\ Good(dm)
    BY <1>2, AgreeFacts DEF Tables
<1> QED BY <1>0, <1>2, <1>3, <1>5, <1>6, <1>7, <1>8, CloneTaken

\* A stop that was put aside is that of a thread that lives: no exit is left to collect.
LEMMA PendingAlive ==
    ASSUME IInv, Agree, pc = "poll", dm.events = << >>, \A u \in Tids : ~Reportable(u),
           NEW t \in dm.threads, dm.pending_status[t] \in Stops
    PROVE  Alive(task, t)
<1>1. /\ \A u \in Tids : Taken[u] = None
      /\ \A u \in dm.threads : task[u] = "gone" => dm.pending_status[u] \in Exits
    BY PollFacts
<1>2. t \in Tids /\ ~QwaitStub
    BY StatusFacts, AgreeFacts DEF Fit
<1>3. \A u \in Tids : task[u] = "zombie" => wstat[u] # None
    BY StatusFacts, AgreeFacts DEF Kernel
<1>4. \A u \in Tids : task[u] = "zombie" => u = Main
    BY <1>2, <1>3 DEF Reportable
<1>5. Entry(dm, None, task, t)
    BY <1>1, <1>2, AgreeFacts, FitAt
<1>6. task[t] # "gone" /\ task[t] # "none"
    BY <1>1, <1>5, StatusFacts DEF Entry
<1>7. task[t] # "zombie"
  <2> SUFFICES ASSUME task[t] = "zombie" PROVE FALSE
    OBVIOUS
  <2>1. Down(task)
    BY <1>5, StatusFacts DEF Entry
  <2>2. \A u \in Tids \ {Main} : task[u] \in {"none", "gone"}
    BY <1>4, <2>1, AgreeFacts DEF Down, Alive
  <2> QED BY <1>2, <1>3, <2>2 DEF Reportable
<1> QED BY <1>2, <1>6, <1>7, AgreeFacts DEF Alive

\* retrieve_pending_signal takes a stored status up again.
LEMMA PollPendingAgree ==
    ASSUME IInv, Agree, PollPending
    PROVE  Agree'
<1>0. PICK t \in PendingChoice(dm) : TakeStatus(TakePending(dm, t), t, dm.pending_status[t])
    BY DEF PollPending
<1>1. /\ pc = "poll" /\ dm.events = << >> /\ \A u \in Tids : ~Reportable(u)
      /\ SendSigstop(queue') /\ task' = task /\ wstat' = wstat /\ child' = child
    BY DEF PollPending
<1>2. /\ t \in Flagged(dm) /\ t \in dm.threads /\ t \in Tids
      /\ dm.pending_status[t] # None /\ dm.user_suspend[t] = 0 /\ dm.suspend_count[t] = 0
    BY <1>0, AgreeFacts DEF PendingChoice, Retrievable, Flagged
<1>3. /\ ~Ended(dm, cur) /\ queue = {} /\ \A u \in Tids : Taken[u] = None
      /\ \A u \in dm.threads : task[u] = "gone" => dm.pending_status[u] \in Exits
    BY <1>1, PollFacts
<1> DEFINE k == TakePending(dm, t)
<1>4. k = TakePending(dm, t)
    OBVIOUS
<1> HIDE DEF k
<1>5. /\ Good(k)
      /\ k.threads = dm.threads /\ k.events = dm.events /\ k.may_run = dm.may_run
      /\ k.in_event = dm.in_event /\ k.exited = dm.exited /\ k.state = dm.state
      /\ k.waiting_sigstop = dm.waiting_sigstop
      /\ k.suspend_count = dm.suspend_count /\ k.user_suspend = dm.user_suspend
      /\ k.deleted_threads = dm.deleted_threads /\ k.seen_threads = dm.seen_threads
      /\ \A u \in Tids : k.pending_status[u] = IF u = t THEN None ELSE dm.pending_status[u]
    BY <1>2, <1>4, AgreeFacts, TakePendingFields
<1>6. dm.pending_status[t] \in Stops \/ dm.pending_status[t] \in Exits
    BY <1>2, StatusFacts, AgreeFacts, FitAt
<1>7. Entry(dm, None, task, t) /\ Known(dm, None, task, wstat, sigs, t)
    BY <1>2, <1>3, AgreeFacts, FitAt
<1>8. CASE dm.pending_status[t] = "CLONE"
  <2>1. Alive(task, t)
    BY <1>1, <1>2, <1>8, StatusFacts, PendingAlive
  <2>2. OpenClone(dm, task, wstat, t) /\ wstat[t] = None
    BY <1>2, <1>7, <1>8, <2>1, StatusFacts DEF OpenClone, Known
  <2>3. \A u \in Tids : wstat'[u] = IF u = t THEN None ELSE wstat[u]
    BY <1>1, <2>2
  <2>4. TakeStatus(k, t, "CLONE")
    BY <1>0, <1>4, <1>8
  <2>5. wstat' \in [Tids -> Status \cup {None}]
    BY <1>1, AgreeFacts DEF KernelTyped
  <2> QED BY <1>1, <1>2, <1>5, <2>2, <2>3, <2>4, <2>5, CloneTaken
<1>9. CASE dm.pending_status[t] # "CLONE"
  <2> DEFINE s == dm.pending_status[t]
             n == MarkStopped(k, t)
  <2>0. n = MarkStopped(k, t)
    OBVIOUS
  <2> HIDE DEF n
  <2>1. k.state[t] # "STOPPED" \/ k.exited \/ s \in Exits
    BY <1>2, <1>5, <1>6, <1>7, StatusFacts DEF Entry
  <2>2. BeginEvent(k, t, s, FALSE)
    BY <1>0, <1>4, <1>9 DEF TakeStatus
  <2>3. /\ dm' = Freeze(n, Tids) /\ queue' = FreezeSet(n, Tids)
        /\ job' = EventJob(t, s, FALSE) /\ pc' = "freeze" /\ cur' = cur /\ failed' = failed
    BY <2>0, <2>1, <2>2, BeginUnfold
  <2>4. /\ Good(n) 
        /\ n.threads = k.threads /\ n.events = k.events /\ n.may_run = k.may_run
        /\ n.in_event = k.in_event /\ n.exited = k.exited
        /\ n.pending_status = k.pending_status /\ n.waiting_sigstop = k.waiting_sigstop
        /\ n.suspend_count = k.suspend_count /\ n.user_suspend = k.user_suspend
        /\ n.deleted_threads = k.deleted_threads /\ n.seen_threads = k.seen_threads
        /\ \A u \in Tids : n.state[u] = IF u = t THEN "STOPPED" ELSE k.state[u]
    BY <1>2, <1>5, <2>0, StoppedFields
  <2>5. /\ \A f \in FitFields \ {"state", "pending_status"} : n[f] = dm[f]
        /\ \A u \in Tids : /\ n.state[u] = IF u = t THEN "STOPPED" ELSE dm.state[u]
                           /\ n.pending_status[u] = IF u = t THEN None ELSE dm.pending_status[u]
    BY <1>5, <2>4 DEF FitFields
  <2>6. (\A u \in Tids : Taken'[u] = IF u = t THEN s ELSE None)
           => Fit(n, Taken', task', wstat', sigs, child)
    <3> SUFFICES ASSUME \A u \in Tids : Taken'[u] = IF u = t THEN s ELSE None
                 PROVE  Fit(n, Taken', task, wstat, sigs, child)
      BY <1>1
    <3>1. \A u \in Tids : Taken'[u] = IF u = t THEN dm.pending_status[t] ELSE Taken[u]
      BY <1>3
    <3>2. Taken[t] = None /\ dm.pending_status[t] \notin {None, "CLONE"}
      BY <1>2, <1>3, <1>9
    <3> QED BY <1>2, <2>5, <3>1, <3>2, AgreeFacts, PendingFit
  <2>7. s \in Exits => task'[t] = "gone"
    BY <1>1, <1>2, <1>7 DEF Entry
  <2>8. n.may_run /\ ~n.exited => n.events = << >> /\ ~n.in_event
    BY <1>5, <2>4 DEF Agree, Hushed
  <2>9. ~n.in_event \/ n.exited
    BY <1>1, <1>5, <2>4 DEF Agree, Asked
  <2>10. ~Ended(n, cur)
    BY <1>3, <1>5, <2>4 DEF Ended
  <2>11. \A u \in n.threads : task'[u] = "gone" => n.pending_status[u] \in Exits \/ (u = t /\ s \in Exits)
    BY <1>1, <1>3, <1>5, <2>4, <2>5, AgreeFacts
  <2>12. Kernel(task', wstat', sigs, child) /\ Tables(task', wstat', sigs, child)
         /\ \A u \in Tids : Alive(task', u) <=> Alive(task, u)
    BY <1>1, AgreeFacts
  <2>13. t \in n.threads /\ n.state[t] = "STOPPED" /\ s # None /\ s # "CLONE"
    BY <1>2, <1>5, <1>9, <2>4
  <2> HIDE DEF s
  <2> QED BY <1>1, <1>2, <2>3, <2>4, <2>6, <2>7, <2>8, <2>9, <2>10, <2>11, <2>12, <2>13, BeginAgree
<1> QED BY <1>8, <1>9

-----------------------------------------------------------------------------
(* The queue of events, and the waiting loop *)

\* The client asks, or there is nothing to tell.
LEMMA AskAgree ==
    ASSUME IInv, Agree, GetDebugEvent \/ PollNothing
    PROVE  Agree'
<1>1. /\ UNCHANGED <<dm, cur, job, queue, failed, kernel>> /\ pc \in {"idle", "poll"} /\ pc' \in {"idle", "poll"}
      /\ pc' = "poll" => cur.eid # "PROCESS_EXIT" /\ (~dm.in_event \/ dm.exited)
    BY DEF GetDebugEvent, PollNothing
<1>2. Taken' = Taken
    BY <1>1 DEF Taken, kernel
<1>3. /\ Kernel(task, wstat, sigs, child)' /\ Fit(dm, Taken, task, wstat, sigs, child)'
      /\ Hushed(dm, task)'
    BY <1>1, <1>2 DEF Agree, Hushed, Quiet, kernel
<1>4. Reaped(dm, Taken, task, cur)'
    BY <1>1, <1>2 DEF Agree, Reaped, Ended, kernel
<1>5. Freezing' /\ Birth' /\ Asked'
    BY <1>1 DEF Freezing, Birth, Asked
<1> QED BY <1>1, <1>3, <1>4, <1>5 DEF Agree, Ended

\* The object when an event goes to the client.
Delivered(m) == [m EXCEPT !.events = Tail(@), !.in_event = TRUE, !.requested_to_suspend = FALSE]

\* What changes with it.
LEMMA DeliverFields ==
    ASSUME NEW m, Good(m), NEW n, n = Delivered(m)
    PROVE  /\ \A f \in Fields \ {"events", "in_event", "requested_to_suspend"} : n[f] = m[f]
           /\ n.events = Tail(m.events) /\ n.in_event
BY DEF Good, Shaped, Fields, Delivered

\* The oldest event goes to the client.
LEMMA DeliverAgree ==
    ASSUME IInv, Agree, Deliver
    PROVE  Agree'
<1>1. /\ pc = "poll" /\ pc' = "idle" /\ dm.events # << >> /\ cur' = Head(dm.events)
      /\ UNCHANGED <<job, queue, failed>>
      /\ task' = task /\ wstat' = wstat /\ sigs' = sigs /\ child' = child
    BY DEF Deliver, kernel
<1>2. /\ \A f \in Fields \ {"events", "in_event", "requested_to_suspend"} : dm'[f] = dm[f]
      /\ dm'.events = Tail(dm.events) /\ dm'.in_event
  <2>1. dm' = Delivered(dm)
    BY DEF Deliver, Delivered
  <2> QED BY <2>1, AgreeFacts, DeliverFields
<1>3. Taken' = Taken
    BY <1>1 DEF Taken
<1>4. /\ \A f \in FitFields : dm'[f] = dm[f]
      /\ dm'.threads = dm.threads /\ dm'.state = dm.state /\ dm'.waiting_sigstop = dm.waiting_sigstop
      /\ dm'.pending_status = dm.pending_status /\ dm'.may_run = dm.may_run /\ dm'.exited = dm.exited
    BY <1>2 DEF Fields, FitFields
<1>5. Fit(dm', Taken, task, wstat, sigs, child)
    BY <1>4, AgreeFacts, SameFit
<1>6. Hushed(dm, task)'
    BY <1>1, <1>2, <1>4 DEF Agree, Hushed, Quiet, IsRunning
<1>7. dm.events \in Seq(Event)
    BY AgreeFacts DEF Good, Typed
<1>8. Ended(dm, cur) <=> Ended(dm, cur)'
  <2>1. cur.eid # "PROCESS_EXIT"
    BY <1>1 DEF Agree
  <2>2. /\ Len(dm'.events) = Len(dm.events) - 1 /\ Len(dm.events) \in Nat \ {0}
        /\ \A i \in 1 .. Len(dm.events) - 1 : dm'.events[i] = dm.events[i + 1]
        /\ cur' = dm.events[1]
    BY <1>1, <1>2, <1>7
  <2>3. ASSUME NEW i \in 1 .. Len(dm.events), dm.events[i].eid = "PROCESS_EXIT" PROVE Ended(dm, cur)'
    <3>1. CASE i = 1
      BY <2>2, <2>3, <3>1 DEF Ended
    <3>2. CASE i # 1
      <4>1. i - 1 \in 1 .. Len(dm'.events) /\ dm'.events[i - 1] = dm.events[i]
        BY <2>2, <3>2
      <4> QED BY <2>3, <4>1 DEF Ended
    <3> QED BY <3>1, <3>2
  <2>4. Ended(dm, cur)' => Ended(dm, cur)
    <3>1. CASE cur'.eid = "PROCESS_EXIT"
      BY <2>2, <3>1 DEF Ended
    <3>2. ASSUME NEW i \in 1 .. Len(dm'.events), dm'.events[i].eid = "PROCESS_EXIT" PROVE Ended(dm, cur)
      <4>1. i + 1 \in 1 .. Len(dm.events) /\ dm'.events[i] = dm.events[i + 1]
        BY <2>2
      <4> QED BY <3>2, <4>1 DEF Ended
    <3> QED BY <3>1, <3>2 DEF Ended
  <2> QED BY <2>1, <2>3, <2>4 DEF Ended
<1>9. Reaped(dm, Taken, task, cur)'
    BY <1>1, <1>3, <1>4, <1>8 DEF Agree, Reaped
<1>10. Freezing' /\ Birth' /\ Asked'
    BY <1>1 DEF Freezing, Birth, Asked
<1> QED BY <1>1, <1>3, <1>4, <1>5, <1>6, <1>8, <1>9, <1>10 DEF Agree

\* The freeze loop collects a status: store is the same whether the thread was waited for or not.
LEMMA FreezeStatusAgree ==
    ASSUME IInv, Agree, NEW t \in Tids, FreezeStatus(t)
    PROVE  Agree'
<1>0. /\ pc = "freeze" /\ Reportable(t) /\ Collect(t, t \in Deleted(dm) \ dm.threads)
      /\ UNCHANGED <<cur, job, sigs>>
    BY DEF FreezeStatus
<1>2. /\ Collects(t, task, wstat, task', wstat') /\ child' = child
      /\ ~QwaitStub /\ wstat[t] # None /\ wstat[t] \in Status
      /\ t = Main /\ wstat[t] \in Exits => \A u \in Tids \ {Main} : task[u] \in {"none", "gone"}
      /\ Tables(task', wstat', sigs, child)
    BY <1>0, CollectStep
<1>3. /\ Kernel(task', wstat', sigs, child)
      /\ Down(task') <=> Down(task)
      /\ task[t] = IF wstat[t] \in Exits THEN "zombie" ELSE "stop"
      /\ \A u \in Tids : task'[u] = "none" <=> task[u] = "none"
    BY <1>2, AgreeFacts, CollectKernel
<1>3a. \A u \in Tids : task'[u] = IF u = t /\ wstat[t] \in Exits THEN "gone" ELSE task[u]
    BY <1>2 DEF Collects
<1>4. Taken[t] \notin Exits
  <2>1. Taken[t] = None \/ (job.for = "event" /\ job.tid = t /\ Taken[t] = job.status)
    BY <1>0 DEF Taken
  <2>2. job.for = "event" /\ job.tid = t => job.status \notin Exits
    BY <1>0, <1>3, AgreeFacts DEF Freezing
  <2> QED BY <2>1, <2>2, StatusFacts
<1>5. Taken' = Taken
  <2>1. pc' \in {"freeze", "halt"}
    BY <1>0 DEF FreezeStatus
  <2> QED BY <1>0, <2>1 DEF Taken
<1>6. CASE (t \in queue /\ wstat[t] = "SIGSTOP") \/ StoreAssert(dm, t, wstat[t])
  <2>1. dm' = StorePendingSignal(dm, t, wstat[t]) /\ queue' = queue \ {t} /\ UNCHANGED <<pc, failed>>
    <3>1. CASE t \in queue /\ wstat[t] = "SIGSTOP"
      <4>1. t \in dm.threads /\ dm.waiting_sigstop[t]
        BY <1>0, <3>1, AgreeFacts DEF Freezing
      <4>2. dm' = SigstopArrived(dm, t) /\ queue' = queue \ {t} /\ UNCHANGED <<pc, failed>>
        BY <3>1 DEF FreezeStatus
      <4> QED BY <3>1, <4>1, <4>2 DEF StorePendingSignal
    <3>2. CASE ~(t \in queue /\ wstat[t] = "SIGSTOP")
      BY <1>6, <3>2 DEF FreezeStatus
    <3> QED BY <3>1, <3>2
  <2>2. Fit(dm', Taken, task', wstat', sigs, child)
    BY <1>2, <1>4, <2>1, AgreeFacts, StoreFit
  <2>3. /\ dm'.threads = dm.threads /\ dm'.exited = dm.exited /\ dm'.events = dm.events
        /\ dm'.may_run = dm.may_run /\ dm'.in_event = dm.in_event
        /\ \A u \in Tids : u # t =>
              /\ dm'.state[u] = dm.state[u] /\ dm'.waiting_sigstop[u] = dm.waiting_sigstop[u]
              /\ dm'.pending_status[u] = dm.pending_status[u]
    BY <1>2, <2>1, AgreeFacts, StoreFields
  <2>4. /\ t \in dm.threads => ~IsRunning(dm', t) \/ dm'.state[t] = "STOPPED"
        /\ t \in dm.threads /\ dm.state[t] = "STOPPED" => dm'.state[t] = "STOPPED"
        /\ t \in dm.threads /\ wstat[t] \in Exits => dm'.pending_status[t] = wstat[t]
    <3>1. t \in dm.threads => /\ dm'.state[t] = "STOPPED" \/ dm'.pending_status[t] = wstat[t]
                              /\ dm.state[t] = "STOPPED" => dm'.state[t] = "STOPPED"
                              /\ wstat[t] # "SIGSTOP" => dm'.pending_status[t] = wstat[t]
      BY <1>2, <2>1, AgreeFacts, StoreFields
    <3> QED BY <1>2, <3>1, StatusFacts DEF IsRunning
  <2>5. t \in dm.threads => ~IsRunning(dm', t)
    BY <2>4 DEF IsRunning
  <2>6. ASSUME NEW u \in dm.threads PROVE IsRunning(dm', u) => IsRunning(dm, u)
    <3>1. u \in Tids
      BY AgreeFacts
    <3> QED BY <2>3, <2>5, <3>1 DEF IsRunning
  <2>7. Quiet(dm) => Quiet(dm')
    BY <2>3, <2>6 DEF Quiet
  <2>8. Hushed(dm, task)'
    BY <1>3, <2>3, <2>7 DEF Agree, Hushed
  <2>9. Ended(dm, cur) <=> Ended(dm, cur)'
    BY <1>0, <2>3 DEF Ended
  <2>10. Reaped(dm, Taken, task, cur)'
    <3>1. Reaped(dm, Taken, task, cur)
      BY <1>0 DEF Agree
    <3>2. ASSUME NEW u \in dm'.threads, task'[u] = "gone"
          PROVE  dm'.pending_status[u] \in Exits \/ Taken[u] \in Exits \/ Ended(dm, cur)
      <4>1. u \in Tids /\ u \in dm.threads
        BY <2>3, AgreeFacts
      <4>2. CASE u # t
        BY <1>3a, <2>3, <3>1, <3>2, <4>1, <4>2 DEF Reaped
      <4>3. CASE u = t
        BY <1>3, <1>3a, <2>4, <3>2, <4>1, <4>3
      <4> QED BY <4>2, <4>3
    <3> QED BY <1>5, <2>9, <3>2 DEF Reaped
  <2>11. Freezing'
    <3>1. Freezing /\ pc' = "freeze" /\ job' = job /\ pc = "freeze"
      BY <1>0, <2>1, AgreeFacts
    <3>2. \A u \in queue' : /\ u \in dm'.threads /\ dm'.state[u] = "RUNNING"
                            /\ dm'.waiting_sigstop[u] /\ dm'.pending_status[u] = None
      <4>1. queue \subseteq Tids
        BY DEF IInv, ServerTyped
      <4> QED BY <2>1, <2>3, <3>1, <4>1 DEF Freezing
    <3>3. job.tid \in dm.threads /\ ~IsRunning(dm, job.tid) => ~IsRunning(dm', job.tid)
      BY <2>6
    <3>4. job.tid \in dm.threads /\ dm.state[job.tid] = "STOPPED" => dm'.state[job.tid] = "STOPPED"
      BY <2>3, <2>4, AgreeFacts
    <3>5. task[job.tid] = "gone" => task'[job.tid] = "gone"
      BY <1>3a, AgreeFacts
    <3> QED BY <2>3, <2>7, <2>9, <3>1, <3>2, <3>3, <3>4, <3>5 DEF Freezing
  <2>12. Birth' /\ Asked' /\ pc' = "freeze"
    BY <1>0, <2>1, <2>3 DEF Birth, Agree, Asked
  <2> QED BY <1>0, <1>2, <1>3, <1>5, <2>1, <2>2, <2>3, <2>8, <2>9, <2>10, <2>11, <2>12 DEF Agree
<1>7. CASE ~(t \in queue /\ wstat[t] = "SIGSTOP") /\ ~StoreAssert(dm, t, wstat[t])
  <2>1. failed' = 30185 /\ pc' = "halt" /\ dm' = dm /\ queue' = queue
    BY <1>7 DEF FreezeStatus
  <2>2. t \in dm.threads /\ dm.pending_status[t] # None /\ ~dm.exited /\ wstat[t] # "EXITED"
    BY <1>7 DEF StoreAssert
  <2>3. Known(dm, Taken[t], task, wstat, sigs, t)
    BY AgreeFacts, FitAt
  <2>4. wstat[t] \in Exits
    BY <1>2, <1>3, <1>4, <2>2, <2>3 DEF Known, Alive
  <2>5. wstat[t] = "SIGNALED"
    BY <2>2, <2>4 DEF Exits
  <2>6. Down(task) /\ Down(task')
    BY <1>3, <2>5, AgreeFacts DEF Kernel
  <2>7. Fit(dm, Taken, task', wstat', sigs, child)
    <3>1. task' \in [Tids -> {"none", "run", "stop", "zombie", "gone"}]
      BY <1>2 DEF Tables
    <3>2. ASSUME NEW u \in dm.threads
          PROVE  /\ task'[u] # "none"
                 /\ dm.pending_status[u] \in Stops /\ ~dm.exited /\ Taken[u] \notin Exits
                      => dm.state[u] # "STOPPED"
                 /\ IsRunning(dm, u) => dm.suspend_count[u] = 0 /\ (dm.exited \/ dm.user_suspend[u] = 0)
                 /\ dm.pending_status[u] \in Exits => task'[u] = "gone"
      <4>1. u \in Tids
        BY AgreeFacts
      <4>2. Entry(dm, Taken[u], task, u)
        BY <4>1, AgreeFacts, FitAt
      <4> QED BY <1>3, <1>3a, <4>1, <4>2 DEF Entry
    <3>3. ASSUME NEW u \in (Deleted(dm) \cup dm.seen_threads) \ dm.threads PROVE task'[u] # "none"
      <4>1. u \in Tids
        BY AgreeFacts, SMTT(20) DEF Good, Typed, Deleted
      <4>2. Unseen(dm, task, wstat, sigs, u)
        BY <4>1, AgreeFacts, FitAt
      <4> QED BY <1>3, <4>1, <4>2 DEF Unseen
    <3>4. dm.seen_threads \cap dm.threads = {} /\ (QwaitStub => \A u \in Tids : dm.pending_status[u] = None)
      BY AgreeFacts DEF Fit
    <3> QED BY <2>6, <3>1, <3>2, <3>3, <3>4, AgreeFacts, DownFit
  <2>8. Hushed(dm, task)'
    BY <2>1, <2>6 DEF Agree, Hushed, Quiet
  <2>9. \A u \in dm.threads : task'[u] = "gone" => ~IsRunning(dm, u)
    <3>1. ~Ended(dm, cur) /\ Reaped(dm, Taken, task, cur)
      BY <1>0, AgreeFacts DEF Freezing, Agree
    <3>2. ASSUME NEW u \in dm.threads, task'[u] = "gone" PROVE ~IsRunning(dm, u)
      <4>1. u \in Tids
        BY AgreeFacts
      <4>2. CASE u = t
        BY <2>2, <4>2 DEF IsRunning
      <4>3. CASE u # t
        <5>1. dm.pending_status[u] \in Exits \/ Taken[u] \in Exits
          BY <1>3a, <3>1, <3>2, <4>1, <4>3 DEF Reaped
        <5>2. Taken[u] \in Exits => job.for = "event" /\ job.tid = u
          BY <1>0, <4>1, StatusFacts DEF Taken
        <5>3. job.for = "event" /\ job.tid = u => dm.state[u] = "STOPPED"
          BY <1>0, AgreeFacts DEF Freezing
        <5> QED BY <5>1, <5>2, <5>3, StatusFacts DEF IsRunning
      <4> QED BY <4>2, <4>3
    <3> QED BY <3>2
  <2>10. Freezing' /\ Birth' /\ Asked'
    BY <2>1 DEF Freezing, Birth, Asked
  <2>11. Ended(dm, cur)' => dm'.exited
    BY <1>0, <2>1 DEF Agree, Ended
  <2>12. \A u \in dm'.threads : task'[u] = "gone" => ~IsRunning(dm', u)
    BY <2>1, <2>9
  <2> QED BY <1>0, <1>2, <1>3, <1>5, <2>1, <2>6, <2>7, <2>8, <2>10, <2>11, <2>12 DEF Agree
<1> QED BY <1>6, <1>7

-----------------------------------------------------------------------------
(* New threads *)

\* What handle_extended_wait does with the status s of the new thread.
Born(m, u, s) ==
    IF s = "SIGSTOP" THEN m
    ELSE StorePendingSignal([m EXCEPT !.waiting_sigstop[u] = TRUE], u, s)

\* A queue with one new event at its front.
LEMMA OneEvent ==
    ASSUME NEW e, NEW q, q = <<e>>
    PROVE  Len(q) = 1 /\ q[1] = e
OBVIOUS

\* What enqueue_event at the front changes.
LEMMA FrontFields ==
    ASSUME NEW m, Good(m), NEW u \in Tids, NEW n, n = EnqueueFront(m, Ev("THREAD_START", u))
    PROVE  /\ Good(n) /\ ~n.may_run
           /\ \A f \in Fields \ {"events", "may_run"} : n[f] = m[f]
           /\ m.events = << >> => \A i \in 1 .. Len(n.events) : n.events[i].eid = "THREAD_START"
<1>1. Ev("THREAD_START", u) \in Event /\ Ev("THREAD_START", u).eid = "THREAD_START"
    BY DEF Ev, SignalEv, Event, EventIds
<1>2. Good(n)
    BY <1>1, EnqueueGood
<1>3. /\ n.events = <<Ev("THREAD_START", u)>> \o m.events /\ ~n.may_run
      /\ \A f \in Fields \ {"events", "may_run"} : n[f] = m[f]
    BY DEF Good, Shaped, Fields, EnqueueFront
<1>4. m.events = << >> => \A i \in 1 .. Len(n.events) : n.events[i].eid = "THREAD_START"
  <2> SUFFICES ASSUME m.events = << >>
               PROVE  \A i \in 1 .. Len(n.events) : n.events[i].eid = "THREAD_START"
    OBVIOUS
  <2> DEFINE e == Ev("THREAD_START", u)
  <2>1. e.eid = "THREAD_START" /\ n.events = <<e>> \o m.events
    BY <1>1, <1>3
  <2> HIDE DEF e
  <2>2. n.events = <<e>>
    BY <2>1
  <2>3. n.events[1] = e /\ Len(n.events) = 1
    BY <2>2, OneEvent
  <2> QED BY <2>1, <2>3
<1> QED BY <1>2, <1>3, <1>4

\* What changes when the new thread has stopped.
LEMMA BornFields ==
    ASSUME NEW m, Good(m), NEW u \in Tids, u \in m.threads, NEW s \in Status,
           ~m.waiting_sigstop[u], m.pending_status[u] = None, NEW n, n = Born(m, u, s)
    PROVE  /\ Good(n)
           /\ n.threads = m.threads /\ n.suspend_count = m.suspend_count
           /\ n.user_suspend = m.user_suspend /\ n.deleted_threads = m.deleted_threads
           /\ n.seen_threads = m.seen_threads /\ n.exited = m.exited /\ n.events = m.events
           /\ n.in_event = m.in_event /\ n.state = m.state
           /\ \A t \in Tids :
                /\ n.pending_status[t] = IF t = u /\ s # "SIGSTOP" THEN s ELSE m.pending_status[t]
                /\ t # u => n.waiting_sigstop[t] = m.waiting_sigstop[t]
           /\ s = "SIGSTOP" => ~n.waiting_sigstop[u]
<1>1. CASE s = "SIGSTOP"
    BY <1>1 DEF Born
<1>2. CASE s # "SIGSTOP"
  <2> DEFINE k == [m EXCEPT !.waiting_sigstop[u] = TRUE]
  <2>1. Good(k)
    BY FieldsGood
  <2>2. /\ k.waiting_sigstop = [m.waiting_sigstop EXCEPT ![u] = TRUE]
        /\ \A f \in Fields \ {"waiting_sigstop"} : k[f] = m[f]
    BY DEF Good, Shaped, Fields
  <2>3. n = StorePendingSignal(k, u, s)
    BY <1>2 DEF Born
  <2> HIDE DEF k
  <2>4. k.threads = m.threads /\ k.state = m.state /\ k.pending_status = m.pending_status
        /\ k.suspend_count = m.suspend_count /\ k.user_suspend = m.user_suspend
        /\ k.deleted_threads = m.deleted_threads /\ k.seen_threads = m.seen_threads
        /\ k.exited = m.exited /\ k.events = m.events /\ k.in_event = m.in_event
    BY <2>2 DEF Fields
  <2>5. \A t \in Tids : t # u => k.waiting_sigstop[t] = m.waiting_sigstop[t]
    BY <2>2 DEF Good, Typed
  <2>6. Good(n)
    BY <2>1, <2>3, StorePendingSignalGood
  <2>7. /\ n.threads = k.threads /\ n.suspend_count = k.suspend_count
        /\ n.user_suspend = k.user_suspend /\ n.deleted_threads = k.deleted_threads
        /\ n.exited = k.exited /\ n.events = k.events
        /\ n.in_event = k.in_event
        /\ u \in k.threads => n.seen_threads = k.seen_threads
        /\ \A t \in Tids : t # u =>
                /\ n.state[t] = k.state[t] /\ n.waiting_sigstop[t] = k.waiting_sigstop[t]
                /\ n.pending_status[t] = k.pending_status[t]
        /\ u \in k.threads => n.state[u] = k.state[u] /\ n.pending_status[u] = s
    BY <1>2, <2>1, <2>3, StoreFields
  <2>8. n.state = m.state
    <3>1. \A t \in Tids : n.state[t] = m.state[t]
      BY <2>4, <2>7
    <3>2. n.state \in [Tids -> {"RUNNING", "STOPPED", "DEAD"}] /\ m.state \in [Tids -> {"RUNNING", "STOPPED", "DEAD"}]
      BY <2>6 DEF Good, Typed
    <3> QED BY <3>1, <3>2
  <2> QED BY <1>2, <2>4, <2>5, <2>6, <2>7, <2>8
<1> QED BY <1>1, <1>2

\* The status of the new thread u was collected, and its parent p is marked as stopped.
LEMMA BornFit ==
    ASSUME NEW m, Good(m), NEW X, NEW ta, NEW st, NEW sg, NEW ch, Tables(ta, st, sg, ch),
           Fit(m, X, ta, st, sg, ch), Kernel(ta, st, sg, ch), ~QwaitStub,
           NEW p \in Tids, NEW u \in Tids, u # p, p \in m.threads, u \in m.threads,
           \A t \in Tids : X[t] = IF t = p THEN "CLONE" ELSE IF t = u THEN "EXITED" ELSE None,
           m.pending_status[p] = None, m.state[u] = "STOPPED", m.pending_status[u] = None,
           Alive(ta, p) <=> Alive(ta, u),
           Alive(ta, p) => ta[p] = "stop" /\ st[p] = None,
           Alive(ta, u) => \/ ta[u] = "run" /\ sg[u] = {"SIGSTOP"}
                           \/ ta[u] = "stop" /\ sg[u] = {} /\ st[u] = "SIGSTOP",
           st[u] # None,
           u = Main /\ st[u] \in Exits => \A t \in Tids \ {Main} : ta[t] \in {"none", "gone"},
           NEW n, n.threads = m.threads, n.suspend_count = m.suspend_count,
           n.user_suspend = m.user_suspend, n.deleted_threads = m.deleted_threads,
           n.seen_threads = m.seen_threads, n.exited = m.exited,
           \A t \in Tids :
              /\ n.state[t] = IF t = p THEN "STOPPED" ELSE m.state[t]
              /\ n.pending_status[t] = IF t = u /\ st[u] # "SIGSTOP" THEN st[u] ELSE m.pending_status[t]
              /\ t # u => n.waiting_sigstop[t] = m.waiting_sigstop[t],
           st[u] = "SIGSTOP" => ~n.waiting_sigstop[u],
           NEW X2, \A t \in Tids : X2[t] = IF t = p THEN "CLONE" ELSE None,
           NEW ta2, NEW st2, Collects(u, ta, st, ta2, st2), Tables(ta2, st2, sg, ch)
    PROVE  Fit(n, X2, ta2, st2, sg, ch)
<1>1. /\ \A t \in Tids : Alive(ta2, t) <=> Alive(ta, t)
      /\ \A t \in Tids : ta2[t] = "none" <=> ta[t] = "none"
      /\ Down(ta2) <=> Down(ta)
      /\ ta[u] = IF st[u] \in Exits THEN "zombie" ELSE "stop"
    BY CollectKernel
<1>2. \A t \in Tids : /\ ta2[t] = IF t = u /\ st[u] \in Exits THEN "gone" ELSE ta[t]
                      /\ st2[t] = IF t = u THEN None ELSE st[t]
    BY DEF Collects
<1>3. Entry(m, "EXITED", ta, u) /\ Entry(m, "CLONE", ta, p)
    BY FitAt
<1>4. CASE Alive(ta, u)
  <2>1. ta[u] = "stop" /\ st[u] = "SIGSTOP" /\ sg[u] = {}
    BY <1>4 DEF Kernel
  <2>2. \A t \in Tids : n.pending_status[t] = m.pending_status[t] /\ ta2[t] = ta[t]
    BY <1>2, <2>1, StatusFacts
  <2>3. ASSUME NEW t \in Tids PROVE Known(n, X2[t], ta2, st2, sg, t)
    <3>1. Known(m, X[t], ta, st, sg, t)
      BY FitAt
    <3>2. CASE t = u
      <4>1. n.state[u] = "STOPPED" /\ n.pending_status[u] = None /\ ~n.waiting_sigstop[u]
            /\ ta2[u] = "stop" /\ st2[u] = None
        BY <1>2, <2>1, <2>2
      <4> QED BY <3>2, <4>1 DEF Known
    <3>3. CASE t = p
      <4>1. n.state[p] = "STOPPED" /\ n.pending_status[p] = None /\ st2[p] = st[p]
            /\ n.waiting_sigstop[p] = m.waiting_sigstop[p] /\ X[p] = "CLONE" /\ X2[p] = "CLONE"
        BY <1>2, <2>2
      <4>2. ta2[p] = "stop" /\ st2[p] = None /\ Alive(ta, p)
        BY <1>4, <2>2, <4>1
      <4> QED BY <3>1, <3>3, <4>1, <4>2, StatusFacts DEF Known
    <3>4. CASE t # u /\ t # p
      BY <1>1, <1>2, <2>2, <3>1, <3>4 DEF Known
    <3> QED BY <3>2, <3>3, <3>4
  <2>4. ASSUME NEW t \in Tids PROVE Entry(n, X2[t], ta2, t)
    <3>1. Entry(m, X[t], ta, t)
      BY FitAt
    <3>2. CASE t = u
      BY <1>1, <2>1, <2>2, <3>1, <3>2, StatusFacts DEF Entry, IsRunning
    <3>3. CASE t = p
      <4>1. ta[p] = "stop"
        BY <1>4
      <4> QED BY <2>2, <3>1, <3>3, <4>1, StatusFacts DEF Entry, IsRunning
    <3>4. CASE t # u /\ t # p
      BY <1>1, <2>2, <3>1, <3>4 DEF Entry, IsRunning
    <3> QED BY <3>2, <3>3, <3>4
  <2>5. ASSUME NEW t \in Tids PROVE Unseen(n, ta2, st2, sg, t)
    <3>1. Unseen(m, ta, st, sg, t) /\ Deleted(n) = Deleted(m)
      BY FitAt DEF Deleted
    <3>2. t \notin m.threads => t # u
      OBVIOUS
    <3> QED BY <1>1, <1>2, <2>2, <3>1, <3>2 DEF Unseen
  <2>6. \A t \in Tids : OpenClone(n, ta2, st2, t) <=> OpenClone(m, ta, st, t)
    BY <1>1, <1>2, <2>1, <2>2, StatusFacts DEF OpenClone
  <2>7. Clones(n, ta2, st2, ch)
    <3>1. Clones(m, ta, st, ch)
      BY DEF Fit
    <3>2. \A t \in Tids : ch[t] \in Tids
      BY DEF Tables
    <3> QED BY <1>1, <2>6, <3>1, <3>2 DEF Clones
  <2> QED BY <1>1, <2>3, <2>4, <2>5, <2>7 DEF Fit
<1>5. CASE ~Alive(ta, u)
  <2>1. ta[u] = "zombie" /\ st[u] \in Exits
    BY <1>1, <1>5 DEF Alive
  <2>2. Down(ta2)
    BY <1>1, <1>3, <2>1 DEF Entry
  <2>3. ASSUME NEW t \in n.threads
        PROVE  /\ ta2[t] # "none"
               /\ n.pending_status[t] \in Stops /\ ~n.exited /\ X2[t] \notin Exits => n.state[t] # "STOPPED"
               /\ IsRunning(n, t) => n.suspend_count[t] = 0 /\ (n.exited \/ n.user_suspend[t] = 0)
               /\ n.pending_status[t] \in Exits => ta2[t] = "gone"
    <3>1. t \in Tids
      BY DEF Good, Typed
    <3>2. Entry(m, X[t], ta, t)
      BY <3>1, FitAt
    <3>3. CASE t = u
      BY <1>1, <1>2, <2>1, <3>2, <3>3, StatusFacts DEF Entry, IsRunning
    <3>4. CASE t = p
      BY <1>1, <3>2, <3>4, StatusFacts DEF Entry, IsRunning
    <3>5. CASE t # u /\ t # p
      BY <1>1, <1>2, <3>1, <3>2, <3>5 DEF Entry, IsRunning
    <3> QED BY <3>3, <3>4, <3>5
  <2>4. ASSUME NEW t \in (Deleted(n) \cup n.seen_threads) \ n.threads PROVE ta2[t] # "none"
    <3>1. t \in Tids /\ Deleted(n) = Deleted(m)
      BY DEF Good, Typed, Deleted
    <3>2. Unseen(m, ta, st, sg, t)
      BY <3>1, FitAt
    <3> QED BY <1>1, <3>1, <3>2 DEF Unseen
  <2>5. n.seen_threads \cap n.threads = {}
    BY DEF Fit
  <2>6. ta2 \in [Tids -> {"none", "run", "stop", "zombie", "gone"}]
    BY DEF Tables
  <2>7. ASSUME NEW t \in Tids
        PROVE Known(n, X2[t], ta2, st2, sg, t) /\ Entry(n, X2[t], ta2, t) /\ Unseen(n, ta2, st2, sg, t)
    <3>1. ~Alive(ta2, t)
      BY <2>2 DEF Down
    <3>2. Known(n, X2[t], ta2, st2, sg, t)
      BY <3>1 DEF Known
    <3>3. Entry(n, X2[t], ta2, t)
      BY <2>2, <2>3 DEF Entry
    <3>4. t \in Deleted(n) \cup n.seen_threads /\ t \notin n.threads => ta2[t] \in {"zombie", "gone"}
      BY <2>4, <2>6, <3>1 DEF Alive
    <3> QED BY <3>1, <3>2, <3>3, <3>4 DEF Unseen
  <2>8. Clones(n, ta2, st2, ch)
    BY <2>2 DEF Down, Clones, OpenClone
  <2> QED BY <2>2, <2>5, <2>7, <2>8 DEF Fit
<1> QED BY <1>4, <1>5

\* handle_extended_wait gets the first stop of the new thread; INTERR 1200 never fires.
LEMMA NewbornAgree ==
    ASSUME IInv, Agree, NewbornStopped
    PROVE  Agree'
<1> DEFINE p == job.tid
           u == child[p]
           s == wstat[u]
           k == Born(dm, u, s)
           l == EnqueueFront(k, Ev("THREAD_START", u))
           n == MarkStopped(l, p)
<1>0. u = child[p] /\ p = job.tid /\ s = wstat[u]
    OBVIOUS
<1>1. /\ pc = "newborn" /\ Reportable(u) /\ BeginEvent(l, p, "CLONE", TRUE)
      /\ Collect(u, FALSE) /\ SendSigstop(queue')
  <2>1. pc = "newborn" /\ job.status = "CLONE"
    BY AgreeFacts DEF NewbornStopped, Birth
  <2>2. l = EnqueueFront(IF s = "SIGSTOP" THEN dm
                         ELSE StorePendingSignal([dm EXCEPT !.waiting_sigstop[u] = TRUE], u, s),
                         Ev("THREAD_START", u))
    BY DEF Born
  <2> QED BY <2>1, <2>2 DEF NewbornStopped
<1>2. k = Born(dm, u, s) /\ l = EnqueueFront(k, Ev("THREAD_START", u)) /\ n = MarkStopped(l, p)
    OBVIOUS
<1> HIDE DEF k, l, n
<1>3. /\ u # p /\ p \in dm.threads /\ u \in dm.threads /\ p \in Tids /\ u \in Tids
      /\ dm.state[p] # "STOPPED" /\ dm.pending_status[p] = None
      /\ dm.state[u] = "STOPPED" /\ dm.pending_status[u] = None /\ ~dm.waiting_sigstop[u]
      /\ Alive(task, p) <=> Alive(task, u)
      /\ Alive(task, p) => task[p] = "stop" /\ wstat[p] = None
      /\ Alive(task, u) => \/ task[u] = "run" /\ sigs[u] = {"SIGSTOP"}
                           \/ task[u] = "stop" /\ sigs[u] = {} /\ wstat[u] = "SIGSTOP"
      /\ task[u] # "gone" /\ ~Ended(dm, cur) /\ dm.events = << >>
    BY <1>1, AgreeFacts DEF Birth
<1> HIDE DEF p, u, s
<1>4. /\ Collects(u, task, wstat, task', wstat') /\ child' = child
      /\ ~QwaitStub /\ wstat[u] # None /\ wstat[u] \in Status
      /\ u = Main /\ wstat[u] \in Exits => \A t \in Tids \ {Main} : task[t] \in {"none", "gone"}
      /\ Tables(task', wstat', sigs, child)
    BY <1>1, <1>3, CollectStep
<1>5. /\ Kernel(task', wstat', sigs, child)
      /\ \A t \in Tids : Alive(task', t) <=> Alive(task, t)
    BY <1>3, <1>4, AgreeFacts, CollectKernel
<1>6. /\ Good(k)
      /\ k.threads = dm.threads /\ k.suspend_count = dm.suspend_count
      /\ k.user_suspend = dm.user_suspend /\ k.deleted_threads = dm.deleted_threads
      /\ k.seen_threads = dm.seen_threads /\ k.exited = dm.exited /\ k.events = dm.events
      /\ k.in_event = dm.in_event /\ k.state = dm.state
      /\ \A t \in Tids :
           /\ k.pending_status[t] = IF t = u /\ s # "SIGSTOP" THEN s ELSE dm.pending_status[t]
           /\ t # u => k.waiting_sigstop[t] = dm.waiting_sigstop[t]
      /\ s = "SIGSTOP" => ~k.waiting_sigstop[u]
    BY <1>0, <1>2, <1>3, <1>4, AgreeFacts, BornFields
<1>7. /\ Good(l) /\ ~l.may_run
      /\ \A f \in Fields \ {"events", "may_run"} : l[f] = k[f]
      /\ k.events = << >> => \A i \in 1 .. Len(l.events) : l.events[i].eid = "THREAD_START"
    BY <1>2, <1>3, <1>6, FrontFields
<1>8. /\ l.threads = k.threads /\ l.suspend_count = k.suspend_count
      /\ l.user_suspend = k.user_suspend /\ l.deleted_threads = k.deleted_threads
      /\ l.seen_threads = k.seen_threads /\ l.exited = k.exited
      /\ l.in_event = k.in_event /\ l.state = k.state
      /\ l.pending_status = k.pending_status /\ l.waiting_sigstop = k.waiting_sigstop
    BY <1>7 DEF Fields
<1>9. /\ Good(n)
      /\ n.threads = l.threads /\ n.events = l.events /\ n.may_run = l.may_run
      /\ n.in_event = l.in_event /\ n.exited = l.exited
      /\ n.pending_status = l.pending_status /\ n.waiting_sigstop = l.waiting_sigstop
      /\ n.suspend_count = l.suspend_count /\ n.user_suspend = l.user_suspend
      /\ n.deleted_threads = l.deleted_threads /\ n.seen_threads = l.seen_threads
      /\ \A t \in Tids : n.state[t] = IF t = p THEN "STOPPED" ELSE l.state[t]
    BY <1>2, <1>3, <1>7, StoppedFields, SMTT(20)
<1>10. /\ n.threads = dm.threads /\ n.suspend_count = dm.suspend_count
       /\ n.user_suspend = dm.user_suspend /\ n.deleted_threads = dm.deleted_threads
       /\ n.seen_threads = dm.seen_threads /\ n.exited = dm.exited /\ n.in_event = dm.in_event
       /\ \A t \in Tids :
              /\ n.state[t] = IF t = p THEN "STOPPED" ELSE dm.state[t]
              /\ n.pending_status[t] = IF t = u /\ s # "SIGSTOP" THEN s ELSE dm.pending_status[t]
              /\ t # u => n.waiting_sigstop[t] = dm.waiting_sigstop[t]
       /\ s = "SIGSTOP" => ~n.waiting_sigstop[u]
       /\ ~n.may_run
       /\ \A i \in 1 .. Len(n.events) : n.events[i].eid = "THREAD_START"
    BY <1>3, <1>6, <1>7, <1>8, <1>9
<1>11. /\ dm' = Freeze(n, Tids) /\ queue' = FreezeSet(n, Tids)
       /\ job' = EventJob(p, "CLONE", TRUE) /\ pc' = "freeze" /\ cur' = cur /\ failed' = failed
  <2>1. l.state[p] # "STOPPED"
    BY <1>3, <1>6, <1>8
  <2> QED BY <1>1, <1>2, <2>1, BeginUnfold
<1>12. \A t \in Tids : Taken[t] = IF t = p THEN "CLONE" ELSE IF t = u THEN "EXITED" ELSE None
    BY <1>0, <1>1, <1>3 DEF Taken
<1>13. (\A t \in Tids : Taken'[t] = IF t = p THEN "CLONE" ELSE None)
           => Fit(n, Taken', task', wstat', sigs, child)
  <2> SUFFICES ASSUME \A t \in Tids : Taken'[t] = IF t = p THEN "CLONE" ELSE None
               PROVE  Fit(n, Taken', task', wstat', sigs, child)
    OBVIOUS
  <2>1. /\ Good(dm) /\ Tables(task, wstat, sigs, child)
        /\ Fit(dm, Taken, task, wstat, sigs, child) /\ Kernel(task, wstat, sigs, child)
    BY AgreeFacts
  <2>2. /\ n.threads = dm.threads /\ n.suspend_count = dm.suspend_count
        /\ n.user_suspend = dm.user_suspend /\ n.deleted_threads = dm.deleted_threads
        /\ n.seen_threads = dm.seen_threads /\ n.exited = dm.exited
        /\ \A t \in Tids :
              /\ n.state[t] = IF t = p THEN "STOPPED" ELSE dm.state[t]
              /\ n.pending_status[t] = IF t = u /\ wstat[u] # "SIGSTOP" THEN wstat[u] ELSE dm.pending_status[t]
              /\ t # u => n.waiting_sigstop[t] = dm.waiting_sigstop[t]
        /\ wstat[u] = "SIGSTOP" => ~n.waiting_sigstop[u]
    BY <1>0, <1>10
  <2>3. /\ u # p /\ p \in dm.threads /\ u \in dm.threads /\ p \in Tids /\ u \in Tids
        /\ dm.pending_status[p] = None
        /\ dm.state[u] = "STOPPED" /\ dm.pending_status[u] = None
        /\ Alive(task, p) <=> Alive(task, u)
        /\ Alive(task, p) => task[p] = "stop" /\ wstat[p] = None
        /\ Alive(task, u) => \/ task[u] = "run" /\ sigs[u] = {"SIGSTOP"}
                             \/ task[u] = "stop" /\ sigs[u] = {} /\ wstat[u] = "SIGSTOP"
    BY <1>3
  <2>4. /\ Collects(u, task, wstat, task', wstat')
        /\ ~QwaitStub /\ wstat[u] # None
        /\ u = Main /\ wstat[u] \in Exits => \A t \in Tids \ {Main} : task[t] \in {"none", "gone"}
        /\ Tables(task', wstat', sigs, child)
    BY <1>4
  <2> QED BY <1>12, <2>1, <2>2, <2>3, <2>4, BornFit
<1>14. n.may_run /\ ~n.exited => n.events = << >> /\ ~n.in_event
    BY <1>10
<1>15. ~Ended(n, cur)
    BY <1>3, <1>10 DEF Ended
<1>16. \A t \in n.threads : task'[t] = "gone" => n.pending_status[t] \in Exits \/ (t = p /\ "CLONE" \in Exits)
  <2>1. Reaped(dm, Taken, task, cur)
    BY <1>1 DEF Agree
  <2>2. ASSUME NEW t \in n.threads, task'[t] = "gone" PROVE n.pending_status[t] \in Exits
    <3>1. t \in Tids /\ t \in dm.threads
      BY <1>10, AgreeFacts
    <3>2. CASE t = u
      <4>1. s \in Exits
        BY <1>0, <1>3, <1>4, <2>2, <3>2 DEF Collects
      <4> QED BY <1>3, <1>10, <3>2, <4>1, StatusFacts DEF Exits
    <3>3. CASE t # u
      <4>1. task[t] = "gone" /\ Taken[t] \notin Exits
        BY <1>4, <1>12, <2>2, <3>1, <3>3, StatusFacts DEF Collects
      <4> QED BY <1>3, <1>10, <2>1, <3>1, <3>3, <4>1 DEF Reaped
    <3> QED BY <3>2, <3>3
  <2> QED BY <2>2
<1>17. ~n.in_event \/ n.exited
    BY <1>1, <1>10 DEF Agree, Asked
<1>18. p \in n.threads /\ n.state[p] = "STOPPED" /\ "CLONE" # None /\ "CLONE" \notin Exits
    BY <1>3, <1>10, StatusFacts
<1> QED BY <1>1, <1>3, <1>4, <1>5, <1>9, <1>11, <1>13, <1>14, <1>15, <1>16, <1>17, <1>18, BeginAgree

\* dbg_get_debug_event, wherever it gets its event from.
LEMMA PollAgree ==
    ASSUME IInv, Agree, Poll
    PROVE  Agree'
<1>1. ASSUME NewbornStatus PROVE Agree'
  <2>1. pc = "newborn" => task[child[job.tid]] # "gone"
    BY AgreeFacts DEF Birth
  <2> QED BY <1>1, <2>1, NewbornAgree DEF NewbornStatus
<1>2. ASSUME NEW t \in Tids, PollStatus(t) PROVE Agree'
    BY <1>2, PollKnownAgree, PollUnknownAgree, PollCloneAgree
<1> QED BY <1>1, <1>2, DeliverAgree, PollPendingAgree, AskAgree DEF Poll

\* A step of the waiting loop of dbg_freeze_threads.
LEMMA WaitAgree ==
    ASSUME IInv, Agree, Wait
    PROVE  Agree'
<1>1. ASSUME FreezePoll PROVE Agree'
  <2>1. UNCHANGED <<dm, cur, pc, job, queue, failed>> /\ task' = task /\ wstat' = wstat
        /\ sigs' = sigs /\ child' = child
    BY <1>1 DEF FreezePoll, vars, kernel
  <2>2. Taken' = Taken
    BY <2>1 DEF Taken
  <2> QED BY <2>1, <2>2 DEF Agree, Hushed, Quiet, Reaped, Ended, Freezing, Birth, Asked
<1> QED BY <1>1, FreezeStatusAgree DEF Wait

-----------------------------------------------------------------------------
(* The end of a request *)

\* A request, or a call of get_debug_event, is over.
LEMMA DoneAgree ==
    ASSUME IInv, Agree, pc' \in {"poll", "idle"}, queue' = {}, failed' = failed, cur' = cur,
           Kernel(task, wstat, sigs, child)',
           (\A t \in Tids : Taken'[t] = None) => Fit(dm', Taken', task', wstat', sigs', child'),
           Hushed(dm, task)', Ended(dm, cur)' => dm'.exited,
           \A t \in dm'.threads : task'[t] = "gone" => dm'.pending_status[t] \in Exits \/ Ended(dm', cur'),
           pc' = "poll" => cur.eid # "PROCESS_EXIT" /\ (~dm'.in_event \/ dm'.exited)
    PROVE  Agree'
<1>1. \A t \in Tids : Taken'[t] = None
    BY DEF Taken
<1>2. Fit(dm, Taken, task, wstat, sigs, child)'
    BY <1>1
<1>3. Reaped(dm, Taken, task, cur)'
    BY DEF Reaped
<1>4. Freezing' /\ Birth' /\ Asked'
    BY DEF Freezing, Birth, Asked
<1>5. failed' \in {0, 30185}
    BY DEF Agree
<1> QED BY <1>2, <1>3, <1>4, <1>5 DEF Agree

\* What was taken from a stopped thread is dealt with, and a SIGSTOP that came
\* is no longer awaited.
LEMMA HandleFit ==
    ASSUME NEW m, Good(m), NEW X, NEW ta, NEW st, NEW sg, NEW ch, Fit(m, X, ta, st, sg, ch),
           NEW t \in Tids, t \in m.threads, m.state[t] = "STOPPED", X[t] \notin Exits,
           NEW n, \A f \in FitFields \ {"waiting_sigstop"} : n[f] = m[f],
           \A u \in Tids : u # t => n.waiting_sigstop[u] = m.waiting_sigstop[u],
           ~n.waiting_sigstop[t] \/ (n.waiting_sigstop[t] = m.waiting_sigstop[t] /\ X[t] # "SIGSTOP"),
           NEW X2, \A u \in Tids : X2[u] = IF u = t THEN None ELSE X[u]
    PROVE  Fit(n, X2, ta, st, sg, ch)
<1>1. /\ n.threads = m.threads /\ n.state = m.state /\ n.suspend_count = m.suspend_count
      /\ n.user_suspend = m.user_suspend
      /\ n.pending_status = m.pending_status /\ n.deleted_threads = m.deleted_threads
      /\ n.seen_threads = m.seen_threads /\ n.exited = m.exited
    BY DEF FitFields
<1>2. ASSUME NEW u \in Tids PROVE Known(n, X2[u], ta, st, sg, u)
  <2>1. Known(m, X[u], ta, st, sg, u)
    BY FitAt
  <2>2. CASE u = t
    BY <1>1, <2>1, <2>2 DEF Known
  <2> QED BY <1>1, <2>1, <2>2 DEF Known
<1>3. ASSUME NEW u \in Tids PROVE Entry(n, X2[u], ta, u) /\ Unseen(n, ta, st, sg, u)
  <2>1. Entry(m, X[u], ta, u) /\ Unseen(m, ta, st, sg, u)
    BY FitAt
  <2>2. IsRunning(n, u) <=> IsRunning(m, u)
    BY <1>1 DEF IsRunning
  <2>3. Entry(n, X2[u], ta, u)
    BY <1>1, <2>1, <2>2 DEF Entry
  <2> QED BY <1>1, <2>1, <2>3 DEF Unseen, Deleted
<1>4. Clones(n, ta, st, ch)
    BY <1>1 DEF Fit, Clones, OpenClone
<1> QED BY <1>1, <1>2, <1>3, <1>4 DEF Fit

\* A thaw while events wait restarts nothing.
LEMMA ThawHushed ==
    ASSUME NEW m, Good(m), NEW S \in SUBSET Tids, NEW n, n = Thaw(m, S), Hushed(m, task),
           NEW X, NEW st, NEW sg, NEW ch, Fit(m, X, task, st, sg, ch),
           NEW ta, \A t \in Tids : ta[t] = IF t \in Restarted(m, S) THEN "run" ELSE task[t]
    PROVE  Hushed(n, ta)
<1>1. \A t \in Restarted(m, S) : t \in Tids /\ task[t] = "stop"
    BY DEF Restarted, Restartable
<1>2. Down(task) => Down(ta)
    BY <1>1 DEF Down, Alive
<1>3. /\ n.in_event = m.in_event /\ n.threads = m.threads /\ n.exited = m.exited
      /\ n.waiting_sigstop = m.waiting_sigstop /\ n.pending_status = m.pending_status
      /\ FirstZombies(m, S) = {} => n.events = m.events /\ n.may_run = m.may_run
      /\ FirstZombies(m, S) # {} => ~n.may_run
      /\ \A t \in Tids : n.state[t] = IF t \in Restarted(m, S) THEN "RUNNING"
                                      ELSE IF t \in FirstZombies(m, S) THEN "DEAD" ELSE m.state[t]
    BY ThawFields DEF FitFields
<1>4. FirstZombies(m, S) # {} => Down(ta)
  <2> SUFFICES ASSUME NEW z \in FirstZombies(m, S) PROVE Down(ta)
    OBVIOUS
  <2>1. z \in Tids /\ z \in m.threads /\ task[z] = "zombie" /\ m.state[z] = "STOPPED"
    BY DEF FirstZombies, Zombies, Restartable
  <2>2. Entry(m, X[z], task, z)
    BY <2>1, FitAt
  <2> QED BY <1>2, <2>1, <2>2 DEF Entry
<1>5. CASE m.in_event \/ m.events # << >>
  <2>1. Restartable(m, S) = {}
    BY <1>5 DEF Restartable, Hushed
  <2>2. Restarted(m, S) = {} /\ FirstZombies(m, S) = {}
    BY <2>1 DEF Restarted, FirstZombies, Zombies
  <2>3. \A t \in m.threads : IsRunning(n, t) => IsRunning(m, t)
    BY <1>3, <2>2 DEF IsRunning, Good, Typed
  <2> QED BY <1>2, <1>3, <1>5, <2>2, <2>3 DEF Hushed, Quiet
<1>6. CASE ~(m.in_event \/ m.events # << >>)
    BY <1>3, <1>4, <1>6 DEF Hushed
<1> QED BY <1>5, <1>6

\* PROCESS_EXIT in a longer queue.
LEMMA AppendEnded ==
    ASSUME NEW q \in Seq(Event), NEW e \in Event, NEW r, r = Append(q, e)
    PROVE  (\E i \in 1 .. Len(r) : r[i].eid = "PROCESS_EXIT")
             <=> e.eid = "PROCESS_EXIT" \/ \E i \in 1 .. Len(q) : q[i].eid = "PROCESS_EXIT"
<1>1. /\ Len(r) = Len(q) + 1 /\ Len(q) \in Nat /\ r[Len(q) + 1] = e
      /\ \A i \in 1 .. Len(q) : r[i] = q[i]
    OBVIOUS
<1>2. ASSUME NEW i \in 1 .. Len(r), r[i].eid = "PROCESS_EXIT"
      PROVE  e.eid = "PROCESS_EXIT" \/ \E j \in 1 .. Len(q) : q[j].eid = "PROCESS_EXIT"
  <2>1. i = Len(q) + 1 \/ i \in 1 .. Len(q)
    BY <1>1
  <2> QED BY <1>1, <1>2, <2>1
<1>3. ASSUME NEW i \in 1 .. Len(q), q[i].eid = "PROCESS_EXIT"
      PROVE  \E j \in 1 .. Len(r) : r[j].eid = "PROCESS_EXIT"
  <2>1. i \in 1 .. Len(r) /\ r[i] = q[i]
    BY <1>1
  <2> QED BY <1>3, <2>1
<1>4. Len(r) \in 1 .. Len(r) /\ r[Len(r)] = e
    BY <1>1
<1> QED BY <1>2, <1>3, <1>4

\* dbg_thaw_threads at the end of a request or of a call of get_debug_event.
LEMMA ThawAgree ==
    ASSUME IInv, Agree, NEW m, Good(m), NEW S \in SUBSET Tids, DoThaw(m, S, "idle"), queue = {},
           NEW X, \A t \in Tids : X[t] = None, Fit(m, X, task, wstat, sigs, child),
           Hushed(m, task), Ended(m, cur) => m.exited,
           \A t \in m.threads : task[t] = "gone" => m.pending_status[t] \in Exits \/ Ended(m, cur)
    PROVE  Agree'
<1>1. ThawAssert(m, S)
  <2> SUFFICES ASSUME NEW t \in m.threads \cap S, IsRunning(m, t) PROVE m.suspend_count[t] = 0
    BY DEF ThawAssert
  <2>1. t \in Tids
    OBVIOUS
  <2>2. Entry(m, X[t], task, t)
    BY <2>1, FitAt
  <2> QED BY <2>2 DEF Entry
<1>2. /\ dm' = Thaw(m, S) /\ Restart(Restarted(m, S)) /\ pc' = "idle"
      /\ UNCHANGED <<cur, queue, failed>>
    BY <1>1 DEF DoThaw
<1>3. /\ \A t \in Tids : /\ task'[t] = IF t \in Restarted(m, S) THEN "run" ELSE task[t]
                         /\ wstat'[t] = IF t \in Restarted(m, S) THEN None ELSE wstat[t]
      /\ sigs' = sigs /\ child' = child
    BY <1>2 DEF Restart
<1>4. \A Y : (\A t \in Tids : Y[t] = None) =>
              Fit(dm', Y, task', wstat', sigs, child) /\ Kernel(task', wstat', sigs, child)
  <2> SUFFICES ASSUME NEW Y, \A t \in Tids : Y[t] = None
               PROVE  Fit(dm', Y, task', wstat', sigs, child) /\ Kernel(task', wstat', sigs, child)
    OBVIOUS
  <2>1. Fit(m, Y, task, wstat, sigs, child)
    BY DEF Fit
  <2> QED BY <1>2, <1>3, <2>1, AgreeFacts, ThawFit
<1>4a. Kernel(task', wstat', sigs, child)
  <2> DEFINE Y == [t \in Tids |-> None]
  <2>1. \A t \in Tids : Y[t] = None
    OBVIOUS
  <2> QED BY <1>4, <2>1
<1>5. Hushed(dm', task')
    BY <1>2, <1>3, ThawHushed
<1>6. /\ dm'.threads = m.threads /\ dm'.exited = m.exited /\ dm'.pending_status = m.pending_status
      /\ FirstZombies(m, S) = {} => dm'.events = m.events
      /\ FirstZombies(m, S) # {} => \E z \in FirstZombies(m, S) : dm'.events = Append(m.events, Ev("THREAD_EXIT", z))
    BY <1>2, ThawFields DEF FitFields
<1>7. Ended(dm', cur') <=> Ended(m, cur)
  <2>1. CASE FirstZombies(m, S) = {}
    BY <1>2, <1>6, <2>1 DEF Ended
  <2>2. CASE FirstZombies(m, S) # {}
    <3>1. PICK z \in FirstZombies(m, S) : dm'.events = Append(m.events, Ev("THREAD_EXIT", z))
      BY <1>6, <2>2
    <3>2. z \in Tids
      BY DEF FirstZombies, Zombies, Restartable
    <3>3. Ev("THREAD_EXIT", z) \in Event /\ Ev("THREAD_EXIT", z).eid # "PROCESS_EXIT"
      BY <3>2 DEF Ev, SignalEv, Event, EventIds
    <3>4. m.events \in Seq(Event)
      BY DEF Good, Typed
    <3>5. (\E i \in 1 .. Len(dm'.events) : dm'.events[i].eid = "PROCESS_EXIT")
             <=> \E i \in 1 .. Len(m.events) : m.events[i].eid = "PROCESS_EXIT"
      BY <3>1, <3>3, <3>4, AppendEnded, SMTT(20)
    <3> QED BY <1>2, <3>5 DEF Ended
  <2> QED BY <2>1, <2>2
<1>8. \A t \in dm'.threads : task'[t] = "gone" => dm'.pending_status[t] \in Exits \/ Ended(dm', cur')
  <2>1. \A t \in m.threads : t \in Tids
    BY DEF Good, Typed
  <2> QED BY <1>3, <1>6, <1>7, <2>1
<1> QED BY <1>2, <1>3, <1>4, <1>4a, <1>5, <1>6, <1>7, <1>8, DoneAgree

-----------------------------------------------------------------------------
(* What get_debug_event makes of a status *)

\* What get_debug_event knows when the other threads are frozen.
LEMMA EventFacts ==
    ASSUME IInv, Agree, Frozen("event")
    PROVE  /\ job.tid \in Tids /\ job.tid \in dm.threads /\ dm.state[job.tid] = "STOPPED"
           /\ Quiet(dm) /\ ~Ended(dm, cur) /\ queue = {} /\ pc = "freeze"
           /\ job.status # None /\ (job.ready <=> job.status = "CLONE")
           /\ job.status \in Exits => task[job.tid] = "gone"
           /\ ~dm.in_event \/ dm.exited
           /\ cur.eid # "PROCESS_EXIT"
           /\ \A t \in Tids : Taken[t] = IF t = job.tid THEN job.status ELSE None
           /\ \A t \in dm.threads : task[t] = "gone" =>
                 dm.pending_status[t] \in Exits \/ (t = job.tid /\ job.status \in Exits)
<1>1. pc = "freeze" /\ job.for = "event" /\ queue = {}
    BY DEF Frozen
<1>2. /\ job.tid \in Tids /\ job.tid \in dm.threads /\ dm.state[job.tid] = "STOPPED"
      /\ Quiet(dm) /\ ~Ended(dm, cur)
      /\ job.status # None /\ (job.ready <=> job.status = "CLONE")
      /\ job.status \in Exits => task[job.tid] = "gone"
    BY <1>1, AgreeFacts DEF Freezing
<1>3. ~dm.in_event \/ dm.exited
    BY <1>1 DEF Agree, Asked
<1>4. \A t \in Tids : Taken[t] = IF t = job.tid THEN job.status ELSE None
    BY <1>1 DEF Taken
<1>5. Reaped(dm, Taken, task, cur)
    BY <1>1 DEF Agree
<1>6. ASSUME NEW t \in dm.threads, task[t] = "gone"
      PROVE  dm.pending_status[t] \in Exits \/ (t = job.tid /\ job.status \in Exits)
  <2>1. t \in Tids
    BY AgreeFacts
  <2> QED BY <1>2, <1>4, <1>5, <1>6, <2>1, StatusFacts DEF Reaped
<1>7. cur.eid # "PROCESS_EXIT"
    BY <1>2 DEF Ended
<1> QED BY <1>1, <1>2, <1>3, <1>4, <1>6, <1>7

\* The object while get_debug_event works on a status that is not an exit.
Handled(m) ==
    /\ Good(m) /\ ~m.may_run /\ m.in_event = dm.in_event /\ ~Ended(m, cur)
    /\ \A f \in FitFields \ {"waiting_sigstop"} : m[f] = dm[f]
    /\ \A u \in Tids : u # job.tid => m.waiting_sigstop[u] = dm.waiting_sigstop[u]
    /\ \/ ~m.waiting_sigstop[job.tid]
       \/ m.waiting_sigstop[job.tid] = dm.waiting_sigstop[job.tid] /\ job.status # "SIGSTOP"

\* What is handled fits, and no thread runs.
LEMMA HandledFacts ==
    ASSUME IInv, Agree, Frozen("event"), job.status \notin Exits, NEW m, Handled(m)
    PROVE  /\ \A Y : (\A t \in Tids : Y[t] = None) => Fit(m, Y, task, wstat, sigs, child)
           /\ Quiet(m) /\ m.exited = dm.exited
           /\ \A t \in m.threads : task[t] = "gone" => m.pending_status[t] \in Exits
<1>1. /\ m.threads = dm.threads /\ m.state = dm.state /\ m.pending_status = dm.pending_status
      /\ m.exited = dm.exited
    BY DEF Handled, FitFields
<1>2. /\ job.tid \in Tids /\ job.tid \in dm.threads /\ dm.state[job.tid] = "STOPPED"
      /\ Quiet(dm)
      /\ \A t \in Tids : Taken[t] = IF t = job.tid THEN job.status ELSE None
      /\ \A t \in dm.threads : task[t] = "gone" => dm.pending_status[t] \in Exits
    BY EventFacts
<1>3. Quiet(m)
  <2>1. \A t \in dm.threads : IsRunning(m, t) => IsRunning(dm, t)
    BY <1>1, <1>2, AgreeFacts DEF IsRunning, Handled
  <2> QED BY <1>1, <1>2, <2>1 DEF Quiet
<1>4. ASSUME NEW Y, \A t \in Tids : Y[t] = None PROVE Fit(m, Y, task, wstat, sigs, child)
  <2>1. \A t \in Tids : Y[t] = IF t = job.tid THEN None ELSE Taken[t]
    BY <1>2, <1>4
  <2>2. Taken[job.tid] = job.status
    BY <1>2
  <2>3. /\ \A f \in FitFields \ {"waiting_sigstop"} : m[f] = dm[f]
        /\ \A u \in Tids : u # job.tid => m.waiting_sigstop[u] = dm.waiting_sigstop[u]
        /\ \/ ~m.waiting_sigstop[job.tid]
           \/ m.waiting_sigstop[job.tid] = dm.waiting_sigstop[job.tid] /\ Taken[job.tid] # "SIGSTOP"
    BY <2>2 DEF Handled
  <2> QED BY <1>2, <2>1, <2>2, <2>3, AgreeFacts, HandleFit
<1> QED BY <1>1, <1>2, <1>3, <1>4

\* get_debug_event returns with its event in the queue.
LEMMA ReturnAgree ==
    ASSUME IInv, Agree, Frozen("event"), job.status \notin Exits, NEW m, Handled(m), Return(m)
    PROVE  Agree'
<1>1. /\ dm' = m /\ pc' = "poll" /\ UNCHANGED <<cur, queue, failed>>
      /\ task' = task /\ wstat' = wstat /\ sigs' = sigs /\ child' = child
    BY DEF Return, kernel
<1>2. /\ \A Y : (\A t \in Tids : Y[t] = None) => Fit(m, Y, task, wstat, sigs, child)
      /\ Quiet(m) /\ m.exited = dm.exited
      /\ \A t \in m.threads : task[t] = "gone" => m.pending_status[t] \in Exits
    BY HandledFacts
<1>3. Hushed(dm, task)'
    BY <1>1, <1>2 DEF Hushed, Handled
<1>4. /\ queue = {} /\ cur.eid # "PROCESS_EXIT" /\ (~m.in_event \/ m.exited) /\ ~Ended(m, cur)
    BY <1>2, EventFacts DEF Handled
<1>5. Kernel(task, wstat, sigs, child)'
    BY <1>1, AgreeFacts
<1> QED BY <1>1, <1>2, <1>3, <1>4, <1>5, DoneAgree

\* enqueue_event while a status is dealt with.
LEMMA EnqueueHandled ==
    ASSUME NEW m, Handled(m), NEW e \in Event, e.eid # "PROCESS_EXIT", NEW n, n = Enqueue(m, e)
    PROVE  Handled(n)
<1>1. Good(n)
    BY EnqueueGood DEF Handled
<1>2. /\ n.events = Append(m.events, e) /\ ~n.may_run
      /\ \A f \in Fields \ {"events", "may_run"} : n[f] = m[f]
    BY DEF Handled, Good, Shaped, Fields, Enqueue
<1>3. m.events \in Seq(Event)
    BY DEF Handled, Good, Typed
<1>4. ~Ended(n, cur)
    BY <1>2, <1>3, AppendEnded DEF Handled, Ended
<1>5. /\ n.in_event = m.in_event /\ n.waiting_sigstop = m.waiting_sigstop
      /\ \A f \in FitFields : n[f] = m[f]
    BY <1>2 DEF Fields, FitFields
<1> QED BY <1>1, <1>2, <1>4, <1>5 DEF Handled

\* Fields that Agree does not mention.
LEMMA AsideHandled ==
    ASSUME NEW m, Handled(m), NEW n, Good(n),
           \A f \in Fields \ {"single_step", "child_signum", "last_tid"} : n[f] = m[f]
    PROVE  Handled(n)
<1>1. /\ n.in_event = m.in_event /\ n.waiting_sigstop = m.waiting_sigstop
      /\ n.may_run = m.may_run /\ n.events = m.events
      /\ \A f \in FitFields : n[f] = m[f]
    BY DEF Fields, FitFields
<1> QED BY <1>1 DEF Handled, Ended

\* The signal a thread is to be resumed with.
Signum(m, t, s) == [m EXCEPT !.child_signum[t] = s]

\* The last assignments of get_debug_event.
Stepped(m, t, l) == [m EXCEPT !.single_step[t] = FALSE, !.last_tid = l]

\* Neither matters to the invariant.
LEMMA AsideFields ==
    ASSUME NEW m, Handled(m), NEW t \in Tids, NEW s \in Status \cup {None}, NEW l \in Tids \cup {0}
    PROVE  Handled(Signum(m, t, s)) /\ Handled(Stepped(m, t, l))
<1>0. Good(m)
    BY DEF Handled
<1>1. Good(Signum(m, t, s))
    BY <1>0, FieldsGood DEF Signum
<1>2. Good(Stepped(m, t, l))
    BY <1>0, ReportedGood DEF Stepped
<1>3. \A f \in Fields \ {"single_step", "child_signum", "last_tid"} : Signum(m, t, s)[f] = m[f]
    BY <1>0 DEF Good, Shaped, Fields, Signum
<1>4. \A f \in Fields \ {"single_step", "child_signum", "last_tid"} : Stepped(m, t, l)[f] = m[f]
    BY <1>0 DEF Good, Shaped, Fields, Stepped
<1> QED BY <1>1, <1>2, <1>3, <1>4, AsideHandled

\* get_debug_event reports an event.
LEMMA ReportAgree ==
    ASSUME IInv, Agree, Frozen("event"), job.status \notin Exits, NEW m, Handled(m),
           NEW e \in Event, e.eid # "PROCESS_EXIT", Report(m, e)
    PROVE  Agree'
<1> DEFINE k == Enqueue(m, e)
<1>1. e.tid \in Tids
    BY DEF Event
<1>2. Handled(k)
    BY EnqueueHandled
<1>3. Return(Stepped(k, e.tid, e.tid))
    BY DEF Report, Stepped
<1> HIDE DEF k
<1>4. None \in Status \cup {None}
    OBVIOUS
<1>5. Handled(Stepped(k, e.tid, e.tid))
    BY <1>1, <1>2, <1>4, AsideFields
<1> QED BY <1>3, <1>5, ReturnAgree

\* The label RESUME of get_debug_event.
LEMMA ResumeAppAgree ==
    ASSUME IInv, Agree, NEW m, Good(m), ResumeApp(m), queue = {}, ~m.in_event,
           NEW X, \A t \in Tids : X[t] = None, Fit(m, X, task, wstat, sigs, child),
           m.events # << >> => Quiet(m) \/ Down(task), Ended(m, cur) => m.exited,
           \A t \in m.threads : task[t] = "gone" => m.pending_status[t] \in Exits \/ Ended(m, cur)
    PROVE  Agree'
<1> DEFINE n == Runnable(m)
<1>1. Good(n)
    BY RunnableGood
<1>2. \A f \in Fields \ {"may_run"} : n[f] = m[f]
    BY DEF Good, Shaped, Fields, Runnable
<1>3. n.may_run => m.events = << >>
    BY DEF Good, Shaped, Fields, Runnable, HasPendingEvents
<1>4. DoThaw(n, Tids, "idle")
    BY DEF ResumeApp
<1> HIDE DEF n
<1>5. /\ \A f \in FitFields : n[f] = m[f]
      /\ n.events = m.events /\ n.in_event = m.in_event /\ n.exited = m.exited
      /\ n.threads = m.threads /\ n.state = m.state /\ n.waiting_sigstop = m.waiting_sigstop
      /\ n.pending_status = m.pending_status
    BY <1>2 DEF Fields, FitFields
<1>6. Fit(n, X, task, wstat, sigs, child)
    BY <1>5, SameFit
<1>7. Hushed(n, task)
    BY <1>3, <1>5 DEF Hushed, Quiet, IsRunning
<1>8. Ended(n, cur) <=> Ended(m, cur)
    BY <1>5 DEF Ended
<1> QED BY <1>1, <1>4, <1>5, <1>6, <1>7, <1>8, ThawAgree

\* The label RESUME: the process goes on, or stays as the client has asked.
LEMMA ResumeAgree ==
    ASSUME IInv, Agree, Frozen("event"), job.status \notin Exits, NEW m, Handled(m), Resume(m)
    PROVE  Agree'
<1>1. CASE ~m.requested_to_suspend /\ ~m.in_event
  <2>1. ResumeApp(m)
    BY <1>1 DEF Resume
  <2>2. /\ \A Y : (\A t \in Tids : Y[t] = None) => Fit(m, Y, task, wstat, sigs, child)
        /\ Quiet(m) /\ m.exited = dm.exited
        /\ \A t \in m.threads : task[t] = "gone" => m.pending_status[t] \in Exits
    BY HandledFacts
  <2> DEFINE Y == [t \in Tids |-> None]
  <2>3. \A t \in Tids : Y[t] = None
    OBVIOUS
  <2>4. Good(m) /\ ~Ended(m, cur)
    BY DEF Handled
  <2> HIDE DEF Y
  <2> QED BY <1>1, <2>1, <2>2, <2>3, <2>4, EventFacts, ResumeAppAgree
<1>2. CASE ~(~m.requested_to_suspend /\ ~m.in_event)
  <2> DEFINE e == Ev("PROCESS_SUSPEND", job.tid)
             n == Enqueue(m, e)
  <2>1. Return(n)
    BY <1>2 DEF Resume
  <2>2. e \in Event /\ e.eid # "PROCESS_EXIT"
    BY AgreeFacts DEF Ev, SignalEv, Event, EventIds
  <2> HIDE DEF e
  <2>3. Handled(n)
    BY <2>2, EnqueueHandled
  <2> HIDE DEF n
  <2> QED BY <2>1, <2>3, ReturnAgree
<1> QED BY <1>1, <1>2

\* The object once may_run is cleared.
LEMMA HeldHandled ==
    ASSUME IInv, Agree, Frozen("event"), job.status # "SIGSTOP" \/ ~dm.waiting_sigstop[job.tid]
    PROVE  Handled(Held(dm))
<1> DEFINE h == Held(dm)
<1>1. Good(h) /\ Good(dm) /\ ~Ended(dm, cur)
    BY AgreeFacts, EventFacts, RunnableGood
<1>2. ~h.may_run /\ \A f \in Fields \ {"may_run"} : h[f] = dm[f]
    BY <1>1 DEF Good, Shaped, Fields, Held
<1> HIDE DEF h
<1>3. /\ h.in_event = dm.in_event /\ h.waiting_sigstop = dm.waiting_sigstop /\ h.events = dm.events
      /\ \A f \in FitFields : h[f] = dm[f]
    BY <1>2 DEF Fields, FitFields
<1>4. ~Ended(h, cur)
    BY <1>1, <1>3 DEF Ended
<1>5. Handled(h)
    BY <1>1, <1>2, <1>3, <1>4 DEF Handled
<1> QED BY <1>5 DEF h

\* The SIGSTOP of a thread is no longer awaited.
Arrived(m, t) == [m EXCEPT !.waiting_sigstop[t] = FALSE]

\* The same when the status is that SIGSTOP.
LEMMA ArrivedHandled ==
    ASSUME IInv, Agree, Frozen("event")
    PROVE  Handled(Arrived(Held(dm), job.tid))
<1> DEFINE h == Held(dm)
<1>1. Good(h) /\ Good(dm) /\ ~Ended(dm, cur) /\ job.tid \in Tids
    BY AgreeFacts, EventFacts, RunnableGood
<1>2. ~h.may_run /\ \A f \in Fields \ {"may_run"} : h[f] = dm[f]
    BY <1>1 DEF Good, Shaped, Fields, Held
<1> HIDE DEF h
<1> DEFINE n == Arrived(h, job.tid)
<1>3. Good(n)
    BY <1>1, FieldsGood DEF Arrived
<1>4. /\ n.waiting_sigstop = [h.waiting_sigstop EXCEPT ![job.tid] = FALSE]
      /\ \A f \in Fields \ {"waiting_sigstop"} : n[f] = h[f]
    BY <1>1 DEF Good, Shaped, Fields, Arrived
<1> HIDE DEF n
<1>5. h.waiting_sigstop \in [Tids -> BOOLEAN] /\ h.waiting_sigstop = dm.waiting_sigstop
    BY <1>1, <1>2 DEF Good, Typed, Fields
<1>6. /\ ~n.waiting_sigstop[job.tid]
      /\ \A u \in Tids : u # job.tid => n.waiting_sigstop[u] = dm.waiting_sigstop[u]
    BY <1>1, <1>4, <1>5
<1>7. /\ n.in_event = dm.in_event /\ n.events = dm.events /\ ~n.may_run
      /\ \A f \in FitFields \ {"waiting_sigstop"} : n[f] = dm[f]
    BY <1>2, <1>4 DEF Fields, FitFields
<1>8. ~Ended(n, cur)
    BY <1>1, <1>7 DEF Ended
<1>9. Handled(n)
    BY <1>3, <1>6, <1>7, <1>8 DEF Handled
<1> QED BY <1>9 DEF n, h

\* The event handle_extended_wait prepared.
LEMMA EventReadyAgree ==
    ASSUME IInv, Agree, EventReady
    PROVE  Agree'
<1>1. Frozen("event") /\ job.ready /\ Return(Stepped(Held(dm), job.tid, 0))
    BY DEF EventReady, Stepped
<1>2. job.status = "CLONE" /\ job.tid \in Tids
    BY <1>1, EventFacts
<1>3. Handled(Held(dm))
    BY <1>1, <1>2, HeldHandled
<1>4. None \in Status \cup {None} /\ 0 \in Tids \cup {0}
    OBVIOUS
<1>5. Handled(Stepped(Held(dm), job.tid, 0))
    BY <1>2, <1>3, <1>4, AsideFields
<1> QED BY <1>1, <1>2, <1>5, StatusFacts, ReturnAgree DEF Exits

\* A SIGSTOP that was awaited.
LEMMA AwaitedSigstopAgree ==
    ASSUME IInv, Agree, AwaitedSigstop
    PROVE  Agree'
<1>1. Frozen("event") /\ job.status = "SIGSTOP" /\ Resume(Arrived(Held(dm), job.tid))
    BY DEF AwaitedSigstop, Arrived
<1>2. job.status \notin Exits
    BY <1>1 DEF Exits
<1> QED BY <1>1, <1>2, ArrivedHandled, ResumeAgree

\* A SIGTRAP.
LEMMA TrapAgree ==
    ASSUME IInv, Agree, Trap
    PROVE  Agree'
<1>1. Frozen("event") /\ job.status = "SIGTRAP" /\ job.tid \in Tids
    BY AgreeFacts DEF Trap
<1>2. Handled(Held(dm)) /\ job.status \notin Exits
    BY <1>1, HeldHandled DEF Exits
<1> DEFINE h == Held(dm)
<1>3. PICK own \in BOOLEAN, found \in {FALSE, "library" \in World} :
          LET t == job.tid
              id == IF own THEN "BREAKPOINT" ELSE IF dm.single_step[t] THEN "STEP" ELSE "EXCEPTION"
              signum == IF id # "EXCEPTION" \/ "SIGTRAP" \in Mask THEN None ELSE "SIGTRAP"
              m == LibraryEvents(Signum(h, t, signum), found)
          IN IF id = "EXCEPTION" /\ "SIGTRAP" \notin BreakOn
             THEN Resume(m)
             ELSE Report(m, SignalEv(id, t, "SIGTRAP"))
    BY DEF Trap, Signum
<1> HIDE DEF h
<1> DEFINE id == IF own THEN "BREAKPOINT"
                 ELSE IF dm.single_step[job.tid] THEN "STEP" ELSE "EXCEPTION"
           signum == IF id # "EXCEPTION" \/ "SIGTRAP" \in Mask THEN None ELSE "SIGTRAP"
           k == Signum(h, job.tid, signum)
           m == LibraryEvents(k, found)
           e == SignalEv(id, job.tid, "SIGTRAP")
<1>4. Resume(m) \/ Report(m, e)
    BY <1>3
<1>5. signum \in Status \cup {None} /\ id \in EventIds /\ id # "PROCESS_EXIT"
    BY StatusFacts DEF EventIds
<1> HIDE DEF id, signum
<1>6. e \in Event /\ e.eid # "PROCESS_EXIT"
    BY <1>1, <1>5, StatusFacts DEF SignalEv, Event
<1>7. Handled(k)
  <2>1. 0 \in Tids \cup {0}
    OBVIOUS
  <2> QED BY <1>1, <1>2, <1>5, <2>1, AsideFields DEF h
<1> HIDE DEF e, k
<1>8. Ev("LIBRARY_LOAD", Main) \in Event /\ Ev("LIBRARY_LOAD", Main).eid # "PROCESS_EXIT"
    BY TidsAssumption DEF Ev, SignalEv, Event, EventIds
<1>9. Handled(m)
    BY <1>7, <1>8, EnqueueHandled DEF LibraryEvents
<1> HIDE DEF m
<1> QED BY <1>1, <1>2, <1>4, <1>6, <1>9, ResumeAgree, ReportAgree

\* Any other signal.
LEMMA SignalledAgree ==
    ASSUME IInv, Agree, Signalled
    PROVE  Agree'
<1> DEFINE s == job.status
           signum == IF s \notin BreakOn /\ s \in Mask THEN None ELSE s
           k == Signum(Held(dm), job.tid, signum)
           e == SignalEv("EXCEPTION", job.tid, s)
<1>1. /\ Frozen("event") /\ s \in Signals \cup {"SIGSTOP"} /\ job.tid \in Tids
      /\ s # "SIGSTOP" \/ ~dm.waiting_sigstop[job.tid]
    BY AgreeFacts DEF Signalled
<1>2. s \in Status /\ s \notin Exits
    BY <1>1, SignalsAssumption DEF Status, Stops, Exits
<1>3. Resume(k) \/ Report(k, e)
    BY DEF Signalled, Signum
<1>4. Handled(Held(dm))
    BY <1>1, HeldHandled
<1>5. e \in Event /\ e.eid # "PROCESS_EXIT"
    BY <1>1, <1>2 DEF SignalEv, Event, EventIds
<1>6. signum \in Status \cup {None} /\ 0 \in Tids \cup {0}
    BY <1>2
<1> HIDE DEF e, signum
<1>7. Handled(k)
    BY <1>1, <1>4, <1>6, AsideFields
<1> HIDE DEF k
<1> QED BY <1>1, <1>2, <1>3, <1>5, <1>7, ResumeAgree, ReportAgree

-----------------------------------------------------------------------------
(* Exits *)

\* The exit of the last thread, or of the leader, is the end of the process.
LEMMA LastThreadDown ==
    ASSUME IInv, Agree, Frozen("event"), job.status \in Exits, LastThread
    PROVE  Down(task)
<1>1. job.tid \in Tids /\ job.tid \in dm.threads /\ task[job.tid] = "gone"
    BY EventFacts
<1>2. task[Main] = "gone" => Down(task)
    BY AgreeFacts DEF Kernel, Down, Alive
<1>3. CASE job.tid = dm.process_handle
  <2>1. dm.process_handle \in {Main, 0}
    BY AgreeFacts DEF Good, Typed
  <2>2. job.tid = Main
    BY <1>1, <1>3, <2>1, TidsAssumption
  <2> QED BY <1>1, <1>2, <2>2
<1>4. CASE Cardinality(dm.threads) <= 1
  <2>1. IsFiniteSet(dm.threads)
    BY AgreeFacts, TidsAssumption, FS_Subset
  <2> DEFINE R == dm.threads \ {job.tid}
  <2>2. IsFiniteSet(R) /\ Cardinality(R) = Cardinality(dm.threads) - 1
    BY <1>1, <2>1, FS_RemoveElement
  <2>3. Cardinality(R) \in Nat /\ Cardinality(dm.threads) \in Nat
    BY <2>1, <2>2, FS_CardinalityType
  <2>4. R = {}
    BY <1>4, <2>2, <2>3, FS_EmptySet
  <2>5. Main \in dm.threads => Main = job.tid
    BY <2>4
  <2>6. Main \in dm.threads \/ Down(task)
    BY AgreeFacts DEF Fit
  <2> QED BY <1>1, <1>2, <2>5, <2>6
<1> QED BY <1>3, <1>4 DEF LastThread

\* The process is over.
Exited(m) == [m EXCEPT !.exited = TRUE]

\* The last assignments keep the types.
LEMMA SteppedGood ==
    ASSUME NEW m, Good(m), NEW t \in Tids, NEW l \in Tids \cup {0}
    PROVE  Good(Stepped(m, t, l))
BY ReportedGood DEF Stepped

\* What changes with PROCESS_EXIT.
LEMMA ProcessExitFields ==
    ASSUME NEW m, Good(m), NEW t \in Tids, NEW e \in Event, NEW n,
           n = Stepped(Enqueue(Exited(Held(m)), e), t, t)
    PROVE  /\ Good(n) /\ n.exited /\ ~n.may_run /\ n.events = Append(m.events, e)
           /\ n.in_event = m.in_event /\ n.threads = m.threads /\ n.state = m.state
           /\ n.pending_status = m.pending_status /\ n.waiting_sigstop = m.waiting_sigstop
           /\ n.seen_threads = m.seen_threads /\ n.deleted_threads = m.deleted_threads
<1> DEFINE h == Held(m)
           x == Exited(h)
           q == Enqueue(x, e)
<1>1. Good(h) /\ \A f \in Fields \ {"may_run"} : h[f] = m[f]
    BY RunnableGood DEF Good, Shaped, Fields, Held
<1> HIDE DEF h
<1>2. Good(x) /\ x.exited /\ \A f \in Fields \ {"exited"} : x[f] = h[f]
    BY <1>1, FlagsGood DEF Good, Shaped, Fields, Exited
<1> HIDE DEF x
<1>3. /\ Good(q) /\ q.events = Append(x.events, e) /\ ~q.may_run
      /\ \A f \in Fields \ {"events", "may_run"} : q[f] = x[f]
    BY <1>2, EnqueueGood DEF Good, Shaped, Fields, Enqueue
<1>4. n = Stepped(q, t, t)
    BY DEF q, x, h
<1> HIDE DEF q
<1>4a. t \in Tids \cup {0}
    OBVIOUS
<1>5. Good(n)
    BY <1>3, <1>4, <1>4a, SteppedGood
<1>6. \A f \in Fields \ {"single_step", "last_tid"} : n[f] = q[f]
    BY <1>3, <1>4 DEF Good, Shaped, Fields, Stepped
<1> QED BY <1>1, <1>2, <1>3, <1>5, <1>6 DEF Fields

\* The end of the process is reported.
LEMMA ProcessExitAgree ==
    ASSUME IInv, Agree, ProcessExit
    PROVE  Agree'
<1> DEFINE e == Ev("PROCESS_EXIT", job.tid)
<1>1. /\ Frozen("event") /\ job.status \in Exits /\ LastThread
      /\ Return(Stepped(Enqueue(Exited(Held(dm)), e), job.tid, job.tid))
    BY DEF ProcessExit, Report, Exited, Stepped, Ev, SignalEv
<1>2. job.tid \in Tids /\ e \in Event /\ e.eid = "PROCESS_EXIT"
    BY AgreeFacts DEF Ev, SignalEv, Event, EventIds
<1> HIDE DEF e
<1>3. /\ dm' = Stepped(Enqueue(Exited(Held(dm)), e), job.tid, job.tid)
      /\ pc' = "poll" /\ UNCHANGED <<cur, queue, failed>>
      /\ task' = task /\ wstat' = wstat /\ sigs' = sigs /\ child' = child
    BY <1>1 DEF Return, kernel
<1>4. /\ Good(dm') /\ dm'.exited /\ ~dm'.may_run /\ dm'.events = Append(dm.events, e)
      /\ dm'.in_event = dm.in_event /\ dm'.threads = dm.threads /\ dm'.state = dm.state
      /\ dm'.pending_status = dm.pending_status /\ dm'.waiting_sigstop = dm.waiting_sigstop
      /\ dm'.seen_threads = dm.seen_threads /\ dm'.deleted_threads = dm.deleted_threads
    BY <1>2, <1>3, AgreeFacts, ProcessExitFields
<1>5. Down(task)
    BY <1>1, LastThreadDown
<1>6. Quiet(dm) /\ queue = {} /\ cur.eid # "PROCESS_EXIT"
    BY <1>1, EventFacts
<1>7. ASSUME NEW Y, \A t \in Tids : Y[t] = None
      PROVE  Fit(dm', Y, task, wstat, sigs, child)
  <2>1. \A t \in dm'.threads : task[t] # "none"
    BY <1>4, AgreeFacts, FitAt DEF Entry
  <2>2. \A t \in (Deleted(dm') \cup dm'.seen_threads) \ dm'.threads : task[t] # "none"
    <3> SUFFICES ASSUME NEW t \in Deleted(dm) \cup dm.seen_threads, t \notin dm.threads
                 PROVE  task[t] # "none"
      BY <1>4 DEF Deleted
    <3>1. t \in Tids
      BY AgreeFacts, SMTT(20) DEF Good, Typed, Deleted
    <3>2. Unseen(dm, task, wstat, sigs, t)
      BY <3>1, AgreeFacts, FitAt
    <3> QED BY <3>2 DEF Unseen
  <2>3. \A t \in dm'.threads : ~IsRunning(dm', t)
    BY <1>4, <1>6 DEF Quiet, IsRunning
  <2>4. \A t \in dm'.threads : dm'.pending_status[t] \in Exits => task[t] = "gone"
    BY <1>4, AgreeFacts, FitAt DEF Entry
  <2>5. /\ dm'.seen_threads \cap dm'.threads = {}
        /\ QwaitStub => \A t \in Tids : dm'.pending_status[t] = None
    BY <1>4, AgreeFacts DEF Fit
  <2>6. task \in [Tids -> {"none", "run", "stop", "zombie", "gone"}]
    BY AgreeFacts DEF KernelTyped
  <2> QED BY <1>4, <1>5, <2>1, <2>2, <2>3, <2>4, <2>5, <2>6, DownFit
<1>8. Hushed(dm, task)'
    BY <1>3, <1>4, <1>5 DEF Hushed
<1>9. Ended(dm', cur')
  <2>1. dm.events \in Seq(Event)
    BY AgreeFacts DEF Good, Typed
  <2>2. \E i \in 1 .. Len(dm'.events) : dm'.events[i].eid = "PROCESS_EXIT"
    BY <1>2, <1>4, <2>1, AppendEnded
  <2> QED BY <2>2 DEF Ended
<1>10. Kernel(task, wstat, sigs, child)'
    BY <1>3, AgreeFacts
<1> QED BY <1>3, <1>4, <1>6, <1>7, <1>8, <1>9, <1>10, DoneAgree

\* del_thread remembers the thread among the deleted ones and forgets the
\* oldest of them when there are too many.
LEMMA DelThreadFields ==
    ASSUME NEW m, Good(m), NEW t \in Tids, NEW n, n = DelThread(m, t)
    PROVE  /\ n.threads = m.threads \ {t} /\ Deleted(n) \in SUBSET (Deleted(m) \cup {t})
           /\ \A u \in Tids : n.pending_status[u] = IF u = t THEN None ELSE m.pending_status[u]
           /\ \A f \in Fields \ {"threads", "pending_status", "npending_signals", "deleted_threads"} :
                 n[f] = m[f]
<1> DEFINE q == IF Len(m.deleted_threads) >= DeletedMax THEN Tail(m.deleted_threads) ELSE m.deleted_threads
<1>1. /\ n.threads = m.threads \ {t} /\ n.deleted_threads = Append(q, t)
      /\ n.pending_status = [m.pending_status EXCEPT ![t] = None]
      /\ \A f \in Fields \ {"threads", "pending_status", "npending_signals", "deleted_threads"} :
            n[f] = m[f]
    BY DEF Good, Shaped, Fields, DelThread
<1>2. m.pending_status \in [Tids -> Status \cup {None}] /\ m.deleted_threads \in Seq(Tids)
    BY DEF Good, Typed
<1>3. \A u \in Tids : n.pending_status[u] = IF u = t THEN None ELSE m.pending_status[u]
    BY <1>1, <1>2
<1>4. /\ q \in Seq(Tids)
      /\ \A i \in 1 .. Len(q) : \E j \in 1 .. Len(m.deleted_threads) : q[i] = m.deleted_threads[j]
  <2>1. CASE Len(m.deleted_threads) >= DeletedMax
    <3>1. Len(m.deleted_threads) \in Nat \ {0}
      BY <1>2, <2>1, BoundsAssumption
    <3>2. m.deleted_threads # << >>
      BY <3>1
    <3>3. /\ q \in Seq(Tids) /\ Len(q) = Len(m.deleted_threads) - 1
          /\ \A i \in 1 .. Len(q) : q[i] = m.deleted_threads[i + 1] /\ i + 1 \in 1 .. Len(m.deleted_threads)
      BY <1>2, <2>1, <3>2
    <3> QED BY <3>3
  <2>2. CASE ~(Len(m.deleted_threads) >= DeletedMax)
    BY <1>2, <2>2
  <2> QED BY <2>1, <2>2
<1> HIDE DEF q
<1>5. ASSUME NEW u \in Deleted(n) PROVE u \in Deleted(m) \cup {t}
  <2>1. PICK i \in 1 .. Len(n.deleted_threads) : u = n.deleted_threads[i]
    BY DEF Deleted
  <2>2. Len(n.deleted_threads) = Len(q) + 1 /\ Len(q) \in Nat
    BY <1>1, <1>4
  <2>3. CASE i = Len(q) + 1
    BY <1>1, <1>4, <2>1, <2>3
  <2>4. CASE i \in 1 .. Len(q)
    <3>1. u = q[i]
      BY <1>1, <1>4, <2>1, <2>4
    <3> QED BY <1>4, <2>4, <3>1 DEF Deleted
  <2> QED BY <2>2, <2>3, <2>4
<1> QED BY <1>1, <1>3, <1>5

-----------------------------------------------------------------------------
(* The requests of the client *)

\* The thread of the last event.
LastTid(m, l) == [m EXCEPT !.last_tid = l]

\* Remembering it changes nothing else.
LEMMA LastTidGood ==
    ASSUME NEW m, Good(m), NEW l \in Tids \cup {0}
    PROVE  Good(LastTid(m, l)) /\ \A f \in Fields \ {"last_tid"} : LastTid(m, l)[f] = m[f]
<1>1. Good(LastTid(m, l))
    BY TidsAssumption, ReportedGood DEF LastTid
<1>2. \A f \in Fields \ {"last_tid"} : LastTid(m, l)[f] = m[f]
    BY DEF Good, Shaped, Fields, LastTid
<1> QED BY <1>1, <1>2

\* The object when a thread has exited.
Buried(m, t) == LastTid(DeadThread(Held(m), t), t)

\* What changes with THREAD_EXIT.
LEMMA ThreadExitFields ==
    ASSUME NEW m, Good(m), NEW t \in Tids, NEW n, n = Buried(m, t)
    PROVE  /\ Good(n) /\ ~n.may_run /\ n.events = Append(m.events, Ev("THREAD_EXIT", t))
           /\ n.threads = m.threads \ {t} /\ Deleted(n) \in SUBSET (Deleted(m) \cup {t})
           /\ \A u \in Tids : n.pending_status[u] = IF u = t THEN None ELSE m.pending_status[u]
           /\ n.exited = m.exited /\ n.seen_threads = m.seen_threads /\ n.state = m.state
           /\ n.suspend_count = m.suspend_count /\ n.user_suspend = m.user_suspend
           /\ n.waiting_sigstop = m.waiting_sigstop /\ n.in_event = m.in_event
<1> DEFINE h == Held(m)
           e == Ev("THREAD_EXIT", t)
           q == Enqueue(h, e)
           d == DelThread(q, t)
<1>1. Good(h)
    BY RunnableGood
<1>2. ~h.may_run /\ \A f \in Fields \ {"may_run"} : h[f] = m[f]
    BY DEF Good, Shaped, Fields, Held
<1> HIDE DEF h
<1>3. e \in Event
    BY DEF Ev, SignalEv, Event, EventIds
<1>4. Good(q)
    BY <1>1, <1>3, EnqueueGood
<1>5. /\ q.events = Append(h.events, e) /\ ~q.may_run
      /\ \A f \in Fields \ {"events", "may_run"} : q[f] = h[f]
    BY <1>1 DEF Good, Shaped, Fields, Enqueue
<1>6. n = LastTid(d, t)
    BY DEF Buried, DeadThread, h
<1> HIDE DEF e, q
<1>7. Good(d)
    BY <1>4, DelThreadGood
<1>8. /\ d.threads = q.threads \ {t} /\ Deleted(d) \in SUBSET (Deleted(q) \cup {t})
      /\ \A u \in Tids : d.pending_status[u] = IF u = t THEN None ELSE q.pending_status[u]
      /\ \A f \in Fields \ {"threads", "pending_status", "npending_signals", "deleted_threads"} :
            d[f] = q[f]
    BY <1>4, DelThreadFields
<1> HIDE DEF d
<1>8a. t \in Tids \cup {0}
    OBVIOUS
<1>9. Good(n)
    BY <1>6, <1>7, <1>8a, LastTidGood
<1>10. \A f \in Fields \ {"last_tid"} : n[f] = d[f]
    BY <1>6, <1>7, <1>8a, LastTidGood
<1>11. /\ n.threads = d.threads /\ n.deleted_threads = d.deleted_threads
       /\ n.pending_status = d.pending_status
       /\ q.threads = m.threads /\ q.deleted_threads = m.deleted_threads
       /\ q.pending_status = m.pending_status
    BY <1>2, <1>5, <1>10 DEF Fields
<1>12. Deleted(n) = Deleted(d) /\ Deleted(q) = Deleted(m)
    BY <1>11 DEF Deleted
<1>13. /\ ~n.may_run /\ n.events = Append(m.events, e)
       /\ n.exited = m.exited /\ n.seen_threads = m.seen_threads /\ n.state = m.state
       /\ n.suspend_count = m.suspend_count /\ n.user_suspend = m.user_suspend
       /\ n.waiting_sigstop = m.waiting_sigstop /\ n.in_event = m.in_event
    BY <1>2, <1>5, <1>8, <1>10 DEF Fields
<1>14. /\ n.threads = m.threads \ {t} /\ Deleted(n) \in SUBSET (Deleted(m) \cup {t})
       /\ \A u \in Tids : n.pending_status[u] = IF u = t THEN None ELSE m.pending_status[u]
    BY <1>8, <1>11, <1>12
<1> QED BY <1>9, <1>13, <1>14 DEF e

\* The exit of one thread is reported.
LEMMA ThreadExitAgree ==
    ASSUME IInv, Agree, ThreadExit
    PROVE  Agree'
<1>1. /\ Frozen("event") /\ job.status \in Exits
      /\ Return(Buried(dm, job.tid))
    BY DEF ThreadExit, Buried, LastTid
<1>2. /\ job.tid \in Tids /\ job.tid \in dm.threads /\ task[job.tid] = "gone"
      /\ Quiet(dm) /\ queue = {} /\ cur.eid # "PROCESS_EXIT" /\ ~Ended(dm, cur)
      /\ ~dm.in_event \/ dm.exited
      /\ \A t \in Tids : t # job.tid => Taken[t] = None
      /\ \A t \in dm.threads : task[t] = "gone" => dm.pending_status[t] \in Exits \/ t = job.tid
    BY <1>1, EventFacts
<1>3. /\ dm' = Buried(dm, job.tid)
      /\ pc' = "poll" /\ UNCHANGED <<cur, queue, failed>>
      /\ task' = task /\ wstat' = wstat /\ sigs' = sigs /\ child' = child
    BY <1>1 DEF Return, kernel
<1>4. /\ Good(dm') /\ ~dm'.may_run /\ dm'.events = Append(dm.events, Ev("THREAD_EXIT", job.tid))
      /\ dm'.threads = dm.threads \ {job.tid} /\ Deleted(dm') \in SUBSET (Deleted(dm) \cup {job.tid})
      /\ \A u \in Tids : dm'.pending_status[u] = IF u = job.tid THEN None ELSE dm.pending_status[u]
      /\ dm'.exited = dm.exited /\ dm'.seen_threads = dm.seen_threads /\ dm'.state = dm.state
      /\ dm'.suspend_count = dm.suspend_count /\ dm'.user_suspend = dm.user_suspend
      /\ dm'.waiting_sigstop = dm.waiting_sigstop /\ dm'.in_event = dm.in_event
    BY <1>2, <1>3, AgreeFacts, ThreadExitFields
<1>5. job.tid = Main => Down(task)
    BY <1>2, AgreeFacts DEF Kernel, Down, Alive
<1>6. ASSUME NEW Y, \A t \in Tids : Y[t] = None
      PROVE  Fit(dm', Y, task, wstat, sigs, child)
  <2>1. \A t \in Tids \ {job.tid} : Y[t] = Taken[t]
    BY <1>2, <1>6
  <2> QED BY <1>2, <1>4, <1>5, <2>1, AgreeFacts, RemoveFit
<1>7. Hushed(dm, task)'
  <2>1. \A t \in dm'.threads : IsRunning(dm', t) => t \in dm.threads /\ IsRunning(dm, t)
    <3> SUFFICES ASSUME NEW t \in dm'.threads PROVE IsRunning(dm', t) => t \in dm.threads /\ IsRunning(dm, t)
      OBVIOUS
    <3>1. t \in Tids /\ t \in dm.threads /\ t # job.tid
      BY <1>4, AgreeFacts
    <3>2. dm'.pending_status[t] = dm.pending_status[t]
      BY <1>4, <3>1
    <3> QED BY <1>4, <3>1, <3>2 DEF IsRunning
  <2> QED BY <1>2, <1>4, <2>1 DEF Hushed, Quiet
<1>8. ~Ended(dm', cur')
  <2>1. dm.events \in Seq(Event)
    BY AgreeFacts DEF Good, Typed
  <2>2. Ev("THREAD_EXIT", job.tid) \in Event /\ Ev("THREAD_EXIT", job.tid).eid # "PROCESS_EXIT"
    BY <1>2 DEF Ev, SignalEv, Event, EventIds
  <2>3. ~\E i \in 1 .. Len(dm'.events) : dm'.events[i].eid = "PROCESS_EXIT"
    BY <1>2, <1>4, <2>1, <2>2, AppendEnded DEF Ended
  <2> QED BY <1>2, <1>3, <2>3 DEF Ended
<1>9. \A t \in dm'.threads : task'[t] = "gone" => dm'.pending_status[t] \in Exits
  <2> SUFFICES ASSUME NEW t \in dm'.threads, task[t] = "gone" PROVE dm'.pending_status[t] \in Exits
    BY <1>3
  <2>1. t \in Tids /\ t \in dm.threads /\ t # job.tid
    BY <1>4, AgreeFacts
  <2> QED BY <1>2, <1>4, <2>1
<1>10. Kernel(task, wstat, sigs, child)'
    BY <1>3, AgreeFacts
<1> QED BY <1>2, <1>3, <1>4, <1>6, <1>7, <1>8, <1>9, <1>10, DoneAgree

\* What is known when a request that froze threads goes on.
LEMMA RequestFacts ==
    ASSUME IInv, Agree, NEW f \in {"memory", "suspend", "exit"}, Frozen(f)
    PROVE  /\ pc = "freeze" /\ job.for = f /\ queue = {} /\ ~dm.exited /\ ~Ended(dm, cur)
           /\ \A t \in Tids : Taken[t] = None
           /\ \A t \in dm.threads : task[t] = "gone" => dm.pending_status[t] \in Exits
           /\ f = "suspend" => job.tid \in dm.threads /\ ~IsRunning(dm, job.tid)
<1>1. pc = "freeze" /\ job.for = f /\ queue = {}
    BY DEF Frozen
<1>2. ~dm.exited /\ ~Ended(dm, cur) /\ (f = "suspend" => job.tid \in dm.threads /\ ~IsRunning(dm, job.tid))
    BY <1>1, AgreeFacts DEF Freezing
<1>3. \A t \in Tids : Taken[t] = None
    BY <1>1 DEF Taken
<1>4. Reaped(dm, Taken, task, cur)
    BY <1>1 DEF Agree
<1>5. \A t \in dm.threads : task[t] = "gone" => dm.pending_status[t] \in Exits
    BY <1>2, <1>3, <1>4, AgreeFacts, StatusFacts DEF Reaped
<1> QED BY <1>1, <1>2, <1>3, <1>5

\* The threads go on after an access to memory.
LEMMA MemoryAccessedAgree ==
    ASSUME IInv, Agree, MemoryAccessed
    PROVE  Agree'
<1>1. Frozen("memory") /\ DoThaw(dm, Tids, "idle")
    BY DEF MemoryAccessed
<1>2. /\ queue = {} /\ ~Ended(dm, cur) /\ \A t \in Tids : Taken[t] = None
      /\ \A t \in dm.threads : task[t] = "gone" => dm.pending_status[t] \in Exits
    BY <1>1, RequestFacts
<1>3. Hushed(dm, task)
    BY DEF Agree
<1> QED BY <1>1, <1>2, <1>3, AgreeFacts, ThawAgree

\* The user suspends or releases one thread that is not running.
LEMMA UserFit ==
    ASSUME NEW m, Good(m), NEW X, NEW ta, NEW st, NEW sg, NEW ch, Fit(m, X, ta, st, sg, ch),
           NEW t \in Tids, NEW n, \A f \in FitFields \ {"user_suspend"} : n[f] = m[f],
           \A u \in Tids : u # t => n.user_suspend[u] = m.user_suspend[u],
           ~IsRunning(m, t) \/ n.user_suspend[t] = 0 \/ m.exited
    PROVE  Fit(n, X, ta, st, sg, ch)
<1>1. /\ n.threads = m.threads /\ n.state = m.state /\ n.suspend_count = m.suspend_count
      /\ n.waiting_sigstop = m.waiting_sigstop
      /\ n.pending_status = m.pending_status /\ n.deleted_threads = m.deleted_threads
      /\ n.seen_threads = m.seen_threads /\ n.exited = m.exited
    BY DEF FitFields
<1>2. ASSUME NEW u \in Tids PROVE Known(n, X[u], ta, st, sg, u) /\ Unseen(n, ta, st, sg, u)
    BY <1>1, FitAt DEF Known, Unseen, Deleted
<1>3. ASSUME NEW u \in Tids PROVE Entry(n, X[u], ta, u)
  <2>1. Entry(m, X[u], ta, u) /\ (IsRunning(n, u) <=> IsRunning(m, u))
    BY <1>1, FitAt DEF IsRunning
  <2>2. IsRunning(n, u) => n.user_suspend[u] = 0 \/ n.user_suspend[u] = m.user_suspend[u] \/ n.exited
    BY <1>1, <2>1
  <2> QED BY <1>1, <2>1, <2>2 DEF Entry
<1>4. Clones(n, ta, st, ch)
    BY <1>1 DEF Fit, Clones, OpenClone
<1> QED BY <1>1, <1>2, <1>3, <1>4 DEF Fit

\* dbg_thread_suspend counts one up.
LEMMA ThreadSuspendedAgree ==
    ASSUME IInv, Agree, ThreadSuspended
    PROVE  Agree'
<1>1. /\ Frozen("suspend") /\ dm' = [dm EXCEPT !.user_suspend[job.tid] = @ + 1]
      /\ pc' = "idle" /\ UNCHANGED <<cur, queue, failed>>
      /\ task' = task /\ wstat' = wstat /\ sigs' = sigs /\ child' = child
    BY DEF ThreadSuspended, kernel
<1>2. /\ queue = {} /\ ~Ended(dm, cur) /\ \A t \in Tids : Taken[t] = None
      /\ \A t \in dm.threads : task[t] = "gone" => dm.pending_status[t] \in Exits
      /\ job.tid \in dm.threads /\ ~IsRunning(dm, job.tid)
    BY <1>1, RequestFacts
<1>3. /\ dm'.user_suspend = [dm.user_suspend EXCEPT ![job.tid] = dm.user_suspend[job.tid] + 1]
      /\ \A f \in Fields \ {"user_suspend"} : dm'[f] = dm[f]
    BY <1>1, AgreeFacts DEF Good, Shaped, Fields
<1>4. dm.user_suspend \in [Tids -> Nat] /\ job.tid \in Tids
    BY AgreeFacts DEF Good, Typed
<1>5. \A u \in Tids : u # job.tid => dm'.user_suspend[u] = dm.user_suspend[u]
    BY <1>3, <1>4
<1>6. /\ \A f \in FitFields \ {"user_suspend"} : dm'[f] = dm[f]
      /\ dm'.events = dm.events /\ dm'.in_event = dm.in_event /\ dm'.may_run = dm.may_run
      /\ dm'.threads = dm.threads /\ dm'.exited = dm.exited /\ dm'.pending_status = dm.pending_status
      /\ dm'.state = dm.state /\ dm'.waiting_sigstop = dm.waiting_sigstop
    BY <1>3 DEF Fields, FitFields
<1>7. ASSUME NEW Y, \A t \in Tids : Y[t] = None
      PROVE  Fit(dm', Y, task, wstat, sigs, child)
  <2>1. Fit(dm, Y, task, wstat, sigs, child)
    BY <1>2, <1>7, AgreeFacts DEF Fit
  <2> QED BY <1>2, <1>4, <1>5, <1>6, <2>1, AgreeFacts, UserFit
<1>8. Hushed(dm, task)'
    BY <1>1, <1>6 DEF Agree, Hushed, Quiet, IsRunning
<1>9. ~Ended(dm', cur')
    BY <1>1, <1>2, <1>6 DEF Ended
<1>10. Kernel(task, wstat, sigs, child)'
    BY <1>1, AgreeFacts
<1> QED BY <1>1, <1>2, <1>6, <1>7, <1>8, <1>9, <1>10, DoneAgree

\* The object once dbg_exit_process has sent its SIGKILLs.
Slain(m) ==
    [m EXCEPT !.state = [t \in Tids |-> IF t \in m.threads THEN "RUNNING" ELSE @[t]],
              !.suspend_count = [t \in Tids |-> IF t \in m.threads THEN 0 ELSE @[t]],
              !.may_run = TRUE, !.exited = TRUE, !.process_handle = 0]

\* What changes with it.
LEMMA SlainFields ==
    ASSUME NEW m, Good(m), NEW n, n = Slain(m)
    PROVE  /\ Good(n) /\ n.exited
           /\ \A t \in m.threads : n.suspend_count[t] = 0
           /\ \A f \in Fields \ {"state", "suspend_count", "may_run", "exited", "process_handle"} : n[f] = m[f]
<1>1. Good(n)
    BY KilledGood DEF Slain
<1>2. \A f \in Fields \ {"state", "suspend_count", "may_run", "exited", "process_handle"} : n[f] = m[f]
    BY DEF Good, Shaped, Fields, Slain
<1>3. /\ n.exited
      /\ n.suspend_count = [t \in Tids |-> IF t \in m.threads THEN 0 ELSE m.suspend_count[t]]
    BY DEF Good, Shaped, Fields, Slain
<1>4. m.threads \in SUBSET Tids
    BY DEF Good, Typed
<1>5. \A t \in m.threads : n.suspend_count[t] = 0
    BY <1>3, <1>4
<1> QED BY <1>1, <1>2, <1>3, <1>5

\* dbg_exit_process.
LEMMA ProcessKilledAgree ==
    ASSUME IInv, Agree, ProcessKilled
    PROVE  Agree'
<1>1. /\ Frozen("exit") /\ dm' = Slain(dm) /\ TakeDown("SIGNALED")
      /\ pc' = "idle" /\ UNCHANGED <<cur, queue, failed>>
    BY DEF ProcessKilled, Slain
<1>2. /\ queue = {} /\ ~Ended(dm, cur) /\ \A t \in Tids : Taken[t] = None
      /\ \A t \in dm.threads : task[t] = "gone" => dm.pending_status[t] \in Exits
    BY <1>1, RequestFacts
<1>3. /\ Good(dm') /\ dm'.exited /\ \A t \in dm.threads : dm'.suspend_count[t] = 0
      /\ \A f \in Fields \ {"state", "suspend_count", "may_run", "exited", "process_handle"} : dm'[f] = dm[f]
    BY <1>1, AgreeFacts, SlainFields
<1>4. /\ dm'.threads = dm.threads /\ dm'.events = dm.events /\ dm'.in_event = dm.in_event
      /\ dm'.pending_status = dm.pending_status /\ dm'.seen_threads = dm.seen_threads
      /\ dm'.deleted_threads = dm.deleted_threads
    BY <1>3 DEF Fields
<1>5. /\ child' = child
      /\ \A v \in Tids : /\ task'[v] = IF Alive(task, v) THEN "zombie" ELSE task[v]
                         /\ wstat'[v] = IF Alive(task, v) THEN "SIGNALED" ELSE wstat[v]
                         /\ sigs'[v] = {}
    BY <1>1 DEF TakeDown, Alive
<1>6. task' \in [Tids -> {"none", "run", "stop", "zombie", "gone"}]
    BY <1>1, AgreeFacts DEF TakeDown, KernelTyped
<1>7. Kernel(task', wstat', sigs', child) /\ Fit(dm, Taken, task', wstat', sigs', child) /\ Down(task')
  <2>1. "SIGNALED" \in Exits
    BY DEF Exits
  <2> QED BY <1>5, <1>6, <2>1, AgreeFacts, KillFit
<1>8. ASSUME NEW Y, \A t \in Tids : Y[t] = None
      PROVE  Fit(dm', Y, task', wstat', sigs', child)
  <2>1. \A t \in dm'.threads : task'[t] # "none"
    BY <1>4, <1>7, AgreeFacts, FitAt DEF Entry
  <2>2. \A t \in (Deleted(dm') \cup dm'.seen_threads) \ dm'.threads : task'[t] # "none"
    <3> SUFFICES ASSUME NEW t \in Deleted(dm) \cup dm.seen_threads, t \notin dm.threads
                 PROVE  task'[t] # "none"
      BY <1>4 DEF Deleted
    <3>1. t \in Tids
      BY AgreeFacts, SMTT(20) DEF Good, Typed, Deleted
    <3>2. Unseen(dm, task', wstat', sigs', t)
      BY <1>7, <3>1, AgreeFacts, FitAt
    <3> QED BY <3>2 DEF Unseen
  <2>3. \A t \in dm'.threads : dm'.suspend_count[t] = 0
    BY <1>3, <1>4
  <2>4. \A t \in dm'.threads : dm'.pending_status[t] \in Exits => task'[t] = "gone"
    BY <1>4, <1>7, AgreeFacts, FitAt DEF Entry
  <2>5. /\ dm'.seen_threads \cap dm'.threads = {}
        /\ QwaitStub => \A t \in Tids : dm'.pending_status[t] = None
    BY <1>4, AgreeFacts DEF Fit
  <2> QED BY <1>3, <1>6, <1>7, <2>1, <2>2, <2>3, <2>4, <2>5, DownFit
<1>9. Hushed(dm, task)'
    BY <1>3, <1>7 DEF Hushed
<1>10. \A t \in dm'.threads : task'[t] = "gone" => dm'.pending_status[t] \in Exits
  <2> SUFFICES ASSUME NEW t \in dm.threads, task'[t] = "gone" PROVE dm.pending_status[t] \in Exits
    BY <1>4
  <2>1. task[t] = "gone"
    BY <1>5, AgreeFacts
  <2> QED BY <1>2, <2>1
<1>11. Kernel(task, wstat, sigs, child)'
    BY <1>5, <1>7
<1>12. ~Ended(dm', cur')
    BY <1>1, <1>2, <1>4 DEF Ended
<1>13. pc' = "idle" /\ queue' = {} /\ failed' = failed /\ cur' = cur /\ child' = child
    BY <1>1, <1>2, <1>5
<1> QED BY <1>8, <1>9, <1>10, <1>11, <1>12, <1>13, DoneAgree

\* What follows a freeze, for a status or a request.
LEMMA FinishAgree ==
    ASSUME IInv, Agree, Finish
    PROVE  Agree'
BY EventReadyAgree, AwaitedSigstopAgree, TrapAgree, SignalledAgree, ProcessExitAgree,
   ThreadExitAgree, MemoryAccessedAgree, ThreadSuspendedAgree, ProcessKilledAgree DEF Finish

\* Between two requests.
LEMMA IdleFacts ==
    ASSUME IInv, Agree, pc = "idle"
    PROVE  /\ queue = {} /\ Hushed(dm, task) /\ \A t \in Tids : Taken[t] = None
           /\ Ended(dm, cur) => dm.exited
           /\ \A t \in dm.threads : task[t] = "gone" => dm.pending_status[t] \in Exits \/ Ended(dm, cur)
<1>1. queue = {} /\ Hushed(dm, task) /\ (Ended(dm, cur) => dm.exited) /\ Reaped(dm, Taken, task, cur)
    BY DEF Agree
<1>2. \A t \in Tids : Taken[t] = None
    BY DEF Taken
<1>3. \A t \in dm.threads : task[t] = "gone" => dm.pending_status[t] \in Exits \/ Ended(dm, cur)
    BY <1>1, <1>2, AgreeFacts, StatusFacts DEF Reaped
<1> QED BY <1>1, <1>2, <1>3

\* A request freezes the threads of S.
LEMMA FreezeAgree ==
    ASSUME IInv, Agree, pc = "idle", ~dm.exited, NEW S \in SUBSET Tids,
           NEW f \in {"memory", "suspend", "exit"}, NEW t \in Tids,
           f # "suspend" => S = Tids, f = "suspend" => t \in S /\ t \in dm.threads,
           StartFreeze(dm, S, Job(f, t)), SendSigstop(queue'),
           UNCHANGED <<cur, failed, task, wstat, child>>
    PROVE  Agree'
<1>1. /\ job'.for = f /\ job'.tid = t /\ pc' = "freeze"
      /\ dm' = Freeze(dm, S) /\ queue' = FreezeSet(dm, S)
    BY DEF StartFreeze, Job
<1>2. \A u \in Tids : Taken'[u] = None
    BY <1>1 DEF Taken
<1>3. Stopping(sigs', sigs, FreezeSet(dm, S), task)
    BY <1>1 DEF SendSigstop, Stopping, Alive
<1>4. Fit(dm, Taken', task, wstat, sigs, child)
    BY <1>2, AgreeFacts, IdleFacts DEF Fit
<1>5. /\ Fit(dm', Taken', task, wstat, sigs', child)
      /\ Kernel(task, wstat, sigs', child)
      /\ \A u \in FreezeSet(dm, S) : /\ u \in dm'.threads /\ dm'.state[u] = "RUNNING"
                                     /\ dm'.waiting_sigstop[u] /\ dm'.pending_status[u] = None
      /\ \A u \in dm'.threads \cap S : ~IsRunning(dm', u)
    BY <1>1, <1>3, <1>4, AgreeFacts, FreezeFit
<1>6. \A g \in Fields \ {"suspend_count", "waiting_sigstop"} : dm'[g] = dm[g]
    BY <1>1, AgreeFacts, FreezeFields
<1>7. /\ dm'.threads = dm.threads /\ dm'.state = dm.state /\ dm'.events = dm.events
      /\ dm'.may_run = dm.may_run /\ dm'.in_event = dm.in_event /\ dm'.exited = dm.exited
      /\ dm'.pending_status = dm.pending_status
    BY <1>6 DEF Fields
<1>8. f # "suspend" => Quiet(dm)'
    BY <1>5, <1>7, AgreeFacts DEF Quiet
<1>9. Hushed(dm, task)'
  <2>0. Good(dm) /\ \A u \in Tids :
            dm'.waiting_sigstop[u] = (dm.waiting_sigstop[u] \/ u \in FreezeSet(dm, S))
    BY <1>1, AgreeFacts, FreezeFields
  <2>1. \A u \in dm.threads : dm.waiting_sigstop[u] => dm'.waiting_sigstop[u]
    BY <2>0, AgreeFacts
  <2>2. \A u \in dm'.threads : IsRunning(dm', u) => IsRunning(dm, u)
    BY <1>7, <2>1 DEF IsRunning
  <2>3. Hushed(dm, task)
    BY IdleFacts
  <2> QED BY <1>7, <2>2, <2>3 DEF Hushed, Quiet
<1>10. ~Ended(dm', cur')
    BY <1>7, IdleFacts DEF Ended
<1>11. Reaped(dm, Taken, task, cur)'
  <2>1. \A u \in dm.threads : task[u] = "gone" => dm.pending_status[u] \in Exits
    BY IdleFacts
  <2> QED BY <1>7, <2>1 DEF Reaped
<1>12. f = "suspend" => t \in dm'.threads /\ ~IsRunning(dm', t)
    BY <1>5, <1>7
<1>13. Freezing'
    BY <1>1, <1>5, <1>7, <1>8, <1>10, <1>12 DEF Freezing
<1>14. Birth' /\ Asked'
    BY <1>1 DEF Birth, Asked
<1>15. failed' \in {0, 30185}
    BY DEF Agree
<1> QED BY <1>1, <1>5, <1>9, <1>10, <1>11, <1>13, <1>14, <1>15 DEF Agree

\* A request that touches neither the kernel nor what a thread does.
LEMMA IdleAgree ==
    ASSUME IInv, Agree, pc = "idle", pc' = "idle",
           UNCHANGED <<cur, queue, failed, task, wstat, child>>,
           Kernel(task, wstat, sigs', child),
           (\A t \in Tids : Taken'[t] = None) => Fit(dm', Taken', task, wstat, sigs', child),
           dm'.threads = dm.threads, dm'.events = dm.events, dm'.in_event = dm.in_event,
           dm'.exited = dm.exited, dm'.state = dm.state, dm'.pending_status = dm.pending_status,
           \A t \in dm.threads : dm.waiting_sigstop[t] => dm'.waiting_sigstop[t],
           dm'.may_run => dm.may_run
    PROVE  Agree'
<1>1. queue = {} /\ Hushed(dm, task) /\ (Ended(dm, cur) => dm.exited)
      /\ \A t \in dm.threads : task[t] = "gone" => dm.pending_status[t] \in Exits \/ Ended(dm, cur)
    BY IdleFacts
<1>2. Hushed(dm, task)'
    BY <1>1 DEF Hushed, Quiet, IsRunning
<1>3. Ended(dm', cur') <=> Ended(dm, cur)
    BY DEF Ended
<1>4. Kernel(task, wstat, sigs, child)'
    OBVIOUS
<1>5. (\A t \in Tids : Taken'[t] = None) => Fit(dm', Taken', task', wstat', sigs', child')
    OBVIOUS
<1>6. \A t \in dm'.threads : task'[t] = "gone" => dm'.pending_status[t] \in Exits \/ Ended(dm', cur')
    BY <1>1, <1>3
<1>7. queue' = {} /\ failed' = failed /\ cur' = cur
    BY <1>1
<1> QED BY <1>1, <1>2, <1>3, <1>4, <1>5, <1>6, <1>7, DoneAgree

\* dbg_set_resume_mode.
LEMMA SetResumeModeAgree ==
    ASSUME IInv, Agree, NEW t \in Tids, SetResumeMode(t)
    PROVE  Agree'
<1>1. /\ pc = "idle" /\ pc' = "idle" /\ dm' = [dm EXCEPT !.single_step[t] = TRUE]
      /\ UNCHANGED <<cur, queue, failed, task, wstat, child>> /\ sigs' = sigs
    BY DEF SetResumeMode, kernel
<1>2. \A f \in Fields \ {"single_step"} : dm'[f] = dm[f]
    BY <1>1, AgreeFacts DEF Good, Shaped, Fields
<1>3. /\ dm'.threads = dm.threads /\ dm'.events = dm.events /\ dm'.in_event = dm.in_event
      /\ dm'.exited = dm.exited /\ dm'.state = dm.state /\ dm'.pending_status = dm.pending_status
      /\ dm'.waiting_sigstop = dm.waiting_sigstop /\ dm'.may_run = dm.may_run
      /\ \A f \in FitFields : dm'[f] = dm[f]
    BY <1>2 DEF Fields, FitFields
<1>4. ASSUME \A u \in Tids : Taken'[u] = None PROVE Fit(dm', Taken', task, wstat, sigs', child)
  <2>1. Fit(dm, Taken', task, wstat, sigs, child)
    BY <1>1, <1>4, AgreeFacts, IdleFacts DEF Fit
  <2> QED BY <1>1, <1>3, <2>1, SameFit
<1>5. Kernel(task, wstat, sigs', child)
    BY <1>1, AgreeFacts
<1> QED BY <1>1, <1>3, <1>4, <1>5, IdleAgree

\* dbg_thread_continue counts one down.
Released(m, t) == [m EXCEPT !.user_suspend[t] = @ - 1]

\* What it changes.
LEMMA ReleasedFields ==
    ASSUME NEW m, Good(m), NEW t \in Tids, m.user_suspend[t] > 0, NEW n, n = Released(m, t)
    PROVE  /\ Good(n) /\ \A f \in Fields \ {"user_suspend"} : n[f] = m[f]
           /\ \A u \in Tids : n.user_suspend[u] = IF u = t THEN m.user_suspend[t] - 1 ELSE m.user_suspend[u]
<1>0. m.user_suspend \in [Tids -> Nat] /\ m.user_suspend[t] - 1 \in Nat
    BY DEF Good, Typed
<1>1. Good(n)
    BY <1>0, FieldsGood, StatusFacts DEF Released
<1>2. /\ n.user_suspend = [m.user_suspend EXCEPT ![t] = m.user_suspend[t] - 1]
      /\ \A f \in Fields \ {"user_suspend"} : n[f] = m[f]
    BY DEF Good, Shaped, Fields, Released
<1>3. \A u \in Tids : n.user_suspend[u] = IF u = t THEN m.user_suspend[t] - 1 ELSE m.user_suspend[u]
    BY <1>0, <1>2
<1> QED BY <1>1, <1>2, <1>3

\* dbg_thread_continue.
LEMMA ThreadContinueAgree ==
    ASSUME IInv, Agree, NEW t \in Tids, ThreadContinue(t)
    PROVE  Agree'
<1> DEFINE m == Released(dm, t)
<1>1. /\ pc = "idle" /\ t \in dm.threads /\ dm.user_suspend[t] > 0
      /\ \/ dm' = m /\ m.user_suspend[t] > 0
            /\ UNCHANGED <<cur, pc, queue, failed, task, wstat, sigs, child>>
         \/ DoThaw(m, {t}, "idle") /\ ~(m.user_suspend[t] > 0)
    BY DEF ThreadContinue, Released, kernel
<1>2. /\ Good(m) /\ \A f \in Fields \ {"user_suspend"} : m[f] = dm[f]
      /\ \A u \in Tids : m.user_suspend[u] = IF u = t THEN dm.user_suspend[t] - 1 ELSE dm.user_suspend[u]
    BY <1>1, AgreeFacts, ReleasedFields
<1> HIDE DEF m
<1>3. /\ m.threads = dm.threads /\ m.events = dm.events /\ m.in_event = dm.in_event
      /\ m.exited = dm.exited /\ m.state = dm.state /\ m.pending_status = dm.pending_status
      /\ m.waiting_sigstop = dm.waiting_sigstop /\ m.may_run = dm.may_run
      /\ \A f \in FitFields \ {"user_suspend"} : m[f] = dm[f]
    BY <1>2 DEF Fields, FitFields
<1>4. ~IsRunning(dm, t) \/ m.user_suspend[t] = 0 \/ dm.exited
  <2>1. Entry(dm, Taken[t], task, t)
    BY AgreeFacts, FitAt
  <2> QED BY <1>1, <2>1 DEF Entry
<1>5. ASSUME NEW Y, \A u \in Tids : Y[u] = None PROVE Fit(m, Y, task, wstat, sigs, child)
  <2>1. Fit(dm, Y, task, wstat, sigs, child)
    BY <1>1, <1>5, AgreeFacts, IdleFacts DEF Fit
  <2>2. \A u \in Tids : u # t => m.user_suspend[u] = dm.user_suspend[u]
    BY <1>2
  <2> QED BY <1>3, <1>4, <2>1, <2>2, AgreeFacts, UserFit
<1>6. CASE dm' = m /\ UNCHANGED <<cur, pc, queue, failed, task, wstat, sigs, child>>
  <2>1. Kernel(task, wstat, sigs', child) /\ pc' = "idle"
    BY <1>1, <1>6, AgreeFacts
  <2>2. \A u \in dm.threads : dm.waiting_sigstop[u] => dm'.waiting_sigstop[u]
    BY <1>3, <1>6
  <2>3. (\A u \in Tids : Taken'[u] = None) => Fit(dm', Taken', task, wstat, sigs', child)
    BY <1>5, <1>6
  <2> QED BY <1>1, <1>3, <1>6, <2>1, <2>2, <2>3, IdleAgree
<1>7. CASE DoThaw(m, {t}, "idle")
  <2>1. Hushed(m, task) /\ queue = {}
    BY <1>1, <1>3, IdleFacts DEF Hushed, Quiet, IsRunning
  <2>2. Ended(m, cur) <=> Ended(dm, cur)
    BY <1>3 DEF Ended
  <2>3. (Ended(m, cur) => m.exited)
        /\ \A u \in m.threads : task[u] = "gone" => m.pending_status[u] \in Exits \/ Ended(m, cur)
    BY <1>1, <1>3, <2>2, IdleFacts
  <2>4. \A u \in Tids : Taken[u] = None
    BY <1>1, IdleFacts
  <2>5. {t} \in SUBSET Tids
    OBVIOUS
  <2> QED BY <1>2, <1>5, <1>7, <2>1, <2>3, <2>4, <2>5, ThawAgree
<1> QED BY <1>1, <1>6, <1>7

-----------------------------------------------------------------------------
(* dbg_continue_after_event *)

\* The client has dealt with its event.
Acknowledged(m) == [m EXCEPT !.in_event = FALSE]

\* What changes with it.
LEMMA AcknowledgedFields ==
    ASSUME NEW m, Good(m), NEW n, n = Acknowledged(m)
    PROVE  Good(n) /\ ~n.in_event /\ \A f \in Fields \ {"in_event"} : n[f] = m[f]
<1>1. Good(n)
    BY FlagsGood DEF Acknowledged
<1>2. ~n.in_event /\ \A f \in Fields \ {"in_event"} : n[f] = m[f]
    BY DEF Good, Shaped, Fields, Acknowledged
<1> QED BY <1>1, <1>2

\* dbg_continue_after_event closes the event; an entry that was marked as dead
\* is removed.
LEMMA CloseAgree ==
    ASSUME IInv, Agree, pc = "idle", dm.in_event, NEW k, Good(k),
           \A f \in Fields \ {"child_signum"} : k[f] = dm[f],
           NEW t \in Tids, NEW m,
           m = k \/ (t \in dm.threads /\ dm.state[t] = "DEAD" /\ m = DelThread(k, t)),
           ResumeApp(Acknowledged(m))
    PROVE  Agree'
<1> DEFINE n == Acknowledged(m)
<1>1. /\ k.threads = dm.threads /\ k.state = dm.state /\ k.exited = dm.exited
      /\ k.pending_status = dm.pending_status /\ k.waiting_sigstop = dm.waiting_sigstop
      /\ k.events = dm.events /\ k.suspend_count = dm.suspend_count
      /\ k.user_suspend = dm.user_suspend /\ k.seen_threads = dm.seen_threads
      /\ k.deleted_threads = dm.deleted_threads /\ \A f \in FitFields : k[f] = dm[f]
    BY DEF Fields, FitFields
<1>2. Good(m)
    BY DelThreadGood
<1>3. Good(n) /\ ~n.in_event /\ \A f \in Fields \ {"in_event"} : n[f] = m[f]
    BY <1>2, AcknowledgedFields
<1>4. ResumeApp(n)
    OBVIOUS
<1> HIDE DEF n
<1>5. /\ n.threads = m.threads /\ n.state = m.state /\ n.exited = m.exited
      /\ n.pending_status = m.pending_status /\ n.waiting_sigstop = m.waiting_sigstop
      /\ n.events = m.events /\ n.suspend_count = m.suspend_count
      /\ n.user_suspend = m.user_suspend /\ n.seen_threads = m.seen_threads
      /\ n.deleted_threads = m.deleted_threads /\ \A f \in FitFields : n[f] = m[f]
    BY <1>3 DEF Fields, FitFields
<1>6. /\ queue = {} /\ Hushed(dm, task) /\ (Ended(dm, cur) => dm.exited)
      /\ \A u \in Tids : Taken[u] = None
      /\ \A u \in dm.threads : task[u] = "gone" => dm.pending_status[u] \in Exits \/ Ended(dm, cur)
    BY IdleFacts
<1>7. ASSUME NEW Y, \A u \in Tids : Y[u] = None PROVE Fit(k, Y, task, wstat, sigs, child)
  <2>1. Fit(dm, Y, task, wstat, sigs, child)
    BY <1>6, <1>7, AgreeFacts DEF Fit
  <2> QED BY <1>1, <2>1, SameFit
<1>8. CASE m = k
  <2>1. ASSUME NEW Y, \A u \in Tids : Y[u] = None PROVE Fit(n, Y, task, wstat, sigs, child)
    <3>1. Fit(m, Y, task, wstat, sigs, child)
      BY <1>7, <1>8, <2>1
    <3> QED BY <1>5, <3>1, SameFit
  <2>2. Quiet(n) \/ Down(task)
    BY <1>1, <1>5, <1>6, <1>8 DEF Hushed, Quiet, IsRunning
  <2>3. Ended(n, cur) <=> Ended(dm, cur)
    BY <1>1, <1>5, <1>8 DEF Ended
  <2>4. /\ Ended(n, cur) => n.exited
        /\ \A u \in n.threads : task[u] = "gone" => n.pending_status[u] \in Exits \/ Ended(n, cur)
    BY <1>1, <1>5, <1>6, <1>8, <2>3
  <2> QED BY <1>3, <1>4, <1>6, <2>1, <2>2, <2>4, ResumeAppAgree
<1>9. CASE t \in dm.threads /\ dm.state[t] = "DEAD" /\ m = DelThread(k, t)
  <2>1. /\ m.threads = k.threads \ {t} /\ Deleted(m) \in SUBSET (Deleted(k) \cup {t})
        /\ \A u \in Tids : m.pending_status[u] = IF u = t THEN None ELSE k.pending_status[u]
        /\ \A f \in Fields \ {"threads", "pending_status", "npending_signals", "deleted_threads"} :
              m[f] = k[f]
    BY <1>9, DelThreadFields
  <2>2. /\ m.exited = k.exited /\ m.seen_threads = k.seen_threads /\ m.state = k.state
        /\ m.suspend_count = k.suspend_count /\ m.user_suspend = k.user_suspend
        /\ m.waiting_sigstop = k.waiting_sigstop /\ m.events = k.events
    BY <2>1 DEF Fields
  <2>3. task[t] \in {"zombie", "gone"} /\ (t = Main => Down(task))
    <3>1. Known(dm, None, task, wstat, sigs, t) /\ Entry(dm, None, task, t)
      BY <1>6, AgreeFacts, FitAt
    <3>2. ~Alive(task, t) /\ task[t] # "none"
      BY <1>9, <3>1, StatusFacts DEF Known, Entry
    <3>3. task[t] \in {"zombie", "gone"}
      BY <3>2, AgreeFacts DEF Alive
    <3>4. task[t] = "zombie" => Down(task)
      BY <1>9, <3>1 DEF Entry
    <3>5. task[Main] = "gone" => Down(task)
      BY AgreeFacts DEF Kernel, Down, Alive
    <3> QED BY <3>3, <3>4, <3>5
  <2>4. ASSUME NEW Y, \A u \in Tids : Y[u] = None PROVE Fit(n, Y, task, wstat, sigs, child)
    <3>1. Fit(k, Y, task, wstat, sigs, child) /\ t \in k.threads
      BY <1>1, <1>7, <1>9, <2>4
    <3>2. Fit(m, Y, task, wstat, sigs, child)
      BY <2>1, <2>2, <2>3, <3>1, AgreeFacts, RemoveFit
    <3> QED BY <1>5, <3>2, SameFit
  <2>5. \A u \in n.threads : u \in Tids /\ u \in dm.threads /\ n.pending_status[u] = dm.pending_status[u]
    BY <1>1, <1>5, <2>1, AgreeFacts
  <2>6. Quiet(n) \/ Down(task)
    BY <1>1, <1>5, <1>6, <2>2, <2>5 DEF Hushed, Quiet, IsRunning
  <2>7. Ended(n, cur) <=> Ended(dm, cur)
    BY <1>1, <1>5, <2>2 DEF Ended
  <2>8. /\ Ended(n, cur) => n.exited
        /\ \A u \in n.threads : task[u] = "gone" => n.pending_status[u] \in Exits \/ Ended(n, cur)
    BY <1>1, <1>5, <1>6, <2>2, <2>5, <2>7
  <2> QED BY <1>3, <1>4, <1>6, <2>4, <2>6, <2>8, ResumeAppAgree
<1> QED BY <1>8, <1>9

\* Nothing happens.
LEMMA StutterAgree ==
    ASSUME Agree, UNCHANGED vars
    PROVE  Agree'
<1>1. UNCHANGED <<dm, cur, pc, job, queue, failed>> /\ task' = task /\ wstat' = wstat
      /\ sigs' = sigs /\ child' = child
    BY DEF vars, kernel
<1>2. Taken' = Taken
    BY <1>1 DEF Taken
<1> QED BY <1>1, <1>2 DEF Agree, Hushed, Quiet, Reaped, Ended, Freezing, Birth, Asked

\* dbg_continue_after_event.
LEMMA ContinueAgree ==
    ASSUME IInv, Agree, ContinueAfterEvent
    PROVE  Agree'
<1> DEFINE t == cur.tid
           k == Signum(dm, t, None)
<1>0. t \in Tids /\ pc = "idle" /\ dm.in_event
    BY DEF ContinueAfterEvent, IInv, ServerTyped, Event
<1>1. PICK handled \in BOOLEAN :
        LET keeps == \/ cur.eid \in {"THREAD_START", "THREAD_EXIT", "LIBRARY_LOAD"}
                     \/ cur.eid = "EXCEPTION" /\ ~handled
            m1 == IF t \in dm.threads /\ ~keeps THEN k ELSE dm
            m2 == IF t \in dm.threads /\ dm.state[t] = "DEAD" THEN DelThread(m1, t) ELSE m1
        IN IF t \notin dm.threads /\ cur.eid # "THREAD_EXIT" /\ ~dm.exited
           THEN UNCHANGED vars
           ELSE ResumeApp(Acknowledged(m2))
    BY DEF ContinueAfterEvent, Signum, Acknowledged
<1>2. Good(k) /\ Good(dm)
    BY <1>0, AgreeFacts, FieldsGood DEF Signum
<1>3. \A f \in Fields \ {"child_signum"} : k[f] = dm[f]
    BY AgreeFacts DEF Good, Shaped, Fields, Signum
<1> HIDE DEF k, t
<1>4. CASE UNCHANGED vars
    BY <1>4, StutterAgree
<1>5. ASSUME NEW m1, m1 = k \/ m1 = dm, NEW m2,
             m2 = m1 \/ (t \in dm.threads /\ dm.state[t] = "DEAD" /\ m2 = DelThread(m1, t)),
             ResumeApp(Acknowledged(m2))
      PROVE  Agree'
  <2>1. Good(m1) /\ \A f \in Fields \ {"child_signum"} : m1[f] = dm[f]
    BY <1>2, <1>3, <1>5
  <2> QED BY <1>0, <1>5, <2>1, CloseAgree
<1> QED BY <1>1, <1>4, <1>5

-----------------------------------------------------------------------------
(* dbg_prepare_to_pause_process, and all steps *)

\* dbg_prepare_to_pause_process marks the first thread of the map and sends the
\* SIGSTOP to the process; the two are the same thread as long as thread ids do
\* not wrap around below that of the leader.
LeaderFirst == "pause" \in Client => \A t \in Tids : Main <= t

\* dbg_prepare_to_pause_process with events in the queue.
Paused(m) == [m EXCEPT !.may_run = FALSE, !.requested_to_suspend = TRUE]

\* The same without.
Awaits(m, t) == [m EXCEPT !.waiting_sigstop[t] = TRUE,
                          !.may_run = FALSE, !.requested_to_suspend = TRUE]

\* What they change.
LEMMA PausedFields ==
    ASSUME NEW m, Good(m), NEW t \in Tids
    PROVE  /\ \A f \in Fields \ {"may_run", "requested_to_suspend"} : Paused(m)[f] = m[f]
           /\ ~Paused(m).may_run
           /\ \A f \in Fields \ {"may_run", "requested_to_suspend", "waiting_sigstop"} : Awaits(m, t)[f] = m[f]
           /\ ~Awaits(m, t).may_run
           /\ Awaits(m, t).waiting_sigstop[t]
           /\ \A u \in Tids : u # t => Awaits(m, t).waiting_sigstop[u] = m.waiting_sigstop[u]
<1>1. \A f \in Fields \ {"may_run", "requested_to_suspend"} : Paused(m)[f] = m[f]
    BY DEF Good, Shaped, Fields, Paused
<1>2. /\ Awaits(m, t).waiting_sigstop = [m.waiting_sigstop EXCEPT ![t] = TRUE]
      /\ ~Awaits(m, t).may_run /\ ~Paused(m).may_run
      /\ \A f \in Fields \ {"may_run", "requested_to_suspend", "waiting_sigstop"} : Awaits(m, t)[f] = m[f]
    BY DEF Good, Shaped, Fields, Awaits, Paused
<1>3. m.waiting_sigstop \in [Tids -> BOOLEAN]
    BY DEF Good, Typed
<1> QED BY <1>1, <1>2, <1>3

\* A thread with a SIGSTOP to come is marked as awaited.
LEMMA AwaitFit ==
    ASSUME NEW m, Good(m), NEW X, NEW ta, NEW st, NEW sg, NEW ch, Fit(m, X, ta, st, sg, ch),
           NEW t \in Tids, Alive(ta, t) => "SIGSTOP" \in sg[t],
           NEW n, \A f \in FitFields \ {"waiting_sigstop"} : n[f] = m[f],
           n.waiting_sigstop[t],
           \A u \in Tids : u # t => n.waiting_sigstop[u] = m.waiting_sigstop[u]
    PROVE  Fit(n, X, ta, st, sg, ch)
<1>1. /\ n.threads = m.threads /\ n.state = m.state /\ n.suspend_count = m.suspend_count
      /\ n.user_suspend = m.user_suspend
      /\ n.pending_status = m.pending_status /\ n.deleted_threads = m.deleted_threads
      /\ n.seen_threads = m.seen_threads /\ n.exited = m.exited
    BY DEF FitFields
<1>2. ASSUME NEW u \in Tids PROVE Known(n, X[u], ta, st, sg, u)
  <2>1. Known(m, X[u], ta, st, sg, u)
    BY FitAt
  <2>2. CASE u = t
    BY <1>1, <2>1, <2>2 DEF Known
  <2> QED BY <1>1, <2>1, <2>2 DEF Known
<1>3. ASSUME NEW u \in Tids PROVE Entry(n, X[u], ta, u) /\ Unseen(n, ta, st, sg, u)
  <2>1. Entry(m, X[u], ta, u) /\ Unseen(m, ta, st, sg, u)
    BY FitAt
  <2>2. IsRunning(n, u) => IsRunning(m, u)
    BY <1>1 DEF IsRunning
  <2>3. Entry(n, X[u], ta, u)
    BY <1>1, <2>1, <2>2 DEF Entry
  <2> QED BY <1>1, <2>1, <2>3 DEF Unseen, Deleted
<1>4. Clones(n, ta, st, ch)
    BY <1>1 DEF Fit, Clones, OpenClone
<1> QED BY <1>1, <1>2, <1>3, <1>4 DEF Fit

\* dbg_prepare_to_pause_process.
LEMMA PauseAgree ==
    ASSUME LeaderFirst, IInv, Agree, PrepareToPause
    PROVE  Agree'
<1>1. /\ pc = "idle" /\ "pause" \in Client /\ UNCHANGED <<cur, pc, queue, failed, task, wstat, child>>
    BY DEF PrepareToPause
<1>2. PICK first \in dm.threads :
          /\ \A u \in dm.threads : first <= u
          /\ \/ dm' = Awaits(dm, first) /\ SendSigstop({Main})
             \/ dm' = Paused(dm) /\ UNCHANGED sigs
    BY DEF PrepareToPause, Awaits, Paused
<1>3. first \in Tids /\ first \in Nat /\ Main \in Nat /\ Main \in Tids
    BY AgreeFacts, TidsAssumption
<1>4. first = Main \/ Down(task)
  <2>1. Main \in dm.threads \/ Down(task)
    BY AgreeFacts DEF Fit
  <2>2. Main \in dm.threads => first <= Main /\ Main <= first
    BY <1>1, <1>2, <1>3 DEF LeaderFirst
  <2> QED BY <1>3, <2>1, <2>2
<1>5. /\ \A f \in Fields \ {"may_run", "requested_to_suspend", "waiting_sigstop"} : dm'[f] = dm[f]
      /\ ~dm'.may_run
    BY <1>2, <1>3, AgreeFacts, PausedFields
<1>6. /\ dm'.threads = dm.threads /\ dm'.events = dm.events /\ dm'.in_event = dm.in_event
      /\ dm'.exited = dm.exited /\ dm'.state = dm.state /\ dm'.pending_status = dm.pending_status
      /\ \A f \in FitFields \ {"waiting_sigstop"} : dm'[f] = dm[f]
    BY <1>5 DEF Fields, FitFields
<1>7. CASE dm' = Awaits(dm, first) /\ SendSigstop({Main})
  <2>1. /\ dm'.waiting_sigstop[first]
        /\ \A u \in Tids : u # first => dm'.waiting_sigstop[u] = dm.waiting_sigstop[u]
    BY <1>3, <1>7, AgreeFacts, PausedFields
  <2>2. \A u \in Tids : sigs'[u] = IF u = Main /\ Alive(task, u) THEN sigs[u] \cup {"SIGSTOP"} ELSE sigs[u]
    BY <1>7 DEF SendSigstop, Alive
  <2>3. ASSUME NEW Y, \A u \in Tids : Y[u] = None
        PROVE  Fit(dm, Y, task, wstat, sigs', child) /\ Kernel(task, wstat, sigs', child)
    <3>1. Fit(dm, Y, task, wstat, sigs, child)
      BY <1>1, <2>3, AgreeFacts, IdleFacts DEF Fit
    <3>2. CASE Alive(task, Main)
      <4>1. first = Main /\ Main \in dm.threads
        BY <1>2, <1>3, <1>4, <3>2 DEF Down
      <4>2. \A u \in Tids : sigs'[u] = IF u = Main THEN sigs[Main] \cup {"SIGSTOP"} ELSE sigs[u]
        BY <2>2, <3>2
      <4>3. Good(dm) /\ Kernel(task, wstat, sigs, child)
        BY AgreeFacts
      <4> DEFINE s == "SIGSTOP"
      <4>4. \A u \in Tids : sigs'[u] = IF u = Main THEN sigs[Main] \cup {s} ELSE sigs[u]
        BY <4>2
      <4> HIDE DEF s
      <4> QED BY <3>1, <3>2, <4>1, <4>3, <4>4, RaiseFit
    <3>3. CASE ~Alive(task, Main)
      <4>1. sigs' = sigs
        <5>1. sigs \in [Tids -> SUBSET (Signals \cup {"SIGSTOP"})]
          BY AgreeFacts DEF KernelTyped
        <5>2. sigs' = [u \in Tids |-> sigs[u]]
          BY <1>7, <3>3 DEF SendSigstop, Alive
        <5> QED BY <5>1, <5>2
      <4> QED BY <3>1, <4>1, AgreeFacts
    <3> QED BY <3>2, <3>3
  <2>4. Alive(task, first) => "SIGSTOP" \in sigs'[first]
    BY <1>3, <1>4, <2>2 DEF Down
  <2>5. (\A u \in Tids : Taken'[u] = None) => Fit(dm', Taken', task, wstat, sigs', child)
    BY <1>3, <1>6, <2>1, <2>3, <2>4, AgreeFacts, AwaitFit
  <2>6. Kernel(task, wstat, sigs', child)
    BY <1>1, <2>3, IdleFacts
  <2>7. \A u \in dm.threads : dm.waiting_sigstop[u] => dm'.waiting_sigstop[u]
    BY <2>1, AgreeFacts
  <2> QED BY <1>1, <1>5, <1>6, <2>5, <2>6, <2>7, IdleAgree
<1>8. CASE dm' = Paused(dm) /\ UNCHANGED sigs
  <2>1. dm'.waiting_sigstop = dm.waiting_sigstop
    BY <1>3, <1>8, AgreeFacts, PausedFields DEF Fields
  <2>2. \A f \in FitFields : dm'[f] = dm[f]
    BY <1>6, <2>1 DEF FitFields
  <2>3. ASSUME \A u \in Tids : Taken'[u] = None PROVE Fit(dm', Taken', task, wstat, sigs', child)
    <3>1. Fit(dm, Taken', task, wstat, sigs, child)
      BY <1>1, <2>3, AgreeFacts, IdleFacts DEF Fit
    <3> QED BY <1>8, <2>2, <3>1, SameFit
  <2>4. Kernel(task, wstat, sigs', child)
    BY <1>8, AgreeFacts
  <2> QED BY <1>1, <1>5, <1>6, <2>1, <2>3, <2>4, IdleAgree
<1> QED BY <1>2, <1>7, <1>8

\* The requests of the client.
LEMMA RequestAgree ==
    ASSUME LeaderFirst, IInv, Agree, Request
    PROVE  Agree'
<1>1. ASSUME AccessMemory PROVE Agree'
  <2>1. /\ pc = "idle" /\ ~dm.exited /\ StartFreeze(dm, Tids, Job("memory", Main))
        /\ SendSigstop(queue') /\ UNCHANGED <<cur, failed, task, wstat, child>>
    BY <1>1 DEF AccessMemory
  <2>2. Tids \in SUBSET Tids /\ Main \in Tids /\ "memory" \in {"memory", "suspend", "exit"}
    BY TidsAssumption
  <2> QED BY <2>1, <2>2, FreezeAgree
<1>2. ASSUME ExitProcess PROVE Agree'
  <2>1. /\ pc = "idle" /\ ~dm.exited /\ StartFreeze(dm, Tids, Job("exit", Main))
        /\ SendSigstop(queue') /\ UNCHANGED <<cur, failed, task, wstat, child>>
    BY <1>2 DEF ExitProcess
  <2>2. Tids \in SUBSET Tids /\ Main \in Tids /\ "exit" \in {"memory", "suspend", "exit"}
    BY TidsAssumption
  <2> QED BY <2>1, <2>2, FreezeAgree
<1>3. ASSUME NEW t \in Tids, ThreadSuspend(t) PROVE Agree'
  <2>1. /\ pc = "idle" /\ ~dm.exited /\ t \in dm.threads /\ StartFreeze(dm, {t}, Job("suspend", t))
        /\ SendSigstop(queue') /\ UNCHANGED <<cur, failed, task, wstat, child>>
    BY <1>3 DEF ThreadSuspend
  <2>2. {t} \in SUBSET Tids /\ "suspend" \in {"memory", "suspend", "exit"} /\ t \in {t}
    OBVIOUS
  <2> QED BY <2>1, <2>2, FreezeAgree
<1> QED BY <1>1, <1>2, <1>3, PauseAgree, ThreadContinueAgree, SetResumeModeAgree DEF Request

\* Every step keeps the agreement.
LEMMA NextAgree ==
    ASSUME LeaderFirst, IInv, Agree, [Next]_vars
    PROVE  Agree'
<1>1. CASE UNCHANGED vars \/ Over
    BY <1>1, StutterAgree DEF Over
<1>2. CASE GetDebugEvent
    BY <1>2, AskAgree
<1>3. CASE ContinueAfterEvent
    BY <1>3, ContinueAgree
<1>4. CASE Poll
    BY <1>4, PollAgree
<1>5. CASE Wait
    BY <1>5, WaitAgree
<1>6. CASE Finish
    BY <1>6, FinishAgree
<1>7. CASE Request
    BY <1>7, RequestAgree
<1>8. CASE Signal \/ Process
    BY <1>8, ProcessStepAgree
<1> QED BY <1>1, <1>2, <1>3, <1>4, <1>5, <1>6, <1>7, <1>8 DEF Next

-----------------------------------------------------------------------------
(* The properties of the table *)

\* So it is when a process has been started or attached to.
LEMMA InitAgree == Init => Agree
<1> SUFFICES ASSUME Init PROVE Agree
    OBVIOUS
<1>1. PICK events \in {<<Ev("PROCESS_START", Main)>>,
                       <<Ev("PROCESS_START", Main), Ev("PROCESS_ATTACH", Main)>>} :
        dm = Started(events)
    BY DEF Init
<1>2. /\ cur = Ev("PROCESS_START", Main) /\ pc = "idle" /\ queue = {} /\ failed = 0
      /\ \A t \in Tids : /\ task[t] = IF t = Main THEN "stop" ELSE "none"
                         /\ sigs[t] = {} /\ wstat[t] = None /\ child[t] = t
    BY DEF Init
<1>3. /\ dm.threads = {Main} /\ dm.seen_threads = {} /\ dm.deleted_threads = << >>
      /\ dm.events = events /\ ~dm.may_run /\ ~dm.in_event /\ ~dm.exited
      /\ \A t \in Tids : /\ dm.state[t] = "STOPPED" /\ dm.pending_status[t] = None
                         /\ ~dm.waiting_sigstop[t]
    BY <1>1 DEF Started, NoProcess
<1> HIDE DEF Init
<1>4. Deleted(dm) = {}
    BY <1>3 DEF Deleted
<1>5. \A t \in Tids : Taken[t] = None
    BY <1>2 DEF Taken
<1>6. Main \in Tids
    BY TidsAssumption
<1>7. Kernel(task, wstat, sigs, child)
    BY <1>2, <1>6, StatusFacts DEF Kernel, Alive
<1>8. Fit(dm, Taken, task, wstat, sigs, child)
  <2>1. ASSUME NEW t \in Tids
        PROVE  /\ Known(dm, Taken[t], task, wstat, sigs, t)
               /\ Entry(dm, Taken[t], task, t) /\ Unseen(dm, task, wstat, sigs, t)
    <3>1. Known(dm, Taken[t], task, wstat, sigs, t)
      BY <1>2, <1>3, <1>5 DEF Known
    <3>2. Entry(dm, Taken[t], task, t)
      BY <1>2, <1>3, <1>5, StatusFacts DEF Entry, IsRunning
    <3>3. Unseen(dm, task, wstat, sigs, t)
      BY <1>2, <1>3, <1>4 DEF Unseen, Alive
    <3> QED BY <3>1, <3>2, <3>3
  <2>2. Clones(dm, task, wstat, child)
    <3>1. \A p \in Tids : ~OpenClone(dm, task, wstat, p)
      BY <1>2, <1>3, StatusFacts DEF OpenClone
    <3> QED BY <1>2, <1>3, <3>1 DEF Clones, Alive
  <2> QED BY <1>3, <2>1, <2>2 DEF Fit
<1>9. Hushed(dm, task) /\ Reaped(dm, Taken, task, cur)
  <2>1. Quiet(dm)
    BY <1>3, <1>6 DEF Quiet, IsRunning
  <2>2. Reaped(dm, Taken, task, cur)
    BY <1>2, <1>3, <1>6 DEF Reaped
  <2> QED BY <1>3, <2>1, <2>2 DEF Hushed
<1>10. ~Ended(dm, cur)
  <2>1. /\ Ev("PROCESS_START", Main).eid # "PROCESS_EXIT"
        /\ Ev("PROCESS_ATTACH", Main).eid # "PROCESS_EXIT"
    BY DEF Ev, SignalEv
  <2>2. CASE events = <<Ev("PROCESS_START", Main)>>
    <3>1. \A i \in 1 .. Len(events) : events[i] = Ev("PROCESS_START", Main)
      BY <2>2
    <3> QED BY <1>2, <1>3, <2>1, <3>1 DEF Ended
  <2>3. CASE events = <<Ev("PROCESS_START", Main), Ev("PROCESS_ATTACH", Main)>>
    <3>1. \A i \in 1 .. Len(events) :
              events[i] = Ev("PROCESS_START", Main) \/ events[i] = Ev("PROCESS_ATTACH", Main)
      BY <2>3
    <3> QED BY <1>2, <1>3, <2>1, <3>1 DEF Ended
  <2> QED BY <2>2, <2>3
<1> QED BY <1>2, <1>7, <1>8, <1>9, <1>10 DEF Agree, Freezing, Birth, Asked

\* The table of threads agrees with the kernel in every reachable state, for any
\* number of threads and signals, whatever the client asks and the process does.
THEOREM Agreement == ASSUME LeaderFirst PROVE Spec => [](IInv /\ Agree)
<1>1. Init => IInv /\ Agree
    BY InitIInv, InitAgree
<1>2. (IInv /\ Agree) /\ [Next]_vars => (IInv /\ Agree)'
    BY NextIInv, NextAgree
<1> QED BY <1>1, <1>2, PTL DEF Spec

\* What a thread that get_debug_event took a status from looks like.
LEMMA TakenFacts ==
    ASSUME IInv, Agree, pc # "newborn", NEW t \in Tids, Taken[t] # None
    PROVE  Down(task) \/ (dm.state[t] = "STOPPED" /\ (Taken[t] \in Exits => task[t] = "gone"))
<1>1. pc \in {"freeze", "halt"} /\ job.for = "event" /\ job.tid = t /\ Taken[t] = job.status
    BY DEF Taken
<1>2. CASE pc = "halt"
    BY <1>2 DEF Agree
<1>3. CASE pc = "freeze"
    BY <1>1, <1>3, AgreeFacts DEF Freezing
<1> QED BY <1>1, <1>2, <1>3

\* No thread the server believes to run has been reaped or stopped without a
\* status to tell it, none it believes to be stopped runs, and a new task that
\* stopped too early is remembered (linux_debmod.cpp, store_pending_signal).
THEOREM AgreeNoThreadLeftBehind == IInv /\ Agree => NoThreadLeftBehind
<1> SUFFICES ASSUME IInv, Agree, ~dm.exited, pc # "newborn", NEW t \in Tids
             PROVE  /\ t \in dm.threads /\ IsRunning(dm, t) => task[t] = "run" \/ wstat[t] # None
                    /\ t \in dm.threads /\ dm.state[t] = "STOPPED"
                         => task[t] # "run" \/ dm.waiting_sigstop[t]
                    /\ task[t] = "stop" /\ t \notin dm.threads
                         => wstat[t] # None \/ t \in dm.seen_threads
    BY DEF NoThreadLeftBehind
<1>1. /\ Known(dm, Taken[t], task, wstat, sigs, t) /\ Entry(dm, Taken[t], task, t)
      /\ Unseen(dm, task, wstat, sigs, t)
    BY AgreeFacts, FitAt
<1>2. /\ task[t] \in {"none", "run", "stop", "zombie", "gone"}
      /\ task[t] = "zombie" => wstat[t] # None
    BY AgreeFacts, StatusFacts DEF Kernel
<1>3. Taken[t] # None => ~Alive(task, t) \/ (dm.state[t] = "STOPPED" /\ (Taken[t] \in Exits => task[t] = "gone"))
    BY TakenFacts DEF Down
<1>4. ASSUME t \in dm.threads, IsRunning(dm, t) PROVE task[t] = "run" \/ wstat[t] # None
  <2>1. dm.state[t] = "RUNNING" /\ dm.pending_status[t] = None
    BY <1>4 DEF IsRunning
  <2>2. Alive(task, t) => Taken[t] = None
    BY <1>3, <2>1
  <2>3. Alive(task, t) => task[t] = "run" \/ wstat[t] # None
    BY <1>1, <1>4, <2>1, <2>2, StatusFacts DEF Known, Alive
  <2>4. task[t] # "none"
    BY <1>1, <1>4 DEF Entry
  <2>5. task[t] # "gone"
    <3>1. pc # "halt" => Reaped(dm, Taken, task, cur) /\ ~Ended(dm, cur)
      BY DEF Agree
    <3>2. CASE pc = "halt"
      BY <1>4, <3>2 DEF Agree
    <3>3. CASE pc # "halt"
      <4>1. Taken[t] \notin Exits
        <5>1. SUFFICES ASSUME Taken[t] \in Exits PROVE FALSE
          OBVIOUS
        <5>2. pc = "freeze" /\ job.for = "event" /\ job.tid = t
          BY <3>3, <5>1, StatusFacts DEF Taken
        <5> QED BY <2>1, <5>2, AgreeFacts DEF Freezing
      <4> QED BY <1>4, <2>1, <3>1, <3>3, <4>1, StatusFacts DEF Reaped
    <3> QED BY <3>2, <3>3
  <2> QED BY <1>2, <2>3, <2>4, <2>5 DEF Alive
<1>5. ASSUME t \in dm.threads, dm.state[t] = "STOPPED", task[t] = "run" PROVE FALSE
  <2>1. Taken[t] \notin Exits
    BY <1>3, <1>5, StatusFacts DEF Alive
  <2> QED BY <1>1, <1>5, <2>1 DEF Known, Alive
<1>6. ASSUME task[t] = "stop", t \notin dm.threads PROVE wstat[t] # None \/ t \in dm.seen_threads
    BY <1>1, <1>6 DEF Unseen, Alive, None
<1> QED BY <1>4, <1>5, <1>6

\* A task that runs in user mode runs for the server too.
LEMMA UserModeRuns ==
    ASSUME IInv, Agree, pc = "idle", NEW t \in Tids, InUserMode(t)
    PROVE  t \in dm.threads /\ IsRunning(dm, t) /\ ~Down(task)
<1>1. Taken[t] = None /\ task[t] = "run" /\ sigs[t] = {}
    BY IdleFacts DEF InUserMode
<1> QED BY <1>1, AgreeFacts, StatusFacts, UserMode DEF Down, Alive

\* While the client holds an event nothing of the process executes: a running
\* entry would contradict Hushed, and a task in user mode has such an entry.
THEOREM AgreeEventMeansSuspended == IInv /\ Agree => EventMeansSuspended
<1> SUFFICES ASSUME IInv, Agree, pc = "idle", dm.in_event, NEW t \in Tids, InUserMode(t)
             PROVE  FALSE
    BY DEF EventMeansSuspended
<1> QED BY UserModeRuns, IdleFacts DEF Hushed, Quiet

\* A thread the user suspended does not execute: dbg_thaw_threads skips it, and
\* the invariant knows no other way to start a thread.
THEOREM AgreeUserSuspended == IInv /\ Agree => UserSuspended
<1> SUFFICES ASSUME IInv, Agree, pc = "idle", ~dm.exited, NEW t \in dm.threads,
                    dm.user_suspend[t] > 0, InUserMode(t)
             PROVE  FALSE
    BY DEF UserSuspended
<1>1. t \in Tids
    BY AgreeFacts
<1>2. Entry(dm, Taken[t], task, t)
    BY <1>1, AgreeFacts, FitAt
<1> QED BY <1>1, <1>2, UserModeRuns DEF Entry

\* No thread is left behind, in any instance (NoThreadLeftBehind).
THEOREM ThreadsKept == ASSUME LeaderFirst PROVE Spec => []NoThreadLeftBehind
BY Agreement, AgreeNoThreadLeftBehind, PTL

\* The client sees a suspended process, in any instance (EventMeansSuspended).
THEOREM EventsSuspend == ASSUME LeaderFirst PROVE Spec => []EventMeansSuspended
BY Agreement, AgreeEventMeansSuspended, PTL

\* The user's suspensions hold, in any instance (UserSuspended).
THEOREM SuspensionHolds == ASSUME LeaderFirst PROVE Spec => []UserSuspended
BY Agreement, AgreeUserSuspended, PTL
=============================================================================
