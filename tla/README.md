# Verification of the Android debug server

This directory holds TLA+ models of the programs in `src/`, the TLC
configurations that check them and the TLAPS proofs about them. Nearly all of
the state and concurrency of the repository is in one program, the Android
debug server (`src/android_server6.8-src/jni`, below `jni/`), a remote debugger
for IDA built on ptrace. The other directories are small Windows tools, notes and
third-party binaries.

## 1. The system

### Parts of the debug server

| part | source | state | operations |
|---|---|---|---|
| accept loop and sessions | `server.cpp`, `rpc_server.cpp:87-118,251-289` | `clients_list`, `keep_broken_connections`, one `rpc_server_t` with one `debmod_t` per session | accept, login, end of a session, sleep, adoption, shutdown by signal |
| RPC engine | `rpc_engine.cpp`, `rpc_server.cpp` | `poll_debug_events`, `has_pending_event`, `network_error_code`, the C++ stack of nested `process_request` calls | `process_request`, `perform_request`, `poll_events`, callbacks to the client |
| thread and signal engine | `linux_debmod.cpp`, `linux_threads.cpp` | thread table, stored wait statuses, `npending_signals`, suspend counters, event queue, `in_event`, `exited` | `dbg_get_debug_event`, `dbg_continue_after_event`, suspend, continue, pause, exit, memory access (which freezes the process) |
| breakpoints | `debmod.cpp:1032-1178`, `linux_debmod.cpp:2121-2228`, `pc_debmod.cpp` | `bpts`, `removed_bpts`, `page_bpts`, debug registers | update, add, delete, restore after a broken connection |
| appcall | `debmod.cpp:400-815` | stack of call contexts per thread, saved registers | `dbg_appcall`, `dbg_cleanup_appcall` |
| library events | `linux_debmod.cpp:2770-2855` | list of modules, pending names | `handle_dll_movements` |
| remote files | `rpc_server.cpp:636-717` | 16 channels | open, read, write, close |
| packing | `rpc_hlp.cpp` | none | variable-length integers, address deltas |
| transport, ELF reader, support library | `tcpip.cpp`, `ldr/elf`, `kernwin.cpp`, `diskio.cpp`, `prodir.cpp`, `fpro.cpp`, `pro.cpp` | file and socket handles | sequential input and output |

How they interact: the accept loop creates an `rpc_server_t` and its
`linux_debmod_t` for each connection and handles the session to its end in the
same thread (`__SINGLE_THREADED_SERVER__`, `server.h:55`). The RPC engine calls
the debugger module for every request; the module calls back through `rpc`
(messages, names, events of an appcall), which nests another `process_request`.
`waitpid(-1)` returns statuses of every traced process, so `for_all_debuggers`
passes the statuses of other sessions to their owners.

What is hard here: statuses arrive in any order and for any thread, while the
server waits for a particular one; a freeze must wait for the SIGSTOPs it sent
while other signals come in; requests nest on both sides of the stream; the
connection may break at every point; a broken session is kept and taken up later;
a signal handler ends the server at any moment.

Other directories: `unlocker` (program, hook library, assistant, driver),
`RotateDisp` (window, mouse hook), `专用地址转换器` (address conversions),
`AltStreamDump`, `memuse`, `njubrass` (dial-up client), `千千静听屏蔽广告` (hosts
file), `su`: small programs, each with a module of its own (below). `Q管驱动分析` is a
table of bytes with a straight-line main, `调试笔记` are notes; neither is modelled.

### What makes each part correct

* Thread and signal engine: no wait status is lost or hidden; every SIGSTOP
  sent is accounted for; while the client holds an event nothing runs; when it
  resumes nothing stays stopped without a reason; the end of the process is
  reported.
* RPC session: calls and answers match on both sides; events reach the client
  exactly once and in order; polling never happens inside a request and is never
  lost; a broken connection unwinds every level.
* Sessions: every traced process has exactly one session that can reach it; a
  sleeping session keeps its process and its statuses; nobody works with a
  deleted object; nothing is left running when the server ends.
* Breakpoints: process memory holds exactly the breakpoints of the table, and the
  saved bytes are the original ones.
* Appcalls: contexts of a thread nest, each cleanup gives back the registers of its
  own call, a call writes below whatever it interrupted.
* Libraries: known to the client before a breakpoint in them is; announced once;
  their names are the ones the file exports, at the right address.
* Remote files: a handle of the client is a stream of its session, complete when closed.
* Packing: what is packed is read as it was written, and nothing behind the packet is.
* Containers: every element is made and destroyed once, however elements are moved; a
  register value owns its bytes.
* Unlocker: nothing is deleted, moved or closed but what was asked for; what is
  reported deleted is gone, at the latest after a restart; driver and hook are taken out.
* The other tools: their fields, files and screens agree with what the user asked for last.

## 2. Modules

The debug server:

| module | models | main correspondence |
|---|---|---|
| `DebugThreads` | thread and signal engine of one process, with the kernel and a client | record `dm` = `linux_debmod_t`; `task`, `sigs`, `wstat`, `stopsig`, `child` = the kernel; `job` and `pc` = the blocking call in progress |
| `DebugThreads_proofs`, `DebugThreads_safety` | theorems about it and `Detaching` (section 4) | |
| `Detaching` | `dbg_detach_process` over the thread engine, which it extends | `cleanup_signals`, then PTRACE_DETACH of each thread |
| `EventDelivery` | abstract: what the protocol promises about events | |
| `RpcSession` | one session over TCP, refines `EventDelivery` | record `srv` = `rpc_server_t` and its C++ stack (`frames`); `cl` = the client |
| `RpcSession_proofs` | theorems about it: the invariant, the steps of the server and of the client, the properties and the refinement | |
| `Sessions` | accept loop, life of sessions and debugger instances | `sv`, `dm` = the objects; `list` = `clients_list` |
| `Sessions_proofs` | theorems about it | |
| `Program` | abstract: threads execute the program's own instructions | |
| `Breakpoints` | software breakpoints on x86, ARM and Thumb, two threads, broken connections; implements `Program` | memory as halfwords or bytes; `bpts`, `removed_bpts` |
| `Breakpoints_proofs` | theorems about `Breakpoints` and `HwBpts` | |
| `HwBpts` | hardware breakpoints | `hwbpt_ea`, `hwbpt_type`, `dr6`, `dr7` and the registers of each thread |
| `Appcall`, `Registers` | call contexts, stack and control breakpoint; register blocks of the kernel | `appcalls[tid]`; `saved_regs` |
| `DllEvents` | `handle_dll_movements` against a map that changes | `dlls`, `dlls_to_import`, event queue |
| `ElfReader` | `reader_t` and `symelf.cpp` on abstract files, well-formed or cut short; the names sent; the libraries tried | static `imagebase` |
| `ElfInput`, `ElfSymbols` | `buffered_input_t` with a small buffer, relocations widened in place; which functions are Thumb, and the cache of symbols | words with their byte order; `isa_ranges`, `storage`, `dynsym_index` |
| `ProcessList` | `/proc` read while processes come and go | `qfindfirst64`, `psname_cache` |
| `Tracefork` | `linux_test_for_tracefork` with the processes of the kernel | |
| `Listening` | `main` up to `accept`, the client's side of `tcpip.cpp` | |
| `Packing`, `Codec` | packed integers byte by byte; structures and tables of names, with packets as tokens | `kernwin.cpp`, `rpc_hlp.cpp` |
| `RemoteFiles` | the channels over streams that fail | `channels[]` |
| `Requests_proofs` | theorems about `Appcall` and `RemoteFiles` | |
| `Qvector`, `Qstring`, `Qlist` | containers over raw memory, against the sequence a caller thinks of | `promised` is that sequence |
| `RegVals` | register values, which hold a number or own a vector of bytes | `regval_t` |

The other programs:

| module | models |
|---|---|
| `UnlockerFiles` | delete, move and rename with links, long paths, files held by others, and the next start of Windows |
| `Unlocker` | command line, driver, search, unlocking and killing, the operation, round after round |
| `LockedDialog` | the list, its sorting and icons, the layout of the dialog and the file with its place and columns |
| `UnlockerHook` | the assistant, the library in front of `SHFileOperationW`, explorers that start and end |
| `RotateDisp` | hot keys, timer, display modes, the library that turns mouse moves; its theorem |
| `Addresses` | five fields with one address |
| `AltStreams` | the search while files come and go |
| `Njubrass`, `NjubrassNet` | what is remembered between runs; one connection, call by call |
| `MemUse`, `RemoveAdd`, `Su` | figures and menu; the hosts file; users, groups and identity |

`MCServer` and `MCPrograms` put many parts into one run each: the variable `part` is
chosen in the initial state, `Next` is a step of that part, and the variables of the
others stay 0. A property of such a run is a conjunction `part = "x" => X!P` over
the parts it is about; the parts do not interact there, so the reachable states are the
sum of the parts' and not their product. Each part keeps its specification and its named
properties and can be checked alone. The parts with theorems (`Breakpoints`, `HwBpts`,
`Appcall`, `RemoteFiles`; `RotateDisp`) are extended by `MCServer` and `MCPrograms`, with
their constants in `Server.cfg` and `Programs.cfg`, so that the definitions a run checks
are the ones a theorem is about and TLC evaluates their assumptions; the others are
instances.

`PROJECT.json` maps definitions to source lines. A helper of one or two lines has no entry
of its own where another definition of its module stands for the same lines.

In all modules a member function that only changes an object is an operator on a
record, and a request is an action, cut where the code blocks. Operators with
the comment "Seeded bug" are not part of the model; each is a plausible mistake
in the definition that follows it and shows that a property notices it.

### DebugThreads

`GetDebugEvent`, `ContinueAfterEvent`, thread suspend and continue, pause,
memory requests and `ExitProcess` are the requests. `check_for_signal` is the
place where the code blocks; the actions on `job` continue there. A memory
request freezes the process first (`dbg_freeze_threads`) and thaws it
afterwards. Points to know:

* The kernel half: a thread runs, is stopped with a status nobody has collected,
  is stopped, or is a zombie; a signal is delivered to a running thread; a clone
  stop of the parent and the SIGSTOP of the new thread come in any order.
* `QwaitStub` = TRUE is the `qwait_timed` of this tree (`pro.cpp:97`), which returns 0 at
  once; with it no status is ever reported. The runs use FALSE, the function the
  callers expect.
* The client suspends and continues threads at any time between two calls
  (`idd.hpp:856` sets no condition), asks for an event only when it holds none,
  and sets a resume mode only while it holds one.
* A kill takes all tasks down in one step, so the new thread cannot be gone while
  its parent still waits to be handled: `INTERR 1200` is in `NewbornStatus` and is
  never reached.
* A failed assertion is recorded in `failed` and ends the behaviour, although
  `interr` of this tree (`fpro.cpp:11`) returns.
* `process_handle` 0 stands for `INVALID_HANDLE_VALUE`.
* A second pause, or a pause while a SIGSTOP is still owed, makes a stray SIGSTOP
  exception (`waiting_sigstop` is a Boolean); `SigstopsAccounted` is therefore checked
  with a client that suspends and does not pause.
* Left out: library, birth and death breakpoints and the state DYING, low-level
  conditions (`ENABLE_LOWCNDS` is not defined) and ESRCH inside a freeze.
  Breakpoints are in `Breakpoints`, detaching in `Detaching`.

### RpcSession

`ServerPerforms` is `perform_request` with the send of its reply;
`ServerAnswered` and `ServerUnwinds` are the two ways a nested `process_request`
returns; `ServerPolls` is the polling branch of `recv_all`; `AppcallEvent` and
`AppcallTimeout` are the event loop of `dbg_appcall`. Any request, and a poll,
may first send a message to the user (`dmsg`), which nests. Sends succeed, fail
or vanish once the connection is down. The client is not part of the repository:
it asks for an event when it has none, waits for `RPC_EVENT` after an empty answer
(`ClientPolls`), resumes, and answers callbacks; a message is only shown, the other
callbacks may ask for more. Packets are whole (fragments of a header are a hazard
without a property), and requests that only call the module and reply are
`OTHER`. A timed-out appcall pauses the process once; the code does so in every
turn of the loop.

Observed and not stated as a property: when the client closes with `RPC_OK` while
the server waits for the answer to a message of `poll_events`, that packet is taken
for the answer, and the session ends as broken.

### Sessions

`Accept` to `CloseSession` follow `main` and `handle_single_session`; `Adopt` and `Refused`
are the two outcomes of `check_broken_connection` for a session that remembers the
process. The debugger instance is a `linux_debmod_t`, the only one this server creates:
its `dbg_continue_broken_connection` resets `broken_connection` itself
(`linux_debmod.cpp:3093`), so that the old server, deleted next, deletes the instance just
taken over (run `sessions_adoption`). What the other sessions keep through that is checked in
`sessions_kept`; the current one goes on with a deleted object until its client leaves or
is followed no further (`Crash`), and the process of that instance is `Lost`. A status is
collected by the current session, whoever owns the process; `FindOwner` is
`for_all_debuggers`. A process left behind by the server is `wild`.
A status stored for a sleeping session is never taken: that would follow an adoption, which
has deleted it. `Debmod(s).pid` is stale after a detach, and `Adopt` then takes up a process
that nobody traces (the code does not call PTRACE_ATTACH). Not modelled: the
back pointer `debmod_t::rpc`; what a server does between its first use of freed memory and
its end; reuse of pids; memory.

## 3. Runs

| run | question | bounds |
|---|---|---|
| `threads_suspend` | the table, the stored signals and the SIGSTOPs stay consistent while the user suspends threads and reads memory | 2 threads, 3 happenings |
| `threads_three` | three threads, pause and single step, a full `deleted_threads` list, masked signals, library events, SIGKILL from outside: nothing is lost or forgotten | 3 threads, 3 happenings, list of 1 |
| `threads_exit` | freezes end, the exit is reported, stored signals are taken (liveness) | 2 threads, 3 happenings |
| `threads_detach` | a detach releases every task, none with a SIGSTOP to come, and ends (liveness) | 3 threads, 3 happenings |
| `threads_reinjected` | violated: `SignalSentOnce` | 1 thread |
| `rpc_session` | nesting, polling, delivery of events, refinement of `EventDelivery`, end of a session | 3 events, 3 extra requests, 2 messages, 2 packets of names |
| `sessions_kept` | ownership of processes and statuses over several sessions, with and without -k, up to and after an adoption | 4 sessions, 2 processes |
| `sessions_adoption` | violated: `DebuggersAlive` | 2 sessions, 1 process |
| `server` | the other parts of the server (`MCServer`) | per part, in `Server.cfg` or the INSTANCE of the part |
| `wire_addresses` | violated: `AddressesArrive` | one field |
| `hook_restored` | violated: `OriginalRestored` | 2 explorers |
| `programs` | the other programs (`MCPrograms`) | per part, in the INSTANCE of the part |

What the properties of `server` say: `BreakpointsKept`, `RestoresExactly` (what a
session that ends gives back), `RunsUndisturbed` (the refinement of `Program`),
`HardwareBreakpointsHold`, `AppcallsNest`,
`LibrariesKnown`, `StartsRight` (listening, listing of processes, test for traced
forks), `PacketsArrive`, `FilesAreKept`, `NamesAreRight`, `DataTypesHold`
(containers and register values), and the action property `StepsAreExact`. Of
`programs`: `UnlockerHolds`, `ScreensFollow`, `ToolsHold`. The comment above each
names the code; the conjuncts are stated, with their own comments, in the modules of
the parts.

Why the bounds are enough: the races of the thread engine are between the thread
an operation waits for, another one and a newborn one, hence two and three
threads; three or four happenings suffice for a signal during a freeze, a
second one behind it and an exit. In the session a poll, a request that crosses it, the
message of a third call and a nested request of a callback fit in three extra
requests and two messages. Four sessions allow two that sleep, one that takes
one of them up and one that fails; two processes allow a status of the other one. In the
parts: two threads and three changes for breakpoints (one to be added, removed and
added again while the other thread stands on it); two nested calls for every
alignment of the stack; three events for libraries that come, go and come back;
two packed fields, so that a field read too short is seen in the next one, and each
length of a field on both sides of its boundaries; two channels and six requests;
files cut after every record; vectors and lists of three elements, whose capacity
is exceeded once and given back; the smallest
disks, folders and texts that have a link, a name that is too long, and every
length modulo four. Every counter a bound stops is named in the CONSTANTS of its
module. Deadlock is checked except where a bound or the end of the program
stops the system (`Sessions`, the parts); in `RpcSession` the action
`Terminated` names the states in which nothing is left to do.

### What the violated runs show

1. `threads_reinjected`: a signal delivered with PTRACE_CONT stays in
   `child_signum` and is delivered again by the thaw after the next freeze.
2. `sessions_adoption`: `broken_connection` is reset before the old server is
   deleted, so its destructor deletes the instance just taken over.
3. `wire_addresses`: the forms of four and five bytes of a packed integer are
   never recognised (`kernwin.cpp:139`: a number from 0 to 192 is compared with -64),
   so an address from 0x3FFF on, BADADDR among them, is read as its first two
   bytes.
4. `hook_restored`: when the memory of the saved head cannot be made executable, the
   Unlocker's library stays loaded with the address of `SHFileOperationW` noted and nothing
   saved; its end writes five zeros over the function.

### Fairness

`DebugThreads`: weak fairness on the steps of the server thread (a loop that can
go on does), strong fairness on `GetDebugEvent` and `ContinueAfterEvent`
(`idd.hpp:814`: the kernel calls `get_debug_event` regularly), weak fairness on
the delivery of signals by the kernel. `RpcSession`: weak fairness on the server
thread, on the client's reading, answering and asking, and on the user who
resumes in the end; none on new events, on extra requests or on the loss of the
connection. The end of an appcall without a timeout is not guaranteed: the
server then watches only the process (`SessionEnds` says so). `Detaching` adds weak
fairness on its own steps of the server thread. `Sessions` and the parts of `MCServer`
and `MCPrograms` state no liveness.

## 4. Theorems

The three modules with a state of several actors, `DebugThreads` (with `Detaching`),
`RpcSession` and `Sessions`, and of the parts of `MCServer` and `MCPrograms` the breakpoints,
the calls, the files and the screen, have proofs for every value of their constants. All safety properties the runs
check of them are proved, and so are the refinements of `EventDelivery` and `Program`. The
general assumptions are the named ASSUMEs of the modules, which
TLC evaluates in each run; what a theorem assumes beyond them stands in its
statement and is explained below. Each invariant was checked by TLC on small
instances before it was proved. The proof modules cite no fact that is not
proved there or in the library.

### DebugThreads

| theorem | property | assumes |
|---|---|---|
| `TypeCorrect` | `TypeOK` | |
| `NoSignalHidden` | `PendingNeverHidden` | |
| `Agreement` | `IInv /\ Agree`: the table agrees with the kernel | `LeaderFirst` |
| `ThreadsKept` | `NoThreadLeftBehind` | `LeaderFirst` |
| `EventsSuspend` | `EventMeansSuspended` | `LeaderFirst` |
| `SuspensionHolds` | `UserSuspended` | `LeaderFirst` |
| `AssertionsHold` | `NoInterr` | `LeaderFirst`, no SIGKILL from outside |
| `SigstopsHold` | `SigstopsAccounted` | a client that does not pause |
| `FreezesReleased` | `FreezeReleased` | `LeaderFirst`, `MaxUser <= 1` or no suspends |
| `NobodyLeft` | `NobodyForgotten` | `LeaderFirst`, no suspends |
| `ReleasesClean` | `CleanRelease` of `Detaching` | a client that does not pause |

`IInv` is `Good(dm)` with the types of the server's and the kernel's variables. `Good`
says that the record has its shape (`Shaped`), its fields have their types (`Typed`), no
status is stored for a thread that is not in the table (`Ghostless`), and the counter
is at least the number of stored statuses (`Counted`). `PendingNeverHidden` is not
inductive by itself: a step that takes or deletes one status lowers the counter by
one and must not end below the number of the others, and `del_thread` lowers it
only for a thread whose flag is set, so a status outside the table would break the
count.

`Agree` says, at each place where the server can block, how `threads` and the
kernel's tasks fit together, a status the server has collected and not yet
handled (`Taken`) included:

* `Kernel`: the kernel's own tables; a running task has no status to tell;
* `Fit`: each entry against its task (`Known`: a stopped entry belongs to a stopped
  task without a status, a running one to a task that runs or has a status; it
  waits for a SIGSTOP exactly when there is one to come; `Entry`: it is suspended as
  often as it is frozen), and each task without an entry (`Unseen`: it has yet
  to stop, or has stopped and is in `seen_threads`; `Clones`: the clone event of its
  parent is still to come, and of one parent only);
* `Hushed`: while the client holds an event no entry runs;
* `Reaped`: a task that is gone keeps its entry only while its exit is told;
* `Freezing`: whom `dbg_freeze_threads` waits for, that each of them has a status to
  come, and what happens to the others meanwhile;
* `Birth`, `Asked`, `Ended`: a new thread between clone event and SIGSTOP, a pause, and
  the end of the process.

No part is inductive alone: that a freeze ends with all threads stopped needs `Known`
for those it waits for, `Known` after a clone needs `Clones` and `Unseen`, and those need
`Hushed` and `Freezing` for the moments in which a thread may clone at all. There is one
lemma for each operator on the record, one for each action, and one for each clause an
action can disturb; the three properties follow from `Agree` alone.

The others have invariants of their own beside `Agree`. `Unbroken`: no assertion has
failed, and a thread died of a signal only if the process has exited (which QASSERT
30185 relies on). `Accounts`: each SIGSTOP of the debugger, to be delivered, reported or
in the server's hands, belongs to an entry with `waiting_sigstop`, and there is one at
most, so none is stored or becomes an event. `Balanced`: `suspend_count` of an entry is at
most the user's suspension plus one for an event plus one for the request
whose freeze goes on. `Roused`: a thread found dead by a thaw has its exit in the queue
(`Announced`), and between events every entry is RUNNING (`Resumed`); a thaw really
starts each thread because its count is one (`Balanced`) and the first zombie, which
would end the loop, contradicts `Between`. The first thread of a set of ids exists because
the set is finite (`FirstTid`). For a detach, `Lonely` says that a stopped task with a
signal of the application still to take has no SIGSTOP to take as well; with `Agree` and
`Accounts` this is what `cleanup_signals` needs (`Cleaning`): each thread it continues
has one thing to take, the SIGSTOP, before it runs any code.

Why the hypotheses:

* `LeaderFirst` holds of every client without "pause". `dbg_prepare_to_pause_process`
  sends its SIGSTOP to the process and marks the first thread of the map; the kernel
  delivers it to the leader in the model, which is the same thread unless thread ids
  have wrapped below the leader's. If they have, the marked thread waits for a SIGSTOP
  that another one gets, and `Agree` is false.
* With "pause", a second SIGSTOP may be sent while one is owed, `waiting_sigstop` is a
  Boolean, and the client sees a stray SIGSTOP: `SigstopsAccounted` and `CleanRelease` are
  then false (a pause asked for while an event is held, and then a detach, leave the
  process a SIGSTOP behind a signal of the application).
* With two suspensions of a thread `FreezeReleased` is false: `dbg_thread_continue`
  thaws once where `dbg_thread_suspend` has frozen twice. With a client that suspends,
  `NobodyForgotten` is false (section 5).
* A SIGKILL from outside makes QASSERT 30185 fail (section 5).

### RpcSession

| theorem | property |
|---|---|
| `TypesHold` | the types, whatever the client does |
| `AlwaysIInv` | the inductive invariant |
| `NeverPollsWhilePerforming` | `NoPollWhilePerforming` |
| `AnswersMatchCalls` | `RepliesMatch` |
| `NeverBothWait` | `NoMutualWait` |
| `EventsDelivered` | `DeliversEvents`: the session implements `EventDelivery` |

All but the first assume `ClientPolls`: after an empty answer to GET_DEBUG_EVENT the client
waits for RPC_EVENT and does not ask again. The client is not in the repository; the
server's poll mode has a point only for such a one (`rpc_server.cpp:802`). It is needed:
with `ClientPolls` FALSE TLC finds `NoPollWhilePerforming`, `RepliesMatch` and
`DeliversEvents` violated, while `NoMutualWait` still holds on the small instance.

`IInv` counts. While the connection is up each call of either side is on its way,
being performed or answered, exactly once (`Conserved`), so the answer that is read next
belongs to the call on top of the stack. That calls are conserved needs the shape of
the stack (`StackShape`: two frames at most, and which calls may be made from within
which), the shape needs that the poll mode is off while a request is pending, and
that is the cycle of an event (`Stage`, `Cycle`: one of asking, polling, telling, resuming
drives it at a time). When the connection is down only the server's part
(`ServerInv`) is kept. For `NeverBothWait`, if nothing is on its way the counts leave
one side with nothing to wait for. For the refinement, each action maps to a step or a
stutter of `EventDelivery`: an event is taken when `got` grows, told when the client's
`told` follows it, and the process is resumed only when the two are equal
(`EventsInOrder`).

### Sessions

| theorem | property |
|---|---|
| `TypesHold` | `TypeOK` |
| `NextInv` | the invariant is inductive |
| `InstancesApart` | `DebuggersApart` |
| `NoProcessLost` | `TracedOwned` |
| `NoStatusLost` | `StatusKept` |
| `HoldsUntilAdopted` | `DebuggersAlive`, and the two before it with nothing lost, until an adopted session has lost its instance |
| `AbandonedKept` | `ProcessKept` |

`Inv` says that a listed session has its server and an instance of its own (`OwnInstance`),
that each process is owned by one session and a free one by none, that no two sessions
remember the same process (`PidApart`), that only sleepers have the flag
(`SleepersBroken`), that a traced process is owned, and that a status is in the kernel or
with its owner. It ends with an adoption, which deletes the instance it has taken over.
`AfterAdoption` is what is still true while the session that adopted serves on
(`Dangling`): the sleeping sessions have lost nothing, no two sessions share an
instance, and only the process of the deleted one is without an owner. The invariant is one or
the other (`IInv`). No theorem assumes more than the two ASSUMEs of the module.

### Breakpoints

| theorem | property | assumes |
|---|---|---|
| `TypeCorrect` | `TypeOK` | |
| `MemoryKept`, `TrapsReported` | two parts of `BreakpointsKept`: memory is what the client knows, and no trap of the debugger is told as an exception | |
| `BreakpointsAreKept` | `BreakpointsKept` | `FixSuffices` of every machine |
| `RestoredExactly` | `RestoresExactly` | |
| `Undisturbing` | `RunsUndisturbed`: implements `Program` | `FixSeen` of every machine |

`MachineAssumption` says what a machine is: any set of threads with the first one in it, and
a program whose instructions follow one another and have room for their trap codes. `IInv` relates the four places that
know of a breakpoint (`TablesAgree`: the saved bytes of `bpts`, those the client was
given, `removed_bpts` and memory itself), and says where each thread can stand:
`ThreadsWell` (on an instruction, or in the trap over one), `Trapped` (a trap belongs to an
entry, or to the breakpoint another thread is stepping over), `Waits`, `Steps` and `Held`
(who is stopped and why, between events, while one thread steps over a breakpoint, and
while the client holds an event). Memory alone is not inductive: that `dbg_add_bpt` saves
the program's own byte needs that no trap code is there, which is a fact about
`removed_bpts` too.

Two hypotheses are about `fix_instruction_pointer` (`linux_debmod.cpp`), which moves the
thread of the last event back from a trap and no other thread. `FixSuffices` (the processor
reports a trap at its instruction, or the connection is never lost, or it is lost only while
the client of a program of one thread holds an event) is what `HandedBackClean` needs: with
a second thread in a trap, its instruction pointer stays behind the trap code that has been
taken out. `FixSeen` is what the refinement needs: where the client may leave at any
moment, the thread of the last event may have run on, and is moved back all the same.

### Hardware breakpoints

| theorem | property |
|---|---|
| `HwTypeCorrect` | `HwTypeOK` |
| `BreakpointsHold` | `HardwareBreakpointsHold` |
| `ReportsTrue` | `ReportsWhereTouched` (action property, a conjunct of `StepsAreExact`) |

`HwInv` says that the table has the client's breakpoints once each (`Slotted`, `Tabled`),
that each thread has the whole table or none of it (`Uniform`; `Reached` for those the
last refresh came to) and that a bit in `dr6` is about the access still to be reported
(`Hit`). `Tabled`, `Uniform` and `Hit` hold until a refresh fails for a thread that has died.

### Appcalls and remote files

| theorem | property |
|---|---|
| `AppTypeCorrect` | `AppTypeOK` |
| `CallsNest` | `AppcallsNest` |
| `StacksAligned` | `StartsAligned` (action property, a conjunct of `StepsAreExact`) |
| `FilesKept` | `FilesAreKept` |

A client drives a manual call itself, or makes a call while it handles an event that the
event loop of another call told it of (`Told`, `Answered`): the loop goes on when the
client answers, and only its own call ends there. Two things are taken of the client: it
begins no manual call while it handles such an event, and has ended the calls it made
before it answers. What the outer call returns is left open when an inner one was pushed
meanwhile: `ctx` is a reference into the vector of contexts (`debmod.cpp:463,711`).

`AppcallAssumption`: the arguments fit the address space, with the 32 bytes an alignment
and a return address take. `AppInv`: the saved stack pointers descend and every one of
them is above the current one (`Nested`), there is a context for each call (`Counted`),
contexts and registers are those of the calls while the registers can be written
(`Orderly`), and what a call has written lies below every stack it interrupted (`Apart`).
Nesting needs the order of the pointers, not only of the contexts: the alignment is what
could bring two of them together.

`FilesInv`: types, `HandlesAreStreams`, `StreamIsComplete`, and `AloneIs`: a stream that
was alone since it was opened shares its file with none that is open and with none that
was left open. Completeness of what is read back needs it: only then are the stream's own
requests the only ones that change the file. Lengths, bytes and the number of channels
are any.

### The screen

| theorem | property |
|---|---|
| `ScreensTurn` | `ScreensFollow` |

The theorem and its lemmas stand in `RotateDisp` itself. `PanelsAssumption`: the sides of
a panel are numbers. `ScreenInv` adds what the properties do not say while a key waits
for its timer: the angle the timer will turn to is the one of the last key, with or
without SHIFT, and the screen is in a mode the panel has, so that the swap of
`ChangeDispById` asks for one the display takes (`ScreenAsked`, lemma `Turns`). `MouseHeld`:
only a program that has its library hooks the mouse or has keys with SHIFT; `OnDestroy`
gives back those keys and the hook only then. `TurnsAsAsked` speaks of screens that lie at
0 degrees: on a panel that stands upright the same swap takes the 0 degrees for a turned
screen, and nothing is promised.

### Only model-checked

* Liveness and fairness: `ENABLED` and fairness are beyond the prover.
* `LibrariesKnown`: `handle_dll_movements` is modelled by folds over sorted sequences, which
  are induction over data.
* The other parts of `MCServer`, and those of `MCPrograms` but the screen. Their properties are
  conjunctions over instances with small bounds; many are about recursive data (containers, packing,
  texts), which needs induction with an operator as parameter.

## 5. Seen while modelling

Facts about the code that are in the models, or were left out because of them. No run is
about them: of most no document of the repository speaks, and the helpers of the headers
that contradict their own comments ("Data types and packets") are never called in this tree
in the case in which they do, which is neither modelled nor checked.

Thread engine and sessions:

* `npending_signals` is counted twice for a status stored twice (`linux_debmod.cpp:410`);
  assertion 30185 does not expect WIFSIGNALED; two suspends and two continues leave
  `suspend_count` at 1; a zombie leader is reported as a thread exit, and a leader that
  ends with `pthread_exit` hangs a freeze (1038, 1163).
* A late SIGSTOP that is stored during `dbg_thread_suspend` marks its thread as stopped,
  and nobody resumes it (401); after `exit_process` the status of a suspended thread is
  stored behind `user_suspend`, because 2036 repeats `suspend_count`, and PROCESS_EXIT
  never comes. `NobodyForgotten` and `ExitReported` are checked with clients that do not
  do this.
* GET_DEBUG_EVENT is answered while an RPC_EVENT is unacknowledged
  (`rpc_server.cpp:409,822` against `consts.h:35`): neither event is lost.
* A signal that ends the server skips sleeping sessions, whose `irs` is NULL
  (`server.cpp:154`): their processes run on.
* `qwait_timed` and `open_linput` of this tree are stubs (`pro.cpp:97,109`); thread_db is
  never initialised (`linux_debmod.cpp:3127`), so TRACECLONE is not set on the first
  process by that way; conditions of breakpoints are not compiled in; `send_ioctl` and
  `rpc_sync_stub` are never called. The port is printed as typed and bound modulo 65536.

Data types and packets:

* Not as their headers say: `set_all_bits` and `clear_all_bits`, which are to change the
  first nbits (`pro.h:1155,1165`), set the wrong end of the last, unfinished byte and clear
  the whole of it; `area_t::extend`, which is to include an address (`area.hpp:85`), leaves
  one behind the end outside; `regval_t::set_int`, which is to set an int value
  (`idd.hpp:403`), keeps RVT_FLOAT over a float; the swap of two lists (`pro.h:2910`) does
  not exchange them. The only one with a caller is `extend`, which is given both ends of an
  area (`linux_debmod.cpp:2785`). `Qlist` and `RegVals` leave the last two cases out.
* `==` of register values compares as many bytes as the first one has; `erase(first, first)`
  of a vector and elements of its own given to `push_back`; `replace("")` does not end;
  `qsnprintf` ignores its size. `llong.hpp` is not compiled where there is a long long.
* ELF: the image base is kept from the file before (`symelf.cpp:48`); PT_DYNAMIC is looked
  up with the segments read so far; a table that is cut short counts as read; the Thumb
  bit stays in an address.
* ELF, for callers other than the server: a symbol appended to SYMTAB behind one of DYNSYM
  goes to DYNSYM and shifts its pointers, because the border does not move
  (`reader.cpp:2043`); the addend of a narrow relocation loses its sign when its bytes are
  swapped (`reader.cpp:1715`), and a type above 255 its high bits (`reader.cpp:679`). A
  function read before its mapping symbol may be taken for one of the other instruction
  set, and `has_mapsym` is forgotten with every table (`reader.cpp:2138`). The properties
  are stated around these.

Other programs:

* Unlocker, as committed, does not compile (`unlocker.cpp:311`). The positions of a list the
  user has sorted are used as indexes of the unsorted one (1863-1889); "Unlock All" ends
  the dialog once for each item; the dialog is moved where "Quit" is meant (1741); what
  ReadFile did is not looked at (324); a handle whose number is that of a process is
  taken for one of its own (1375); paths are compared by prefix, so a sibling counts
  (1510-1613); the choice to kill is never reset (1845); a reparse point or a path that
  is too long is reported as deleted (627); early returns leave the driver loaded
  (2005-2010); memory is freed twice (2206, 2214).
* Dial-up client: the connection is judged by the last error and not by the result of
  RasDial (679), so a failure may be told as a success; a connection found at the start is
  dropped again (138); no gateway is ever found (647), so the script has no routes; "/"
  is decoded as 47 (463); RadioCheck is written from address 0 or 1 (783); a socket that
  is not connected is never closed (793-800); an answer of 1024 bytes has no end; of an
  answer in pieces the first one counts; the icon stays behind when the program ends
  after a success.
* Alternate streams: "-d 0" is no limit (`NecessaryDef.cpp:129`); a folder whose name is
  too long is searched as "*.*" (272). Address converter: an incomplete group is dropped
  by `translate2`. Memory information: figures are printed modulo 2^32; everything in
  the about box but the title is a link.
* RotateDisp, when the notification area refuses its icon, closes its window and goes on
  trying for the window that is gone (`RotateDispWnd.cpp:341-347`): the process stays, with
  no key, hook or timer (`ShowShellIconFails`).
* su goes on to the command when `setgid` or `setuid` fails and prints why (`su.cpp:244-249`).

## 6. Not modelled, and plan

Not modelled: thread_db and its callbacks (`linux_threads.cpp:1-738`, debug prints and
code behind an initialisation that is disabled); the parsing of `/proc/pid/maps`;
conditions of breakpoints; notes of ELF files; the parts of the SDK
headers that declare functions of the disassembler, and those whose helpers nothing calls
(bit maps, rotations, areas, numbers of two words, 128-bit classes); Windows CE and multi-threaded variants;
dialogs whose only state is what they paint; `SignAsTsFile.cpp`. Fragments of a packet
header (`rpc_engine.cpp:106`) and the back pointer `debmod_t::rpc` after an adoption
are known gaps. `TypeOK` of `RpcSession`, `Sessions` and of four parts is stated in the
modules; the runs check properties that are harder to get right.

Next:

1. Fragments of packets in `RpcSession`; a second process in `DebugThreads`.
2. `handle_dll_movements` as a function of sets, so that `LibrariesKnown` can be proved.
3. Registers written back by blocks (`Registers`) and the channel of names (`Codec`) as
   components of their own, with proofs.
