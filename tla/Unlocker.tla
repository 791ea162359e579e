------------------------------- MODULE Unlocker -------------------------------
(* Unlocker's main program (WinMain): it loads its driver, lists who has the    *)
(* object open, and kills processes, unloads libraries and closes handles as the *)
(* user selects them, round after round (unlocker.cpp, unlockerclass.cpp).       *)
EXTENDS Integers, Sequences, SequencesExt

CONSTANTS Systems,   \* [procs, modules, handles, key]: modules [pid, file], handles [pid, num, file]
          CmdLines,  \* arguments, the program's name left out
          MaxOpens,  \* bound: handles opened meanwhile
          MaxRounds  \* bound: rounds with the dialog

VARIABLES system,
          procs, modules,
          handles,      \* in the order of the system's table
          param,        \* of the command line
          pc,
          key, loaded,  \* the service entry of the driver, and the driver
          modified,     \* DriverRegInfoModified
          table,        \* the handles when the list was made
          list,         \* ListProcessGeneral: [pid, index, num]; index 0 (-1 in the code): a library
          items,        \* ListItemGeneral: what is to be done, indexes into list
          kill,         \* IsToKillProcess
          choice,       \* ComboBoxSelectIndex
          operated,     \* operations asked of ProcessRequestByteOperationType
          update,       \* the thread that looks for a new version
          opens, rounds,
          listed,       \* processes that were ever on the list
          pressed,      \* buttons pressed
          touched       \* what was done: [what, pid]

vars == <<system, procs, modules, handles, param, pc, key, loaded, modified, table, list, items, kill,
          choice, operated, update, opens, rounds, listed, pressed, touched>>

machine == <<procs, modules, handles>>
driver == <<key, loaded, modified>>
lists == <<table, list, items, kill>>
history == <<listed, pressed, touched>>

\* The path of the object begins the paths of what is in it, and of its siblings whose
\* names begin with its own.
Matching == {"object", "sibling"}

------------------------------------------------------------------------------
(* The command line: /S without windows, /D, /R and /M to delete, rename, move. *)

RECURSIVE Param(_, _, _)
Param(args, i, p) ==
    IF i > Len(args) THEN p
    ELSE CASE args[i] = "/H" -> p      \* the options are shown, the rest is not read
           [] i = 1 /\ args[i] # "/H" -> Param(args, 2, [p EXCEPT !.command = args[1]])
           [] i > 1 /\ args[i] = "/S" -> Param(args, i + 1, [p EXCEPT !.silent = TRUE])
           [] i > 1 /\ args[i] = "/D" -> Param(args, i + 1, [p EXCEPT !.op = "delete"])
           [] i > 1 /\ args[i] \in {"/R", "/M"} /\ i < Len(args) ->
                  Param(args, i + 2, [p EXCEPT !.op = IF args[i] = "/R" THEN "rename" ELSE "move", !.object2 = args[i + 1]])
           [] OTHER -> Param(args, i + 1, p)

GetOperateFileParamFromCmdLine(args) ==
    Param(args, 1, [command |-> "", silent |-> FALSE, op |-> "none", object2 |-> ""])

------------------------------------------------------------------------------
\* No privilege, no object, objects on several drives, no access to the drive: it ends,
\* and leaves the driver as it is by then.
GiveUp ==
    /\ pc \in {"start", "driver", "prepared"} /\ pc' = "failed"
    /\ UNCHANGED <<system, machine, param, driver, lists, choice, operated, update, opens, rounds, history>>

\* The update thread is started when there are windows.
Begin ==
    /\ pc = "start" /\ pc' = "driver"
    /\ update' = IF param.silent THEN "none" ELSE "asking"
    /\ UNCHANGED <<system, machine, param, driver, lists, choice, operated, opens, rounds, history>>

\* The entry is made when there is none; loading is tried twice.
DriverInit ==
    /\ pc = "driver"
    /\ modified' = ~key /\ key' \in {key, TRUE}
    /\ loaded' \in {FALSE, key'}
    /\ pc' = IF loaded' THEN "prepared" ELSE "failed"
    /\ UNCHANGED <<system, machine, param, lists, choice, operated, update, opens, rounds, history>>

Prepared ==
    /\ pc = "prepared" /\ pc' = "scan"
    /\ UNCHANGED <<system, machine, param, driver, lists, choice, operated, update, opens, rounds, history>>

Libraries == SetToSeq({[pid |-> m.pid, index |-> 0, num |-> 0] : m \in {m \in modules : m.file \in Matching}})

\* Handles of processes that cannot be opened, or whose name the driver does not find,
\* are not listed.
Locking(S) ==
    LET found == SelectSeq([i \in DOMAIN handles |-> i], LAMBDA i : i \in S /\ handles[i].file \in Matching)
    IN  [k \in DOMAIN found |-> [pid |-> handles[found[k]].pid, index |-> found[k], num |-> handles[found[k]].num]]

\* Without a snapshot of the processes the list is empty.
UnlockProcess ==
    /\ pc = "scan"
    /\ table' = handles /\ items' = << >>
    /\ \/ \E S \in {{}, DOMAIN handles} : list' = Libraries \o Locking(S)
       \/ list' = << >>
    /\ listed' = listed \cup {list'[i].pid : i \in DOMAIN list'}
    /\ pc' = CASE param.silent -> "all" [] ~param.silent /\ list' = << >> -> "unlocked" [] OTHER -> "locked"
    /\ UNCHANGED <<system, machine, param, driver, kill, choice, operated, update, opens, rounds, pressed, touched>>

\* Without windows: all, then the operation, once.
TakeAll ==
    /\ pc = "all" /\ pc' = "inject" /\ items' = [i \in DOMAIN list |-> i]
    /\ UNCHANGED <<system, machine, param, driver, table, list, kill, choice, operated, update, opens, rounds, history>>

\* Nobody has it open: the user may choose an operation, or none.
UnlockedDialog ==
    /\ pc = "unlocked" /\ choice' \in {"none", "delete", "rename", "move"}
    /\ operated' = Append(operated, choice') /\ pc' = "locked"
    /\ UNCHANGED <<system, machine, param, driver, lists, update, opens, rounds, history>>

\* The list, also when it is empty: then nothing but "Quit" closes it. "Unlock All"
\* leaves IsToKillProcess as it is.
UnlockAll ==
    /\ pc = "locked" /\ list # << >> /\ rounds < MaxRounds
    /\ items' = [i \in DOMAIN list |-> i] /\ pc' = "inject" /\ rounds' = rounds + 1
    /\ pressed' = pressed \cup {"all"}
    /\ UNCHANGED <<system, machine, param, driver, table, list, kill, choice, operated, update, opens, listed, touched>>

UnlockSelected ==
    /\ pc = "locked" /\ rounds < MaxRounds
    /\ \E S \in SUBSET (DOMAIN list) \ {{}} : items' = SetToSortSeq(S, <)
    /\ \E k \in BOOLEAN :
          kill' = k /\ pressed' = pressed \cup {IF k THEN "kill" ELSE "unlock"}
    /\ pc' = "inject" /\ rounds' = rounds + 1
    /\ UNCHANGED <<system, machine, param, driver, table, list, choice, operated, update, opens, listed, touched>>

\* An operation chosen beside the list is forgotten when nothing is left on it.
ChooseOperation ==
    /\ pc = "locked" /\ choice' \in {"none", "delete", "rename", "move"} \ {choice}
    /\ UNCHANGED <<system, machine, param, pc, driver, lists, operated, update, opens, rounds, history>>

Quit ==
    /\ pc = "locked" /\ items' = << >> /\ pc' = "ending"
    /\ UNCHANGED <<system, machine, param, driver, table, list, kill, choice, operated, update, opens, rounds, history>>

------------------------------------------------------------------------------
\* A process that is gone cannot be opened. Of a handle, the process is found in the
\* table; what is closed in it is the handle with the number of the process.
Terminate(pid) ==
    /\ procs' = procs \ {pid}
    /\ modules' = {m \in modules : m.pid # pid}
    /\ handles' = SelectSeq(handles, LAMBDA h : h.pid # pid)

\* DllUnregisterServer, then FreeLibrary as often as it was loaded.
Unload(pid) ==
    /\ modules' = {m \in modules : m.pid # pid \/ m.file \notin Matching}
    /\ UNCHANGED <<procs, handles>>

CloseIn(pid) ==
    /\ handles' = SelectSeq(handles, LAMBDA h : ~(h.pid = pid /\ h.num = pid))
    /\ UNCHANGED <<procs, modules>>

RemoteInject1 ==
    /\ pc = "inject" /\ items # << >>
    /\ LET e == list[Head(items)]
           pid == IF e.index = 0 THEN e.pid ELSE table[e.index].pid
           Did(what) == touched' = touched \cup {[what |-> what, pid |-> pid]}
       IN  \/ /\ pid \in procs
              /\ CASE kill -> Terminate(pid) /\ Did("killed")
                   [] ~kill /\ e.index = 0 -> Unload(pid) /\ Did("unloaded")
                   [] OTHER -> CloseIn(pid) /\ Did("closed")
           \/ UNCHANGED <<machine, touched>>      \* access is refused, or it is gone
    /\ items' = Tail(items)
    /\ UNCHANGED <<system, param, pc, driver, table, list, kill, choice, operated, update, opens, rounds, listed, pressed>>

Injected ==
    /\ pc = "inject" /\ items = << >>
    /\ pc' = IF param.silent THEN "ending" ELSE "scan"
    /\ operated' = IF param.silent THEN Append(operated, param.op) ELSE operated
    /\ UNCHANGED <<system, machine, param, driver, lists, choice, update, opens, rounds, history>>

DriverUnload == key' = (key /\ ~modified) /\ loaded' = FALSE

\* The driver goes before the update thread is waited for.
Ending ==
    /\ pc = "ending" /\ pc' = "waiting"
    /\ DriverUnload
    /\ UNCHANGED <<system, machine, param, modified, lists, choice, operated, update, opens, rounds, history>>

EndUpdateThread ==
    /\ pc = "waiting" /\ update \in {"none", "done"} /\ pc' = "ended"
    /\ UNCHANGED <<system, machine, param, driver, lists, choice, operated, update, opens, rounds, history>>

\* There is no new version, or the message about it has been closed; it ends with the program.
CheckUpdate ==
    /\ update = "asking" /\ pc \notin {"failed", "ended"} /\ update' = "done"
    /\ UNCHANGED <<system, machine, param, pc, driver, lists, choice, operated, opens, rounds, history>>

------------------------------------------------------------------------------
(* The other programs. *)

Exits ==
    /\ \E pid \in procs : Terminate(pid)
    /\ UNCHANGED <<system, param, pc, driver, lists, choice, operated, update, opens, rounds, history>>

Opens ==
    /\ opens < MaxOpens /\ opens' = opens + 1
    /\ \E pid \in procs, num \in {4, 8} :
          /\ \A i \in DOMAIN handles : handles[i].pid # pid \/ handles[i].num # num
          /\ handles' = <<[pid |-> pid, num |-> num, file |-> "object"]>> \o handles
    /\ UNCHANGED <<system, procs, modules, param, pc, driver, lists, choice, operated, update, rounds, history>>

Others ==
    /\ pc \in {"scan", "locked", "inject"}
    /\ Exits \/ Opens

------------------------------------------------------------------------------
Init ==
    /\ system \in Systems
    /\ procs = system.procs /\ modules = system.modules /\ handles = system.handles
    /\ param \in {GetOperateFileParamFromCmdLine(args) : args \in CmdLines}
    /\ pc = "start" /\ key = system.key /\ loaded = FALSE /\ modified = FALSE
    /\ table = << >> /\ list = << >> /\ items = << >> /\ kill = FALSE /\ choice = "none" /\ operated = << >>
    /\ update = "none" /\ opens = 0 /\ rounds = 0 /\ listed = {} /\ pressed = {} /\ touched = {}

Next ==
    \/ GiveUp \/ Begin \/ DriverInit \/ Prepared \/ UnlockProcess \/ TakeAll \/ UnlockedDialog
    \/ UnlockAll \/ UnlockSelected \/ ChooseOperation \/ Quit
    \/ RemoteInject1 \/ Injected \/ Ending \/ EndUpdateThread \/ CheckUpdate \/ Others

Spec == Init /\ [][Next]_vars

------------------------------------------------------------------------------
\* Only processes that were on the list are interfered with, only after a button of the
\* list was pressed (or without windows), and killed only after "Kill Process"
\* (RemoteInject1, LockedDialogProc).
OnlyListedTouched ==
    \A t \in touched :
        /\ t.pid \in listed
        /\ t.what = "killed" => "kill" \in pressed
        /\ ~param.silent => pressed # {}

\* A program that ends regularly leaves no driver, and the service entry as it found it
\* (DriverInit, DriverUnload).
DriverGone == pc = "ended" => key = system.key /\ ~loaded

\* Without windows the operation of the command line is asked for, once, whatever became
\* of the handles; the dialogs are not shown (WinMain).
OperatesAsAsked ==
    param.silent =>
        operated = (IF pc \in {"ending", "waiting", "ended"} THEN <<param.op>> ELSE << >>) /\ pressed = {}
=============================================================================
