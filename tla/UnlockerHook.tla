----------------------------- MODULE UnlockerHook -----------------------------
(* The Unlocker Assistant in the notification area (unlockerassistance) and the *)
(* library it has the system load into every process (unlockerdll), which puts   *)
(* itself in front of SHFileOperationW of the explorer.                          *)
EXTENDS Integers, Sequences

CONSTANTS Heads,      \* how SHFileOperationW may begin: "xp", "win7", "other"
          Instances,  \* assistants
          MaxStarts,  \* bound: starts of the explorer
          MaxCommands \* bound: assistants started and commands of the menu

VARIABLES head,
          run,      \* its entry under Run: "none", "plain", "hidden" (-H)
          pc,       \* of each instance: "off", "started", "running", "closed"
          hooked,   \* instances whose hook is installed
          icons,    \* instances with an icon
          inbox,    \* messages of each instance
          code,     \* SHFileOperationW in the explorer: "original", "jump", "zeros"
          thunk,    \* the library there: loaded, base (FuncBaseAddress is set), what it saved
          refused,  \* its memory could not be made executable, since the explorer started
          starts, commands,
          conflict  \* an assistant closed for a conflict, the user has not asked for autostart since

vars == <<head, run, pc, hooked, icons, inbox, code, thunk, refused, starts, commands, conflict>>

explorer == <<head, code, thunk, refused, starts>>

Windows == {i \in Instances : pc[i] = "running"}

\* Its memory is zero when it is loaded.
Unloaded == [loaded |-> FALSE, base |-> FALSE, saved |-> "zeros"]
Post(box, S, m) == [i \in Instances |-> IF i \in S THEN Append(box[i], m) ELSE box[i]]

------------------------------------------------------------------------------
(* The assistant. *)

\* It looks for the window of another one, and asks that to show its icon.
Start(i) ==
    /\ pc[i] \in {"off", "closed"} /\ commands < MaxCommands
    /\ inbox' = Post(inbox, Windows, "CLEARICON")
    /\ pc' = [pc EXCEPT ![i] = IF Windows = {} THEN "started" ELSE "closed"]
    /\ commands' = commands + 1
    /\ UNCHANGED <<explorer, run, hooked, icons, conflict>>

\* Started with -H it has no icon; otherwise the entry under Run, when there is one, is
\* written without -H.
Show(i) ==
    /\ pc[i] = "started" /\ pc' = [pc EXCEPT ![i] = "running"]
    /\ hooked' = hooked \cup {i}
    /\ \E hidden \in BOOLEAN :
          /\ icons' = IF hidden THEN icons ELSE icons \cup {i}
          /\ run' = IF ~hidden /\ run # "none" THEN "plain" ELSE run
    /\ UNCHANGED <<explorer, inbox, commands, conflict>>

Destroy(i) ==
    /\ pc' = [pc EXCEPT ![i] = "closed"]
    /\ hooked' = hooked \ {i} /\ icons' = icons \ {i}

ClearIcon(i) ==
    /\ icons' = icons \cup {i}
    /\ run' = IF run # "none" THEN "plain" ELSE run
    /\ UNCHANGED <<pc, hooked, conflict>>

\* "Unlocker Assistant will now be closed and disabled."
Conflicting(i) == Destroy(i) /\ conflict' = TRUE /\ run' = "none"

Message(i) ==
    /\ pc[i] = "running" /\ inbox[i] # << >>
    /\ CASE Head(inbox[i]) = "CLEARICON" -> ClearIcon(i)
         [] Head(inbox[i]) = "UNKNOWNMSG" -> Conflicting(i)
    /\ inbox' = [inbox EXCEPT ![i] = Tail(@)]
    /\ UNCHANGED <<explorer, commands>>

HideIcon(i) ==
    /\ icons' = icons \ {i}
    /\ run' = IF run # "none" THEN "hidden" ELSE run
    /\ UNCHANGED <<pc, hooked, conflict>>

Autostart(i) ==
    /\ run' = IF run # "none" THEN "none" ELSE "plain"
    /\ conflict' = FALSE
    /\ UNCHANGED <<pc, hooked, icons>>

Close(i) == Destroy(i) /\ UNCHANGED <<run, conflict>>

\* The menu of the icon.
Command(i) ==
    /\ pc[i] = "running" /\ i \in icons /\ commands < MaxCommands
    /\ HideIcon(i) \/ Autostart(i) \/ Close(i)
    /\ commands' = commands + 1
    /\ UNCHANGED <<explorer, inbox>>

\* The explorer has started again: the icon is put back, a hidden one too.
TaskbarCreated(i) ==
    /\ pc[i] = "running" /\ i \notin icons
    /\ icons' = icons \cup {i}
    /\ UNCHANGED <<explorer, run, pc, hooked, inbox, commands, conflict>>

------------------------------------------------------------------------------
(* The library in the explorer. *)

Known == code = "original" /\ head \in {"xp", "win7"}

\* The head is saved, and replaced by a jump when it is one of those known; when the
\* memory for it cannot be made executable the address is noted, but nothing saved.
ProcessAttach ==
    /\ hooked # {} /\ ~thunk.loaded
    /\ \E writable \in BOOLEAN :
          /\ thunk' = [loaded |-> TRUE, base |-> TRUE, saved |-> IF writable THEN code ELSE "zeros"]
          /\ code' = IF writable /\ Known THEN "jump" ELSE code
          /\ inbox' = IF writable /\ ~Known THEN Post(inbox, Windows, "UNKNOWNMSG") ELSE inbox
          /\ refused' = (refused \/ ~writable)
    /\ UNCHANGED <<head, run, pc, hooked, icons, starts, commands, conflict>>

\* What the thunk holds is written over the head, saved there or not.
ProcessDetach ==
    /\ hooked = {} /\ thunk.loaded
    /\ code' = IF thunk.base THEN thunk.saved ELSE code
    /\ thunk' = Unloaded
    /\ UNCHANGED <<head, run, pc, hooked, icons, inbox, refused, starts, commands, conflict>>

ExplorerStarts ==
    /\ starts < MaxStarts /\ starts' = starts + 1
    /\ code' = "original" /\ thunk' = Unloaded /\ refused' = FALSE
    /\ UNCHANGED <<head, run, pc, hooked, icons, inbox, commands, conflict>>

\* InjectCheck: the operation is done as before; Unlocker is started when a move, a
\* renaming or a deletion was denied and the last error says nothing else.
InjectCheck(function, error, lastError) ==
    /\ error \in {"ACCESS_DENIED", "SHARING_VIOLATION"}
    /\ function \in {"FO_MOVE", "FO_DELETE", "FO_RENAME"}
    /\ lastError \in {"INVALID_HANDLE", "SUCCESS"}

------------------------------------------------------------------------------
Init ==
    /\ head \in Heads /\ run \in {"none", "plain", "hidden"}
    /\ pc = [i \in Instances |-> "off"] /\ hooked = {} /\ icons = {}
    /\ inbox = [i \in Instances |-> << >>] /\ code = "original" /\ thunk = Unloaded
    /\ refused = FALSE /\ starts = 0 /\ commands = 0 /\ conflict = FALSE

Next ==
    \/ \E i \in Instances : Start(i) \/ Show(i) \/ Message(i) \/ Command(i) \/ TaskbarCreated(i)
    \/ ProcessAttach \/ ProcessDetach \/ ExplorerStarts

Spec == Init /\ [][Next]_vars

------------------------------------------------------------------------------
\* The function jumps into the library only while that is there, has saved how the
\* function began and knows it (DllMain).
JumpsToLibrary == code = "jump" => thunk.loaded /\ thunk.saved = "original" /\ head # "other"

\* Whatever assistants come and go, the function is as the system made it, or jumps into the
\* library; a head that is not known is never written to, and a library that is gone has put
\* everything back.  Only one whose memory could not be made executable leaves zeros.
FunctionKept == ~refused => code = "original" \/ (code = "jump" /\ thunk.loaded)

\* hook.cpp:183 says that the original code of SHFileOperation is restored at the end.
OriginalRestored == ~thunk.loaded => code = "original"

\* An assistant that was closed for a conflict is not started again with the session,
\* whatever other assistants do (DialogFunc, WinMain).
DisabledByConflict == conflict => run = "none"
=============================================================================
