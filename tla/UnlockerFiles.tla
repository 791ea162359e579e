---------------------------- MODULE UnlockerFiles ----------------------------
(* What Unlocker does with the objects it was given: delete, move, rename, at  *)
(* once or at the next start of Windows (unlocker.cpp).  Objects may be in use,  *)
(* protected, too long for a plain path, or links to other directories.          *)
EXTENDS Integers, Sequences, SequencesExt

CONSTANTS Disks,     \* [parent, kind, to, long, held, guard, mayOwn, objects]; parent = "drive" at the top
          MaxBirths  \* bound: files other programs create meanwhile (node "new")

VARIABLES disk,
          at,        \* where each node is: in a node, on the "drive", at the "dest"ination, "none"
          held,      \* nodes other programs have open
          guard,     \* "open"; "denied", to change by who may change it; "owned" by somebody else
          op, silent,
          phase,
          obj,       \* objects done
          list, k,   \* found, and how many of them are left
          longPath,
          fine,      \* of this object; flag1: of all
          flag1,
          answer,    \* to "at next reboot?"; asked once
          sweeps,    \* of C:\TmpDelete
          reboot,    \* what Windows will do at its next start: [n, to]
          agreed,    \* what the user was promised to find deleted then
          told,      \* "The object was deleted."
          births

vars == <<disk, at, held, guard, op, silent, phase, obj, list, k, longPath, fine, flag1, answer,
          sweeps, reboot, agreed, told, births>>

world == <<disk, op, silent>>

RECURSIVE BelowIn(_, _), FindFrom(_, _)
BelowIn(where, n) == {n} \cup UNION {BelowIn(where, m) : m \in {m \in DOMAIN where : where[m] = n}}
Below(n) == BelowIn(at, n)
Inside(n) == {m \in DOMAIN at : at[m] = n}
Here(n) == at[n] # "none"
TooLong(n) == n \in disk.long /\ n \notin Below("tmp")

\* GetFileAttributesW succeeds
Valid(n) == Here(n) /\ ~TooLong(n)

------------------------------------------------------------------------------
\* Directories before what is in them; nothing below a link (reparse point).
FindFrom(found, i) ==
    IF i > Len(found) THEN found
    ELSE FindFrom(found \o (IF disk.kind[found[i]] = "link" THEN << >> ELSE SetToSeq(Inside(found[i]))), i + 1)
FindFile(n) == FindFrom(<<n>>, 1)

\* The shell takes a directory with everything in it; DeleteFile and RemoveDirectory
\* take what is empty.
JuniorDeleteFile(n, shell, g) ==
    /\ Valid(n)
    /\ \/ shell /\ \A m \in Below(n) : m \notin held /\ g[m] = "open"
       \/ Inside(n) = {} /\ n \notin held /\ g[n] = "open"

\* An object that is not seen, and a link, count as deleted.  (What the code tries after
\* that - ZwDeleteFile, the \\?\ name, the short name - meets the same obstacles.)
MyDeleteFileSubFunc(n, shell, g) ==
    IF JuniorDeleteFile(n, shell, g) THEN [ok |-> TRUE, gone |-> Below(n), guard |-> g]
    ELSE [ok |-> ~Valid(n) \/ disk.kind[n] = "link", gone |-> {}, guard |-> g]

\* Everybody may do everything: as the owner, or after taking the ownership.
SetACL(n) == Valid(n) /\ (guard[n] = "owned" => disk.mayOwn)

MyDeleteFile(n, shell) ==
    LET once == MyDeleteFileSubFunc(n, shell, guard)
    IN  IF once.ok \/ ~SetACL(n) THEN once ELSE MyDeleteFileSubFunc(n, shell, [guard EXCEPT ![n] = "open"])

Without(S) == [m \in DOMAIN at |-> IF m \in S THEN "none" ELSE at[m]]

\* No handle may be open below a directory that is moved.
Movable(where, g, n) == BelowIn(where, n) \cap held = {} /\ g[n] = "open"

\* In a tree with a long path, what is left is moved to C:\TmpDelete, to have a shorter one.
Deleted(n) ==
    LET r == MyDeleteFile(n, phase = "object" /\ ~longPath)
        left == Without(r.gone)
        seen == left[n] # "none" /\ ~TooLong(n)
    IN  [ok |-> r.ok, guard |-> r.guard,
         at |-> IF longPath /\ seen
                THEN [left EXCEPT !["tmp"] = "drive", ![n] = IF Movable(left, r.guard, n) THEN "tmp" ELSE @]
                ELSE left]

------------------------------------------------------------------------------
FindObject ==
    /\ phase = "next" /\ op = "delete" /\ obj < Len(disk.objects)
    /\ LET found == FindFile(disk.objects[obj + 1])
       IN  /\ list' = found /\ k' = Len(found)
           /\ longPath' = (\E i \in DOMAIN found : TooLong(found[i]))
    /\ obj' = obj + 1 /\ fine' = TRUE /\ phase' = "object"
    /\ UNCHANGED <<world, at, held, guard, flag1, answer, sweeps, reboot, agreed, told, births>>

\* ProgressFunc: what was found last is deleted first.
DeleteNext ==
    /\ phase \in {"object", "sweep"} /\ k > 0
    /\ LET r == Deleted(list[k])
       IN  /\ at' = r.at /\ guard' = r.guard
           /\ fine' = (fine /\ (phase = "object" => r.ok))
    /\ k' = k - 1
    /\ UNCHANGED <<world, held, phase, obj, list, longPath, flag1, answer, sweeps, reboot, agreed, told, births>>

\* C:\TmpDelete is emptied, nine times if it must be.
Tidy ==
    /\ (phase = "object" /\ k = 0) \/ phase = "tidy"
    /\ LET now == IF phase = "object" THEN 0 ELSE sweeps
           gone == IF JuniorDeleteFile("tmp", FALSE, guard) THEN {"tmp"} ELSE {}
       IN  /\ sweeps' = now
           /\ IF Here("tmp") /\ now <= 8
              THEN /\ at' = Without(gone) /\ phase' = "sweep"
                   /\ list' = (IF gone = {} THEN FindFile("tmp") ELSE <<"tmp">>) /\ k' = Len(list')
                   /\ longPath' = FALSE
              ELSE phase' = "judge" /\ UNCHANGED <<at, list, k, longPath>>
    /\ UNCHANGED <<world, held, guard, obj, fine, flag1, answer, reboot, agreed, told, births>>

Swept ==
    /\ phase = "sweep" /\ k = 0
    /\ at' = IF JuniorDeleteFile("tmp", FALSE, guard) THEN Without({"tmp"}) ELSE at
    /\ sweeps' = sweeps + 1 /\ phase' = "tidy"
    /\ UNCHANGED <<world, held, guard, obj, list, k, longPath, fine, flag1, answer, reboot, agreed, told, births>>

\* The user is asked with the first object that fails; without windows, it is yes.
Answers == IF answer # "none" THEN {answer} ELSE IF silent THEN {"yes"} ELSE {"yes", "no"}

\* Seeded bug: directories are registered before what is in them.
ForwardsAtReboot(found) == found

\* MoveFileExW(..., MOVEFILE_DELAY_UNTIL_REBOOT) of all that is found, the last first.
AtReboot(found) == Reverse(found)

Judge ==
    /\ phase = "judge"
    /\ flag1' = (flag1 /\ fine) /\ phase' = "next"
    /\ IF fine THEN UNCHANGED <<answer, reboot, agreed>>
       ELSE /\ answer' \in Answers
            /\ LET found == AtReboot(SelectSeq(FindFile(disk.objects[obj]), Valid))
               IN  IF answer' = "yes"
                   THEN /\ reboot' = reboot \o [i \in DOMAIN found |-> [n |-> found[i], to |-> "none"]]
                        /\ agreed' = agreed \cup ToSet(found)
                   ELSE UNCHANGED <<reboot, agreed>>
    /\ UNCHANGED <<world, at, held, guard, obj, list, k, longPath, fine, sweeps, told, births>>

\* After a failure the loop that registers the parts of the object counts i, the number
\* of the object, down instead of j: entries i .. 1 of the list, then whatever is in
\* front of it.
FileMove ==
    /\ phase = "next" /\ op = "move" /\ obj < Len(disk.objects)
    /\ LET n == disk.objects[obj + 1]
           g == IF ~Movable(at, guard, n) /\ SetACL(n) THEN [guard EXCEPT ![n] = "open"] ELSE guard
           ok == Valid(n) /\ Movable(at, g, n)
           found == FindFile(n)
           entries == [i \in 1 .. (IF obj <= Len(found) THEN obj ELSE 0) |-> [n |-> found[obj + 1 - i], to |-> "dest"]]
       IN  /\ guard' = g /\ flag1' = (flag1 /\ ok)
           /\ at' = IF ok THEN [at EXCEPT ![n] = "dest"] ELSE at
           /\ IF ok THEN UNCHANGED <<answer, reboot, phase>>
              ELSE /\ answer' \in Answers
                   /\ phase' = IF answer' = "yes" THEN "lost" ELSE "next"
                   /\ reboot' = IF answer' = "yes" THEN reboot \o entries ELSE reboot
    /\ obj' = obj + 1
    /\ UNCHANGED <<world, held, list, k, longPath, fine, sweeps, agreed, told, births>>

\* Without windows both names are the argument of /R, a node of the disk or not; with
\* windows the operation is chosen in the dialog and there is no old name.  When that fails
\* without windows, all that is found at the first object is registered, the last first,
\* each part to be moved to where it is: the directory and name are the object's own.
RenameEntries ==
    LET found == AtReboot(SelectSeq(FindFile(disk.objects[1]), Valid))
    IN  [i \in DOMAIN found |-> [n |-> found[i], to |-> at[found[i]]]]
FileRename ==
    /\ phase = "next" /\ op = "rename"
    /\ phase' = "done"
    /\ IF ~silent THEN UNCHANGED <<guard, reboot>>
       ELSE /\ guard' \in {guard} \cup {[guard EXCEPT ![n] = "open"] : n \in {n \in DOMAIN at : SetACL(n)}}
            /\ reboot' \in {reboot, reboot \o RenameEntries}
    /\ UNCHANGED <<world, at, held, obj, list, k, longPath, fine, flag1, answer, sweeps, agreed, told, births>>

Done ==
    /\ phase = "next" /\ op # "rename" /\ obj = Len(disk.objects)
    /\ phase' = "done" /\ told' = (flag1 /\ ~silent)
    /\ UNCHANGED <<world, at, held, guard, obj, list, k, longPath, fine, flag1, answer, sweeps, reboot, agreed, births>>

------------------------------------------------------------------------------
(* Windows, and the other programs. *)

\* Nobody has anything open; a directory that is not empty is not deleted.
Applied(where, e) ==
    IF where[e.n] = "none" \/ (e.to = "none" /\ \E m \in DOMAIN where : where[m] = e.n) THEN where
    ELSE [where EXCEPT ![e.n] = e.to]
Reboot ==
    /\ phase \in {"done", "lost"} /\ phase' = "rebooted"
    /\ held' = {} /\ at' = FoldLeft(Applied, at, reboot)
    /\ UNCHANGED <<world, guard, obj, list, k, longPath, fine, flag1, answer, sweeps, reboot, agreed, told, births>>

Release ==
    /\ phase # "rebooted" /\ \E n \in held : held' = held \ {n}
    /\ UNCHANGED <<world, at, guard, phase, obj, list, k, longPath, fine, flag1, answer, sweeps, reboot, agreed, told, births>>

Create ==
    /\ births < MaxBirths /\ phase # "rebooted" /\ ~Here("new")
    /\ \E d \in {n \in DOMAIN at : Here(n) /\ disk.kind[n] = "dir" /\ n # "tmp"} : at' = [at EXCEPT !["new"] = d]
    /\ births' = births + 1
    /\ UNCHANGED <<world, held, guard, phase, obj, list, k, longPath, fine, flag1, answer, sweeps, reboot, agreed, told>>

------------------------------------------------------------------------------
Init ==
    /\ disk \in Disks /\ op \in {"delete", "rename", "move"} /\ silent \in BOOLEAN
    /\ at = disk.parent /\ held = disk.held /\ guard = disk.guard
    /\ phase = "next" /\ obj = 0 /\ list = << >> /\ k = 0 /\ longPath = FALSE /\ fine = TRUE /\ flag1 = TRUE
    /\ answer = "none" /\ sweeps = 0 /\ reboot = << >> /\ agreed = {} /\ told = FALSE /\ births = 0

Next ==
    \/ FindObject \/ DeleteNext \/ Tidy \/ Swept \/ Judge \/ FileMove \/ FileRename \/ Done
    \/ Reboot \/ Release \/ Create

Spec == Init /\ [][Next]_vars

------------------------------------------------------------------------------
\* Who is told that the object was deleted finds it gone - or it is a link that could not
\* be deleted, or its own path is too long to be seen (MyDeleteFileSubFunc).
DeletedIsGone ==
    told /\ op = "delete" =>
        \A i \in DOMAIN disk.objects : Valid(disk.objects[i]) => disk.kind[disk.objects[i]] = "link"

\* What is not below the objects stays as it is, links that lead there or not (FindFile).
OthersKept ==
    LET asked == UNION {BelowIn(disk.parent, disk.objects[i]) : i \in DOMAIN disk.objects}
    IN  \A n \in DOMAIN at \ (asked \cup {"tmp", "new"}) : at[n] = disk.parent[n]

\* What the user agreed to have deleted at the next start is gone then, unless there is
\* something in it that was not known or could not be named (ProcessRequestByteOperationType).
GoneAfterReboot == phase = "rebooted" => \A n \in agreed : Here(n) => \E m \in Below(n) : m \notin agreed
=============================================================================
