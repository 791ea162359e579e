---------------------------- MODULE AltStreams ----------------------------
(* AltStreamDump: the alternate streams of the files in a folder and of its    *)
(* subfolders, shown one by one, while other programs add and remove files.    *)
(* FindFirstFileW hands out what was there when it was called, in order.       *)
EXTENDS Integers, Sequences, SequencesExt, FiniteSets

CONSTANTS Disks,      \* [parent, kind, target, streams, length, denied, cwd, begin], see below
          Order,      \* the nodes as FindFirstFileW sorts them
          CmdLines,   \* arguments, the program's name left out
          MaxChanges  \* bound: what other programs add and remove

\* A disk: parent of each node, "none" at the top; kind: "dir", "file", "linkdir" or
\* "linkfile" (to target); streams: its streams, "::$DATA" being what files have anyway;
\* length of its full path: "fits", "far" (no call takes it) or "over" (324 characters);
\* denied: who may not be opened; cwd; begin: the nodes there are at first.
VARIABLES disk, there, ever, always, changes,
          pc,        \* "start", "search", "done", "help"
          root,      \* FolderPath
          subs,      \* SearchSubFolders
          depth,     \* SubfoldersDepth
          stack,     \* RecurseFind: [path, rel, level, pass, left]
          shown      \* <<node, stream>>, as they are shown

vars == <<disk, there, ever, always, changes, pc, root, subs, depth, stack, shown>>

Default == "::$DATA"
\* A path: a node; rel, when it is written from the current folder; node "" is no path.
Path(n, r) == [node |-> n, rel |-> r]
Reaches(p) == p.node \in there /\ (p.rel \/ disk.length[p.node] = "fits")
Wtoi(s) == CASE s = "1" -> 1 [] s = "2" -> 2 [] OTHER -> 0

\* SetParam for each argument and the one behind it.
SetParam(params, type, data) ==
    CASE type = "-d" -> [params EXCEPT !.subs = TRUE, !.depth = Wtoi(data)]
      [] type = "-f" -> [params EXCEPT !.root = data]
      [] OTHER -> params
Params(args) ==
    FoldLeft(LAMBDA params, i : SetParam(params, args[i], args[i + 1]),
             [subs |-> FALSE, depth |-> 0, root |-> disk.cwd], [i \in 1 .. Len(args) - 1 |-> i])

\* GetStream and GetStreamData: only a folder's own call may open folders; "." and ".."
\* of a folder, which the first loop takes for files, are not opened.
Opened(p, folder) ==
    /\ Reaches(p) /\ p.node \notin disk.denied
    /\ disk.kind[p.node] \in {"dir", "linkdir"} => folder
    /\ disk.kind[p.node] = "linkfile" => disk.target[p.node] \in there
StreamsOf(n) == disk.streams[IF disk.kind[n] = "linkfile" THEN disk.target[n] ELSE n]
GetStream(p, folder) ==
    IF ~Opened(p, folder) THEN << >>
    ELSE LET named == SelectSeq(StreamsOf(p.node), LAMBDA s : s # Default)
         IN  [i \in DOMAIN named |-> <<p.node, named[i]>>]

\* FindFirstFileW of path\*.*: without a path, of the current folder.
Searched(p) == IF p.node = "" THEN disk.cwd ELSE p.node
Found(p) ==
    IF p.node # "" /\ (~Reaches(p) \/ p.node \in disk.denied \/ disk.kind[p.node] = "file") THEN << >>
    ELSE SelectSeq(Order, LAMBDA n : n \in there /\ disk.parent[n] = Searched(p))
CurrentFileName(p, n) ==
    IF p.node = "" \/ p.rel THEN Path(n, TRUE)
    ELSE IF disk.length[n] = "over" THEN Path("", FALSE) ELSE Path(n, FALSE)
IsDir(n) == disk.kind[n] = "dir"

\* RecurseFind up to its first loop.
Frame(p, level) == [path |-> p, level |-> level, pass |-> "files", left |-> Found(p)]
Enter(p, level, below) ==
    /\ stack' = Append(below, Frame(p, level))
    /\ shown' = shown \o GetStream(p, TRUE)

Main ==
    /\ pc = "start"
    /\ \E args \in CmdLines :
         /\ LET params == Params(args)
            IN  /\ subs' = params.subs
                /\ depth' = params.depth
                /\ root' = params.root
         /\ IF args # << >> /\ args[1] = "-h"
            THEN pc' = "help" /\ UNCHANGED <<stack, shown>>
            ELSE pc' = "search" /\ Enter(Path(root', FALSE), 0, << >>)
    /\ UNCHANGED <<disk, there, ever, always, changes>>

Top == Last(stack)
Below == Front(stack)
Searching == pc = "search" /\ stack # << >>
Rest == Append(Below, [Top EXCEPT !.left = Tail(@)])

\* The first loop: everything that is no folder.
NextFile ==
    /\ Searching /\ Top.pass = "files" /\ Top.left # << >>
    /\ stack' = Rest
    /\ shown' = IF IsDir(Head(Top.left)) THEN shown
                ELSE shown \o GetStream(CurrentFileName(Top.path, Head(Top.left)), FALSE)
    /\ UNCHANGED <<disk, there, ever, always, changes, pc, root, subs, depth>>

FilesDone ==
    /\ Searching /\ Top.pass = "files" /\ Top.left = << >>
    /\ stack' = Append(Below, [Top EXCEPT !.pass = "folders", !.left = Found(Top.path)])
    /\ UNCHANGED <<disk, there, ever, always, changes, pc, root, subs, depth, shown>>

\* The second loop: the folders, while the depth allows.
GoesDeeper(level) == subs /\ (depth = 0 \/ depth > level)
NextFolder ==
    /\ Searching /\ Top.pass = "folders" /\ Top.left # << >>
    /\ IF IsDir(Head(Top.left)) /\ GoesDeeper(Top.level)
       THEN Enter(CurrentFileName(Top.path, Head(Top.left)), Top.level + 1, Rest)
       ELSE stack' = Rest /\ UNCHANGED shown
    /\ UNCHANGED <<disk, there, ever, always, changes, pc, root, subs, depth>>

FolderDone ==
    /\ Searching /\ Top.pass = "folders" /\ Top.left = << >>
    /\ stack' = Below
    /\ pc' = IF Below = << >> THEN "done" ELSE pc
    /\ UNCHANGED <<disk, there, ever, always, changes, root, subs, depth, shown>>

\* Other programs.
Appears(n) ==
    /\ n \notin ever /\ disk.parent[n] \in there
    /\ there' = there \cup {n} /\ ever' = ever \cup {n}
    /\ UNCHANGED always
Vanishes(n) ==
    /\ n \in there /\ \A m \in there : disk.parent[m] # n
    /\ there' = there \ {n} /\ always' = always \ {n}
    /\ UNCHANGED ever
Change ==
    /\ pc = "search" /\ changes < MaxChanges /\ changes' = changes + 1
    /\ \E n \in DOMAIN disk.parent : Appears(n) \/ Vanishes(n)
    /\ UNCHANGED <<disk, pc, root, subs, depth, stack, shown>>

Init ==
    /\ disk \in Disks
    /\ there = disk.begin /\ ever = disk.begin /\ always = disk.begin /\ changes = 0
    /\ pc = "start" /\ root = "" /\ subs = FALSE /\ depth = 0
    /\ stack = << >> /\ shown = << >>

Next == Main \/ NextFile \/ FilesDone \/ NextFolder \/ FolderDone \/ Change

---------------------------------------------------------------------------
\* The level of a node below the folder that is searched, -1 when it is elsewhere.
Level[n \in DOMAIN disk.parent \cup {"none"}] ==
    IF n = root THEN 0
    ELSE IF n = "none" THEN -1
    ELSE LET up == Level[disk.parent[n]] IN IF up = -1 THEN -1 ELSE up + 1
Asked(n) ==
    LET level == Level[n] + (IF IsDir(n) THEN 0 ELSE -1)
    IN  Level[n] >= 0 /\ (level <= 0 \/ (subs /\ (depth = 0 \/ level <= depth)))
\* Neither it nor a folder on the way is out of the program's reach.
InReach[n \in DOMAIN disk.parent \cup {"none"}] ==
    /\ n \in always /\ n \notin disk.denied /\ disk.length[n] = "fits" /\ disk.kind[n] \in {"dir", "file"}
    /\ n = root \/ InReach[disk.parent[n]]
Shown(n, s) == Cardinality({i \in DOMAIN shown : shown[i] = <<n, s>>})

\* Every alternate stream of what stays where it is, down to the depth that was asked
\* for, is shown, and none is shown twice, whatever is added and removed meanwhile;
\* and nothing is shown of other folders.  Only when a folder's path does not fit is
\* something else searched in its place (RecurseFind, EnumNextFile).
StreamsShown ==
    /\ pc = "done" =>
         \A n \in always : Asked(n) /\ InReach[n] =>
            \A s \in ToSet(disk.streams[n]) \ {Default} : Shown(n, s) >= 1
    /\ (\A n \in ever : disk.length[n] # "over") =>
         \A i \in DOMAIN shown : Asked(shown[i][1]) /\ Shown(shown[i][1], shown[i][2]) = 1
===========================================================================
