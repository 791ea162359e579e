-------------------- MODULE MCPrograms --------------------
(* The programs beside the debug server, in one run: each behaviour is about one  *)
(* of them, chosen in the initial state, and the variables of the others stay 0.   *)
EXTENDS Sequences, TLC, RotateDisp

\* A disk for UnlockerFiles: d has a folder e with f, and a link j to t, which has u.
Disk == [parent |-> ("d" :> "drive") @@ ("e" :> "d") @@ ("f" :> "e") @@ ("j" :> "d") @@ ("t" :> "drive")
                    @@ ("u" :> "t") @@ ("tmp" :> "none") @@ ("new" :> "none"),
         kind |-> ("d" :> "dir") @@ ("e" :> "dir") @@ ("f" :> "file") @@ ("j" :> "link") @@ ("t" :> "dir")
                  @@ ("u" :> "file") @@ ("tmp" :> "dir") @@ ("new" :> "file"),
         to |-> "t", long |-> {}, held |-> {}, mayOwn |-> FALSE, objects |-> <<"d">>,
         guard |-> [n \in {"d", "e", "f", "j", "t", "u", "tmp", "new"} |-> "open"]]
MCDisks == {[Disk EXCEPT !.long = l, !.held = h, !.guard["f"] = g, !.mayOwn = m] :
              l \in {{}, {"j", "e", "f"}}, h \in SUBSET {"f", "j"}, g \in {"open", "denied", "owned"}, m \in BOOLEAN}
           \cup {[Disk EXCEPT !.objects = <<"f", "j">>, !.held = h, !.guard["j"] = "denied"] : h \in {{}, {"f"}}}

\* What has the object open: a module and a handle of two processes, or two handles of
\* one, and a file whose path begins with the object's.
System == [procs |-> {4, 16}, modules |-> {[pid |-> 16, file |-> "object"], [pid |-> 4, file |-> "other"]},
           handles |-> <<[pid |-> 4, num |-> 8, file |-> "object"], [pid |-> 4, num |-> 4, file |-> "other"]>>,
           key |-> FALSE]
MCSystems == {System, [System EXCEPT !.key = TRUE, !.modules = {}, !.handles[2].file = "sibling"]}
MCCmdLines == {<<"C:\\a">>, <<"C:\\a", "/S", "/D">>, <<"C:\\a", "/M">>, <<"C:\\a", "/M", "C:\\b", "/S">>, <<"/H">>}

\* The list of the dialog: two handles of one process and a library of another, with
\* keys that are alike in some columns; the dialog and its controls in dialog units.
Item(p, k1, k2, k3) == [pid |-> p, icon |-> p, keys |-> (0 :> k1) @@ (1 :> k2) @@ (2 :> p) @@ (3 :> k3) @@ (4 :> k1)]
MCItemLists == {<< >>, <<Item(7, 2, 1, -1), Item(7, 2, 1, 8), Item(4, 1, 1, 4)>>}
Box(x, y, w, h) == [x |-> x, y |-> y, w |-> w, h |-> h]
MCTemplate == [place |-> Box(50, 60, 400, 200),
               controls |-> [quit |-> Box(350, 180, 40, 15), all |-> Box(300, 180, 40, 15),
                             unlock |-> Box(250, 180, 40, 15), kill |-> Box(200, 180, 40, 15),
                             list |-> Box(5, 5, 390, 160), combo |-> Box(5, 180, 90, 15)]]
MCLengths == [quit |-> 30, all |-> 60, unlock |-> 44, kill |-> 70]
MCPlaces == {Box(50, 60, 400, 200), Box(0, 0, 640, 480)}

MCPanels == {[w |-> 4, h |-> 3], [w |-> 3, h |-> 4]}
MCTaken == {{}, {[angle |-> 1, shift |-> FALSE], [angle |-> 1, shift |-> TRUE]}}

\* User names and passwords: of every length modulo four, with "?", "=" and signs past 127.
MCTexts == {<< >>, <<48>>, <<48, 127>>, <<50, 48, 61>>, <<200, 48>>, <<63, 127, 48, 97>>, <<32, 63, 32>>}

\* What the campus site sends for a page: a notice, an error, no text, and an empty text.
MCAnswers == {<<"200 OK", "text/plain", "a", "b">>, <<"404", "text/plain", "c">>, <<"200 OK", "a">>,
              <<"200 OK", "text/plain">>}

\* Memory that fits into a word, and memory that does not.
Memory(all, free, more, some) == [physical |-> [total |-> all, avail |-> free], virtual |-> [total |-> more, avail |-> some]]
MCMemories == {Memory(15, 6, 20, 3), Memory(15, 0, 20, 19), Memory(63, 33, 80, 79)}

\* A folder d with files and folders, streams on all of them, and a link to a file.
Tree == ("d" :> "none") @@ ("e" :> "d") @@ ("f" :> "d") @@ ("g" :> "e") @@ ("h" :> "e") @@ ("i" :> "h") @@ ("l" :> "d")
Streams == [parent |-> Tree,
            kind |-> ("d" :> "dir") @@ ("e" :> "dir") @@ ("f" :> "file") @@ ("g" :> "file") @@ ("h" :> "dir")
                     @@ ("i" :> "file") @@ ("l" :> "linkfile"),
            target |-> ("l" :> "g"),
            streams |-> ("d" :> <<"s">>) @@ ("e" :> <<"s", "t">>) @@ ("f" :> <<"::$DATA", "s">>)
                        @@ ("g" :> <<"::$DATA", "s", "t">>) @@ ("h" :> << >>) @@ ("i" :> <<"::$DATA", "s">>) @@ ("l" :> << >>),
            length |-> [n \in DOMAIN Tree |-> "fits"], denied |-> {}, cwd |-> "d", begin |-> DOMAIN Tree]
MCTrees == {Streams, [Streams EXCEPT !.begin = @ \ {"i"}, !.denied = {"g"}, !.kind["l"] = "linkdir"],
            [Streams EXCEPT !.length["h"] = "over", !.length["i"] = "over", !.length["g"] = "far"]}
MCSearches == {<< >>, <<"-d", "0">>, <<"-d", "1", "-f", "d">>, <<"-f", "e", "-d", "2">>, <<"-h">>, <<"-f", "x">>, <<"-f", "f", "-d">>}

MCRests == {<<97>>, <<255>>, <<97, 190>>, <<190, 97, 255>>, <<97, 97, 97, 255>>}

MCPasswd == ("app" :> [uid |-> 5, gid |-> 6]) @@ ("sys" :> [uid |-> 0, gid |-> 3])
MCCallers == {[uid |-> 0, gid |-> 0, groups |-> <<9>>], [uid |-> 5, gid |-> 6, groups |-> <<6>>]}

VARIABLES part,
          uf_disk, at, held, guard, op, silent, phase, obj, uf_list, k, longPath,
          fine, flag1, answer, sweeps, reboot, agreed, uf_told, births,
          system, procs, modules, handles, param, un_pc, key, loaded, modified,
          table, un_list, un_items, kill, choice, operated, update, opens,
          un_rounds, listed, pressed, touched,
          ld_items, rows, images, direction, column, columns, dialog, windows,
          rects, exists, file, ld_open, ld_rounds, ld_steps, measured, laidOut,
          untouched, closed,
          head, run, uh_pc, hooked, icons, inbox, code, thunk, refused, starts,
          commands, conflict,
          nj_window, button, form, reg, ipsec, hrasconn, nj_link, nj_entry,
          nj_script, kept, runs, nj_dials,
          step, off, sockets, nn_shown, nn_entry, nn_link, nn_icon, nn_window,
          grown, nn_script, timers, nn_dials, book, errors,
          isShowInKb, isAlwayOnTop, checks, topmost, figures, unit, about, font,
          cursor, opened, mu_open, mu_steps, sample,
          al_disk, there, ever, always, changes, al_pc, root, subs, depth, stack,
          al_shown,
          fields, edited, address,
          ra_pc, hosts, first, data, said, ra_presses,
          su_pc, su_list, caller, ids, wanted, su_told

filesVars == <<uf_disk, at, held, guard, op, silent, phase, obj, uf_list, k, longPath, fine,
    flag1, answer, sweeps, reboot, agreed, uf_told, births>>
unlockerVars == <<system, procs, modules, handles, param, un_pc, key, loaded, modified, table,
    un_list, un_items, kill, choice, operated, update, opens, un_rounds, listed,
    pressed, touched>>
dialogVars == <<ld_items, rows, images, direction, column, columns, dialog, windows, rects,
    exists, file, ld_open, ld_rounds, ld_steps, measured, laidOut, untouched, closed>>
hookVars == <<head, run, uh_pc, hooked, icons, inbox, code, thunk, refused, starts, commands,
    conflict>>
displayVars == <<pc, panel, screen, dllOk, rotNum, timer, keys, icon, mouse, move, last, presses>>
dialupVars == <<nj_window, button, form, reg, ipsec, hrasconn, nj_link, nj_entry, nj_script,
    kept, runs, nj_dials>>
campusVars == <<step, off, sockets, nn_shown, nn_entry, nn_link, nn_icon, nn_window, grown,
    nn_script, timers, nn_dials, book, errors>>
memoryVars == <<isShowInKb, isAlwayOnTop, checks, topmost, figures, unit, about, font, cursor,
    opened, mu_open, mu_steps, sample>>
streamsVars == <<al_disk, there, ever, always, changes, al_pc, root, subs, depth, stack, al_shown>>
addressesVars == <<fields, edited, address>>
hostsVars == <<ra_pc, hosts, first, data, said, ra_presses>>
suVars == <<su_pc, su_list, caller, ids, wanted, su_told>>
programsVars == <<part, filesVars, unlockerVars, dialogVars, hookVars, displayVars, dialupVars, campusVars, memoryVars, streamsVars, addressesVars, hostsVars, suVars>>

Fs == INSTANCE UnlockerFiles WITH
    Disks <- MCDisks, MaxBirths <- 1, disk <- uf_disk, list <- uf_list,
    told <- uf_told
Un == INSTANCE Unlocker WITH
    Systems <- MCSystems, CmdLines <- MCCmdLines, MaxOpens <- 1, MaxRounds <- 1,
    pc <- un_pc, list <- un_list, items <- un_items, rounds <- un_rounds
Ld == INSTANCE LockedDialog WITH
    ItemLists <- MCItemLists, Template <- MCTemplate, Lengths <- MCLengths,
    Places <- MCPlaces, Widths <- {120}, MaxRounds <- 2, MaxSteps <- 2,
    items <- ld_items, open <- ld_open, rounds <- ld_rounds, steps <- ld_steps
Hk == INSTANCE UnlockerHook WITH
    Heads <- {"xp", "win7", "other"}, Instances <- {1, 2}, MaxStarts <- 1,
    MaxCommands <- 4, pc <- uh_pc
Nj == INSTANCE Njubrass WITH
    Texts <- MCTexts, MaxRuns <- 2, MaxDials <- 1, window <- nj_window,
    link <- nj_link, entry <- nj_entry, script <- nj_script, dials <- nj_dials
Nn == INSTANCE NjubrassNet WITH
    Answers <- MCAnswers, Size <- 4, Gateways <- <<"g">>, Timers <- {0, 5},
    MaxDials <- 2, shown <- nn_shown, entry <- nn_entry, link <- nn_link,
    icon <- nn_icon, window <- nn_window, script <- nn_script, dials <- nn_dials
Mu == INSTANCE MemUse WITH
    Memories <- MCMemories, Word <- 16, Kilo <- 4, Things <- {-1, 0, 1801, 1804},
    MaxSteps <- 3, open <- mu_open, steps <- mu_steps
Al == INSTANCE AltStreams WITH
    Disks <- MCTrees, Order <- <<"d", "e", "f", "g", "h", "i", "l">>,
    CmdLines <- MCSearches, MaxChanges <- 2, disk <- al_disk, pc <- al_pc,
    shown <- al_shown
Ad == INSTANCE Addresses WITH
    Rests <- MCRests, Extras <- {<<65>>, <<124, 66>>}
Ra == INSTANCE RemoveAdd WITH
    Pieces <- {<<"a">>, <<"h", "h">>, <<"h", "a">>, <<"h">>},
    Marker <- <<"r", "n", "r">>, MaxPieces <- 2, MaxPresses <- 3, pc <- ra_pc,
    presses <- ra_presses
Su == INSTANCE Su WITH
    Passwd <- MCPasswd, Numbers <- ("7" :> 7), Strangers <- {"x"}, MaxGids <- 2,
    Callers <- MCCallers, pc <- su_pc, list <- su_list, told <- su_told

\* The variables of the parts a behaviour is not about.
filesIdle ==
    /\ uf_disk = 0 /\ at = 0 /\ held = 0 /\ guard = 0 /\ op = 0 /\ silent = 0
    /\ phase = 0 /\ obj = 0 /\ uf_list = 0 /\ k = 0 /\ longPath = 0 /\ fine = 0
    /\ flag1 = 0 /\ answer = 0 /\ sweeps = 0 /\ reboot = 0 /\ agreed = 0 /\ uf_told = 0
    /\ births = 0
unlockerIdle ==
    /\ system = 0 /\ procs = 0 /\ modules = 0 /\ handles = 0 /\ param = 0 /\ un_pc = 0
    /\ key = 0 /\ loaded = 0 /\ modified = 0 /\ table = 0 /\ un_list = 0 /\ un_items = 0
    /\ kill = 0 /\ choice = 0 /\ operated = 0 /\ update = 0 /\ opens = 0 /\ un_rounds = 0
    /\ listed = 0 /\ pressed = 0 /\ touched = 0
dialogIdle ==
    /\ ld_items = 0 /\ rows = 0 /\ images = 0 /\ direction = 0 /\ column = 0 /\ columns = 0
    /\ dialog = 0 /\ windows = 0 /\ rects = 0 /\ exists = 0 /\ file = 0 /\ ld_open = 0
    /\ ld_rounds = 0 /\ ld_steps = 0 /\ measured = 0 /\ laidOut = 0 /\ untouched = 0 /\ closed = 0
hookIdle ==
    /\ head = 0 /\ run = 0 /\ uh_pc = 0 /\ hooked = 0 /\ icons = 0 /\ inbox = 0
    /\ code = 0 /\ thunk = 0 /\ refused = 0 /\ starts = 0 /\ commands = 0 /\ conflict = 0
displayIdle == ScreenInit /\ panel = [w |-> 4, h |-> 3] /\ dllOk
dialupIdle ==
    /\ nj_window = 0 /\ button = 0 /\ form = 0 /\ reg = 0 /\ ipsec = 0 /\ hrasconn = 0
    /\ nj_link = 0 /\ nj_entry = 0 /\ nj_script = 0 /\ kept = 0 /\ runs = 0 /\ nj_dials = 0
campusIdle ==
    /\ step = 0 /\ off = 0 /\ sockets = 0 /\ nn_shown = 0 /\ nn_entry = 0 /\ nn_link = 0
    /\ nn_icon = 0 /\ nn_window = 0 /\ grown = 0 /\ nn_script = 0 /\ timers = 0 /\ nn_dials = 0
    /\ book = 0 /\ errors = 0
memoryIdle ==
    /\ isShowInKb = 0 /\ isAlwayOnTop = 0 /\ checks = 0 /\ topmost = 0 /\ figures = 0 /\ unit = 0
    /\ about = 0 /\ font = 0 /\ cursor = 0 /\ opened = 0 /\ mu_open = 0 /\ mu_steps = 0
    /\ sample = 0
streamsIdle ==
    /\ al_disk = 0 /\ there = 0 /\ ever = 0 /\ always = 0 /\ changes = 0 /\ al_pc = 0
    /\ root = 0 /\ subs = 0 /\ depth = 0 /\ stack = 0 /\ al_shown = 0
addressesIdle ==
    /\ fields = 0 /\ edited = 0 /\ address = 0
hostsIdle ==
    /\ ra_pc = 0 /\ hosts = 0 /\ first = 0 /\ data = 0 /\ said = 0 /\ ra_presses = 0
suIdle ==
    /\ su_pc = 0 /\ su_list = 0 /\ caller = 0 /\ ids = 0 /\ wanted = 0 /\ su_told = 0

ProgramsInit ==
    \/ /\ part = "files" /\ Fs!Init
       /\ unlockerIdle /\ dialogIdle /\ hookIdle /\ displayIdle /\ dialupIdle /\ campusIdle /\ memoryIdle /\ streamsIdle /\ addressesIdle /\ hostsIdle /\ suIdle
    \/ /\ part = "unlocker" /\ Un!Init
       /\ filesIdle /\ dialogIdle /\ hookIdle /\ displayIdle /\ dialupIdle /\ campusIdle /\ memoryIdle /\ streamsIdle /\ addressesIdle /\ hostsIdle /\ suIdle
    \/ /\ part = "dialog" /\ Ld!Init
       /\ filesIdle /\ unlockerIdle /\ hookIdle /\ displayIdle /\ dialupIdle /\ campusIdle /\ memoryIdle /\ streamsIdle /\ addressesIdle /\ hostsIdle /\ suIdle
    \/ /\ part = "hook" /\ Hk!Init
       /\ filesIdle /\ unlockerIdle /\ dialogIdle /\ displayIdle /\ dialupIdle /\ campusIdle /\ memoryIdle /\ streamsIdle /\ addressesIdle /\ hostsIdle /\ suIdle
    \/ /\ part = "display" /\ ScreenInit
       /\ filesIdle /\ unlockerIdle /\ dialogIdle /\ hookIdle /\ dialupIdle /\ campusIdle /\ memoryIdle /\ streamsIdle /\ addressesIdle /\ hostsIdle /\ suIdle
    \/ /\ part = "dialup" /\ Nj!Init
       /\ filesIdle /\ unlockerIdle /\ dialogIdle /\ hookIdle /\ displayIdle /\ campusIdle /\ memoryIdle /\ streamsIdle /\ addressesIdle /\ hostsIdle /\ suIdle
    \/ /\ part = "campus" /\ Nn!Init
       /\ filesIdle /\ unlockerIdle /\ dialogIdle /\ hookIdle /\ displayIdle /\ dialupIdle /\ memoryIdle /\ streamsIdle /\ addressesIdle /\ hostsIdle /\ suIdle
    \/ /\ part = "memory" /\ Mu!Init
       /\ filesIdle /\ unlockerIdle /\ dialogIdle /\ hookIdle /\ displayIdle /\ dialupIdle /\ campusIdle /\ streamsIdle /\ addressesIdle /\ hostsIdle /\ suIdle
    \/ /\ part = "streams" /\ Al!Init
       /\ filesIdle /\ unlockerIdle /\ dialogIdle /\ hookIdle /\ displayIdle /\ dialupIdle /\ campusIdle /\ memoryIdle /\ addressesIdle /\ hostsIdle /\ suIdle
    \/ /\ part = "addresses" /\ Ad!Init
       /\ filesIdle /\ unlockerIdle /\ dialogIdle /\ hookIdle /\ displayIdle /\ dialupIdle /\ campusIdle /\ memoryIdle /\ streamsIdle /\ hostsIdle /\ suIdle
    \/ /\ part = "hosts" /\ Ra!Init
       /\ filesIdle /\ unlockerIdle /\ dialogIdle /\ hookIdle /\ displayIdle /\ dialupIdle /\ campusIdle /\ memoryIdle /\ streamsIdle /\ addressesIdle /\ suIdle
    \/ /\ part = "su" /\ Su!Init
       /\ filesIdle /\ unlockerIdle /\ dialogIdle /\ hookIdle /\ displayIdle /\ dialupIdle /\ campusIdle /\ memoryIdle /\ streamsIdle /\ addressesIdle /\ hostsIdle

ProgramsNext ==
    \/ /\ part = "files" /\ Fs!Next
       /\ UNCHANGED <<part, unlockerVars, dialogVars, hookVars, displayVars, dialupVars, campusVars, memoryVars, streamsVars, addressesVars, hostsVars, suVars>>
    \/ /\ part = "unlocker" /\ Un!Next
       /\ UNCHANGED <<part, filesVars, dialogVars, hookVars, displayVars, dialupVars, campusVars, memoryVars, streamsVars, addressesVars, hostsVars, suVars>>
    \/ /\ part = "dialog" /\ Ld!Next
       /\ UNCHANGED <<part, filesVars, unlockerVars, hookVars, displayVars, dialupVars, campusVars, memoryVars, streamsVars, addressesVars, hostsVars, suVars>>
    \/ /\ part = "hook" /\ Hk!Next
       /\ UNCHANGED <<part, filesVars, unlockerVars, dialogVars, displayVars, dialupVars, campusVars, memoryVars, streamsVars, addressesVars, hostsVars, suVars>>
    \/ /\ part = "display" /\ ScreenNext
       /\ UNCHANGED <<part, filesVars, unlockerVars, dialogVars, hookVars, dialupVars, campusVars, memoryVars, streamsVars, addressesVars, hostsVars, suVars>>
    \/ /\ part = "dialup" /\ Nj!Next
       /\ UNCHANGED <<part, filesVars, unlockerVars, dialogVars, hookVars, displayVars, campusVars, memoryVars, streamsVars, addressesVars, hostsVars, suVars>>
    \/ /\ part = "campus" /\ Nn!Next
       /\ UNCHANGED <<part, filesVars, unlockerVars, dialogVars, hookVars, displayVars, dialupVars, memoryVars, streamsVars, addressesVars, hostsVars, suVars>>
    \/ /\ part = "memory" /\ Mu!Next
       /\ UNCHANGED <<part, filesVars, unlockerVars, dialogVars, hookVars, displayVars, dialupVars, campusVars, streamsVars, addressesVars, hostsVars, suVars>>
    \/ /\ part = "streams" /\ Al!Next
       /\ UNCHANGED <<part, filesVars, unlockerVars, dialogVars, hookVars, displayVars, dialupVars, campusVars, memoryVars, addressesVars, hostsVars, suVars>>
    \/ /\ part = "addresses" /\ Ad!Next
       /\ UNCHANGED <<part, filesVars, unlockerVars, dialogVars, hookVars, displayVars, dialupVars, campusVars, memoryVars, streamsVars, hostsVars, suVars>>
    \/ /\ part = "hosts" /\ Ra!Next
       /\ UNCHANGED <<part, filesVars, unlockerVars, dialogVars, hookVars, displayVars, dialupVars, campusVars, memoryVars, streamsVars, addressesVars, suVars>>
    \/ /\ part = "su" /\ Su!Next
       /\ UNCHANGED <<part, filesVars, unlockerVars, dialogVars, hookVars, displayVars, dialupVars, campusVars, memoryVars, streamsVars, addressesVars, hostsVars>>

ProgramsSpec == ProgramsInit /\ [][ProgramsNext]_programsVars

-----------------------------------------------------------------------------
\* The Unlocker deletes and moves what it was told and nothing else; what it reports
\* deleted is gone, and what it puts off is gone after the reboot it asked for; it closes
\* and ends nothing but what it has listed, takes its driver out, and does the operation
\* that was chosen, when that can be done at once; the list of its dialog is right however
\* it is sorted and sized; its hook jumps only to where the library is, and leaves the
\* explorer's function as it was unless its memory could not be made executable; and an
\* assistant closed for a conflict stays away (unlocker.cpp, hook.cpp).
UnlockerHolds ==
    /\ part = "files" => Fs!DeletedIsGone /\ Fs!OthersKept /\ Fs!GoneAfterReboot
    /\ part = "unlocker" => Un!OnlyListedTouched /\ Un!DriverGone /\ Un!OperatesAsAsked
    /\ part = "dialog" => Ld!DialogHolds
    /\ part = "hook" => Hk!JumpsToLibrary /\ Hk!FunctionKept /\ Hk!DisabledByConflict

\* The smaller programs: credentials saved by one start are read by the next, and what
\* is dialled and told is what was asked for (njubrassDlg.cpp); the figures of the memory
\* agree (MemUse.cpp); every alternate stream in reach is shown once (NecessaryDef.cpp);
\* an address typed in one form reads the same in the others; the hosts file keeps its
\* text and gets the advertisement's addresses once (removeadd.cpp); and su runs the
\* command as who was asked for, or says why not (su.cpp).
ToolsHold ==
    /\ part = "dialup" => Nj!CredentialsKept
    /\ part = "campus" => Nn!CampusHolds
    /\ part = "memory" => Mu!MemoryShown
    /\ part = "streams" => Al!StreamsShown
    /\ part = "addresses" => Ad!AddressReadBack /\ Ad!FormsAgree
    /\ part = "hosts" => Ra!AddedOnce /\ Ra!ContentKept
    /\ part = "su" => Su!RunsAsAsked /\ Su!FailureIsTold
=============================================================================
