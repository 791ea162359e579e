----------------------------- MODULE ProcessList -----------------------------
(* The list of processes a client can attach to: qfindfirst64 and qfindnext64   *)
(* of prodir.cpp, get_process_list of linuxbase_debmod.cpp and                  *)
(* dbg_process_get_info of debmod.cpp. The directory of process numbers is a    *)
(* global of the server; qfindclose64, which empties it, has no caller.         *)
EXTENDS Integers, Sequences, SequencesExt, FiniteSets

CONSTANTS Pids, MyPid,
          MaxListings,   \* bound: enumerations
          MaxChanges     \* bound: births and deaths of processes

VARIABLES procs,         \* running processes: pid to [exe readable, bitness]
          dirinfo, pt,   \* prodir.cpp: numbers read so far, the next one to hand out
          found,         \* the entry the loop of get_process_list is at
          proclist,      \* debmod_t::proclist
          listing,       \* a listing is under way
          seen,          \* processes that have run all through the listing
          listings, changes

vars == <<procs, dirinfo, pt, found, proclist, listing, seen, listings, changes>>

Proc == [exe : BOOLEAN, bitness : {4, 8}]
NoPid == 0

\* readdir of /proc: the running processes, and the server itself.
Entries == SetToSortSeq(DOMAIN procs \cup {MyPid}, <)

------------------------------------------------------------------------------
\* push_back may move the vector; the iterator goes back to the first entry.
Rewound(info) == 1

\* Seeded bug: the list of the last request is added to.
KeptList == proclist
ClearedList == <<>>

\* The numbers are added to those of earlier listings. Hands out the first.
FindFirst ==
    /\ ~listing /\ listings < MaxListings
    /\ LET info == dirinfo \o Entries
       IN  /\ dirinfo' = info
           /\ found' = info[Rewound(info)]
           /\ pt' = Rewound(info) + 1
    /\ listing' = TRUE /\ listings' = listings + 1
    /\ proclist' = ClearedList
    /\ seen' = {p \in DOMAIN procs : procs[p].exe}
    /\ UNCHANGED <<procs, changes>>

AtEnd(info) == pt > Len(info)

\* The loop goes on with the next number, or ends.
FindNext ==
    /\ listing /\ found = NoPid
    /\ IF AtEnd(dirinfo)
       THEN listing' = FALSE /\ UNCHANGED <<found, pt>>
       ELSE found' = dirinfo[pt] /\ pt' = pt + 1 /\ UNCHANGED listing
    /\ UNCHANGED <<procs, dirinfo, proclist, seen, listings, changes>>

SkipSelf(pid) == pid = MyPid

\* readlink of /proc/<pid>/exe.
Readable(pid) ==
    IF pid = MyPid THEN TRUE ELSE IF pid \in DOMAIN procs THEN procs[pid].exe ELSE FALSE

\* A process is listed when its executable can be read, with its bitness.
Visit ==
    /\ listing /\ found # NoPid
    /\ found' = NoPid
    /\ proclist' = IF SkipSelf(found) \/ ~Readable(found) THEN proclist
                   ELSE Append(proclist, [pid |-> found,
                            bitness |-> IF found = MyPid THEN 4 ELSE procs[found].bitness])
    /\ UNCHANGED <<procs, dirinfo, pt, listing, seen, listings, changes>>

------------------------------------------------------------------------------
(* The processes of the device; a number may be used again. *)
Born(p, info) ==
    /\ p \notin DOMAIN procs /\ changes < MaxChanges
    /\ procs' = [q \in DOMAIN procs \cup {p} |-> IF q = p THEN info ELSE procs[q]]
    /\ changes' = changes + 1
    /\ UNCHANGED <<dirinfo, pt, found, proclist, listing, seen, listings>>

Dies(p) ==
    /\ p \in DOMAIN procs /\ changes < MaxChanges
    /\ procs' = [q \in DOMAIN procs \ {p} |-> procs[q]]
    /\ seen' = seen \ {p}
    /\ changes' = changes + 1
    /\ UNCHANGED <<dirinfo, pt, found, proclist, listing, listings>>

Init ==
    /\ \E S \in SUBSET Pids : procs \in [S -> Proc]
    /\ dirinfo = <<>> /\ pt = 0 /\ found = NoPid
    /\ proclist = <<>> /\ listing = FALSE /\ seen = {}
    /\ listings = 0 /\ changes = 0

Next ==
    \/ FindFirst \/ FindNext \/ Visit
    \/ \E p \in Pids, info \in Proc : Born(p, info)
    \/ \E p \in Pids : Dies(p)

Spec == Init /\ [][Next]_vars

------------------------------------------------------------------------------
\* A listing that has ended has every process that ran all through it and whose
\* executable can be read (get_process_list).
AllListed ==
    ~listing /\ listings > 0 => \A p \in seen : \E i \in DOMAIN proclist : proclist[i].pid = p

\* A process can be listed twice, because the directory is never emptied, but not
\* more often than there were listings.
ListedAtMost ==
    \A p \in Pids : Cardinality({i \in DOMAIN proclist : proclist[i].pid = p}) <= listings

\* The client is given the processes there are.
ProcessesListed == AllListed /\ ListedAtMost

==============================================================================
