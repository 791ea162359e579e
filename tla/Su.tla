---------------------------------- MODULE Su ----------------------------------
(* su.cpp: takes the list of a user, a group and further groups apart, changes *)
(* the identity of the process and executes the command.                       *)
EXTENDS Integers, Sequences

CONSTANTS Passwd,     \* users of the system: name -> [uid, gid]
          Numbers,    \* names that are numbers: name -> number
          Strangers,  \* names that are neither
          MaxGids,    \* size of the array gids
          Callers     \* who calls: [uid, gid, groups]

VARIABLES pc,
          list,       \* the argument
          caller,
          ids,        \* of the process
          wanted,     \* locals of main: uid, gid, gids
          told        \* messages written

vars == <<pc, list, caller, ids, wanted, told>>

Names == DOMAIN Passwd \cup DOMAIN Numbers \cup Strangers

\* What is neither a user nor a number counts as 0, with a message.
PwToId(tok) ==
    CASE tok \in DOMAIN Passwd -> Passwd[tok]
      [] tok \in DOMAIN Numbers -> [uid |-> Numbers[tok], gid |-> Numbers[tok]]
      [] OTHER -> [uid |-> 0, gid |-> 0]

\* The groups behind the first two names that have a place in the array.
Gids(rest) == SubSeq(rest, 1, IF Len(rest) < MaxGids THEN Len(rest) ELSE MaxGids)

ExtractUidgids ==
    /\ pc = "extract" /\ pc' = "setgroups"
    /\ LET gids == Gids(SubSeq(list, 3, Len(list)))
       IN  /\ wanted' =
               IF list = <<>> THEN [uid |-> 0, gid |-> 0, gids |-> <<>>]
               ELSE [uid |-> PwToId(list[1]).uid,
                     gid |-> PwToId(IF Len(list) = 1 THEN list[1] ELSE list[2]).gid,
                     gids |-> [i \in DOMAIN gids |-> PwToId(gids[i]).gid]]
           /\ told' = told
               \cup (IF \E i \in 1 .. Len(gids) + 2 : i <= Len(list) /\ list[i] \in Strangers
                     THEN {"invalid"} ELSE {})
               \cup (IF Len(list) - 2 > MaxGids THEN {"too many"} ELSE {})
    /\ UNCHANGED <<list, caller, ids>>

------------------------------------------------------------------------------
(* The system calls. A call that is refused leaves a message, and su goes on.  *)

Privileged == ids.uid = 0

SetGroups ==
    /\ pc = "setgroups" /\ pc' = "setgid"
    /\ IF wanted.gids = <<>> THEN UNCHANGED <<ids, told>>
       ELSE IF Privileged THEN ids' = [ids EXCEPT !.groups = wanted.gids] /\ UNCHANGED told
       ELSE told' = told \cup {"setgroups"} /\ UNCHANGED ids
    /\ UNCHANGED <<list, caller, wanted>>

SetGid ==
    /\ pc = "setgid" /\ pc' = "setuid"
    /\ IF Privileged \/ wanted.gid = ids.gid
       THEN ids' = [ids EXCEPT !.gid = wanted.gid] /\ UNCHANGED told
       ELSE told' = told \cup {"setgid"} /\ UNCHANGED ids
    /\ UNCHANGED <<list, caller, wanted>>

SetUid ==
    /\ pc = "setuid" /\ pc' = "exec"
    /\ IF Privileged \/ wanted.uid = ids.uid
       THEN ids' = [ids EXCEPT !.uid = wanted.uid] /\ UNCHANGED told
       ELSE told' = told \cup {"setuid"} /\ UNCHANGED ids
    /\ UNCHANGED <<list, caller, wanted>>

Exec ==
    /\ pc = "exec"
    /\ \/ pc' = "running" /\ UNCHANGED told
       \/ pc' = "failed" /\ told' = told \cup {"exec"}
    /\ UNCHANGED <<list, caller, ids, wanted>>

Init ==
    /\ pc = "extract" /\ caller \in Callers /\ ids = caller
    /\ list \in UNION {[1 .. n -> Names] : n \in 0 .. MaxGids + 3}
    /\ wanted = [uid |-> 0, gid |-> 0, gids |-> <<>>] /\ told = {}

Next == ExtractUidgids \/ SetGroups \/ SetGid \/ SetUid \/ Exec

Spec == Init /\ [][Next]_vars

------------------------------------------------------------------------------
\* Started by root, su runs the command as the user and the group it was given,
\* in the groups of the list, or in those of the caller where the list has none;
\* a list longer than that does not go unmentioned (the order of su.cpp:226-248).
RunsAsAsked ==
    pc = "running" /\ caller.uid = 0 =>
        LET named == IF list = <<>> THEN [uid |-> 0, gid |-> 0] ELSE PwToId(list[1])
            more == [i \in 1 .. Len(list) - 2 |-> PwToId(list[i + 2]).gid]
        IN  /\ ids.uid = named.uid
            /\ ids.gid = IF Len(list) >= 2 THEN PwToId(list[2]).gid ELSE named.gid
            /\ Len(list) >= 3 => /\ ids.groups # <<>>
                                 /\ \/ ids.groups = more
                                    \/ /\ Len(more) > MaxGids /\ "too many" \in told
                                       /\ ids.groups = SubSeq(more, 1, MaxGids)
            /\ Len(list) < 3 => ids.groups = caller.groups

\* Who runs the command as somebody else than asked has been told so.
FailureIsTold ==
    pc = "running" =>
        /\ ids.uid # wanted.uid => "setuid" \in told
        /\ ids.gid # wanted.gid => "setgid" \in told
=============================================================================
