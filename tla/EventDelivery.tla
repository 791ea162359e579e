--------------------------- MODULE EventDelivery ---------------------------
(***************************************************************************)
(* What the debug protocol promises about debug events, whatever way they  *)
(* travel (reply to RPC_GET_DEBUG_EVENT, RPC_EVENT packet, the             *)
(* RPC_HANDLE_DEBUG_EVENT callback or the reply to RPC_APPCALL): the       *)
(* server takes one event at a time from the debugged process, the client  *)
(* learns of every event, in order, and the process is not resumed before  *)
(* the client knows why it stopped.  Implemented by module RpcSession.     *)
(***************************************************************************)
EXTENDS Naturals

VARIABLES made,      \* events the debugged process has produced
          taken,     \* events the server has taken
          told,      \* the last event the client knows of
          stopped    \* an event is out and the process does not run

vars == <<made, taken, told, stopped>>

Init == made = 0 /\ taken = 0 /\ told = 0 /\ stopped = FALSE

Happen == made' = made + 1 /\ UNCHANGED <<taken, told, stopped>>

Take ==
    /\ ~stopped /\ taken < made
    /\ taken' = taken + 1 /\ stopped' = TRUE
    /\ UNCHANGED <<made, told>>

Tell ==
    /\ stopped /\ told + 1 = taken
    /\ told' = taken
    /\ UNCHANGED <<made, taken, stopped>>

Resume ==
    /\ stopped /\ told = taken
    /\ stopped' = FALSE
    /\ UNCHANGED <<made, taken, told>>

Next == Happen \/ Take \/ Tell \/ Resume
Spec == Init /\ [][Next]_vars
=============================================================================
