----------------------------- MODULE RpcSession -----------------------------
(***************************************************************************)
(* One logged-in session of the debug server: rpc_engine_t                 *)
(* (jni/rpc_engine.cpp) and rpc_server_t (jni/rpc_server.cpp) over a TCP   *)
(* stream, with a client at the other end.                                 *)
(*                                                                         *)
(* process_request waits for one answer and meanwhile performs whatever    *)
(* requests arrive, so both sides nest: the server's C++ stack is the      *)
(* sequence srv.frames of requests it is performing (and of poll_events    *)
(* calls that are waiting for an answer), the client's is cl.calls.        *)
(* The record srv is the rpc_server_t with the part of its debmod_t that   *)
(* matters here.  What a server step sends is computed with the new record *)
(* as an outcome, because a failed send changes where the code goes next.  *)
(* The client's program is not part of the repository; it is modelled from *)
(* the protocol in consts.h and the client half of rpc_engine_t.           *)
(***************************************************************************)
EXTENDS Integers, Sequences

CONSTANTS ClientPolls,  \* TRUE: after an empty GET_DEBUG_EVENT the client waits for RPC_EVENT
          MaxEvents,    \* bound on the events the debugged process produces by itself
          MaxExtra,     \* bound on the requests other than GET_DEBUG_EVENT and CONTINUE
          MaxTalk,      \* bound on the messages (dmsg, dwarning) the server sends
          MaxNames      \* bound on the packets one list of debug names needs

ASSUME PollsAssumption == ClientPolls \in BOOLEAN
ASSUME BoundsAssumption ==
    MaxEvents \in Nat /\ MaxExtra \in Nat /\ MaxTalk \in Nat /\ MaxNames \in Nat

VARIABLES srv,        \* the server: rpc_server_t and its stack
          cl,         \* the client
          toServer, toClient,   \* packets in flight
          net,        \* "up" or "down"
          made,       \* events produced by the debugged process
          budget      \* extra requests, timed-out appcalls and messages left

vars == <<srv, cl, toServer, toClient, net, made, budget>>

Requests == {"GET_DEBUG_EVENT", "CONTINUE_AFTER_EVENT", "STOPPED_AT_DEBUG_EVENT",
             "APPCALL", "OTHER"}
Callbacks == {"MSG", "SET_DEBUG_NAMES", "HANDLE_DEBUG_EVENT"}

\* n: number of the event carried, 0 if none; re: what an OK answers;
\* good: the value of an answer is the one hoped for.
Packet == [code : Requests \cup Callbacks \cup {"OK", "EVENT", "EVOK"}, n : Nat,
           re : Requests \cup Callbacks \cup {"CLOSE", "none"}, good : BOOLEAN]
Bare(c) == [code |-> c, n |-> 0, re |-> "none", good |-> TRUE]
Carrying(c, k) == [Bare(c) EXCEPT !.n = k]
Answer(re, k) == [Carrying("OK", k) EXCEPT !.re = re]

\* A request being performed, or a poll_events call ("POLL") that waits.
\* wait: the callback whose answer is awaited; last: the appcall ends after it;
\* left: name packets to send; timed, late: the appcall has a timeout, it passed.
Frame == [op : Requests \cup {"POLL"}, saved : BOOLEAN, wait : Callbacks \cup {"none"},
          last : BOOLEAN, left : 0 .. MaxNames, timed : BOOLEAN, late : BOOLEAN]
NewFrame(op, saved) == [op |-> op, saved |-> saved, wait |-> "none", last |-> FALSE,
                        left |-> 0, timed |-> FALSE, late |-> FALSE]

Server == [pc : {"recv", "null", "loop", "ended"}, frames : Seq(Frame),
           poll_debug_events : BOOLEAN, has_pending_event : BOOLEAN,
           network_error_code : BOOLEAN, broken_connection : BOOLEAN,
           in_event : BOOLEAN, got : Nat]
ClientState == [calls : Seq(Requests \cup Callbacks), held : Nat, pending : Nat,
                polling : BOOLEAN, told : Nat, gone : BOOLEAN]

\* Each run: every value is one the program can have.
TypeOK ==
    /\ srv \in Server
    /\ cl \in ClientState
    /\ toServer \in Seq(Packet) /\ toClient \in Seq(Packet)
    /\ net \in {"up", "down"}
    /\ made \in Nat
    /\ budget \in [extra : Nat, talk : Nat]

Init ==
    /\ srv = [pc |-> "recv", frames |-> << >>, poll_debug_events |-> FALSE,
              has_pending_event |-> FALSE, network_error_code |-> FALSE,
              broken_connection |-> FALSE, in_event |-> FALSE, got |-> 0]
    /\ cl = [calls |-> << >>, held |-> 0, pending |-> 0, polling |-> FALSE,
             told |-> 0, gone |-> FALSE]
    /\ toServer = << >> /\ toClient = << >>
    /\ net = "up"
    /\ made = 0
    /\ budget = [extra |-> MaxExtra, talk |-> MaxTalk]

TopOf(q) == q[Len(q)]
Pop(q) == SubSeq(q, 1, Len(q) - 1)
Push(s, f) == [s EXCEPT !.frames = Append(@, f)]
Popped(s) == [s EXCEPT !.frames = Pop(@)]
Top(s) == TopOf(s.frames)
Retop(s, f) == [s EXCEPT !.frames[Len(s.frames)] = f]
At(s, pc) == [s EXCEPT !.pc = pc]

-----------------------------------------------------------------------------
(* The server: sending *)

Outcome(s, out) == [srv |-> s, out |-> out]
Silent(s) == {Outcome(s, << >>)}

\* send_request: on a dead connection the packet may vanish or the send fails.
\* Where the code goes: sent and unsent are the server records after each.
Sending(sent, unsent, p) ==
    IF unsent.network_error_code THEN Silent(unsent)
    ELSE IF net = "up" THEN {Outcome(sent, <<p>>)}
    ELSE Silent(sent) \cup
         Silent([unsent EXCEPT !.network_error_code = TRUE, !.broken_connection = TRUE])

\* perform_request has restored the poll mode and returns.
Performed(s) == [Popped(s) EXCEPT !.poll_debug_events = @ \/ Top(s).saved]

\* Seeded bug: only the outermost process_request sends the reply.
ReplyingOutermost(s, k) ==
    IF Len(s.frames) > 1 THEN Silent(At(Performed(s), "recv"))
    ELSE Sending(At(Performed(s), "recv"), At(Performed(s), "null"), Answer(Top(s).op, k))

\* The end of perform_request, and process_request sends the reply.
Replying(s, k) ==
    Sending(At(Performed(s), "recv"), At(Performed(s), "null"), Answer(Top(s).op, k))

\* A nested process_request: the caller waits for the client's answer, or sees
\* the failure at once.
Calling(s, callback, k) ==
    LET asked == Retop(s, [Top(s) EXCEPT !.wait = callback])
    IN Sending(At(asked, "recv"), At(asked, "null"), Carrying(callback, k))

-----------------------------------------------------------------------------
(* The server: performing requests *)

\* Seeded bug: the poll mode stays on during the request.
EnteredPolling(s, op) == Push(s, NewFrame(op, s.poll_debug_events))

\* The beginning of perform_request, and of poll_events.
Entered(s, op) ==
    [Push(s, NewFrame(op, op # "POLL" /\ s.poll_debug_events)) EXCEPT !.poll_debug_events = FALSE]

\* dbg_get_debug_event finds an event.
Fetched(s) == [s EXCEPT !.in_event = TRUE, !.got = @ + 1]
EventReady(s) == s.got < made

\* Seeded bug: the poll mode is not turned on when there is no event.
GetDebugEventNoPoll(s) ==
    IF ~s.has_pending_event /\ EventReady(s) THEN Replying(Fetched(s), s.got + 1)
    ELSE Replying(s, 0)

GetDebugEvent(s) ==
    IF s.has_pending_event THEN Replying(s, 0)
    ELSE IF EventReady(s) THEN Replying(Fetched(s), s.got + 1)
    ELSE Replying(Retop(s, [Top(s) EXCEPT !.saved = TRUE]), 0)

\* STOPPED_AT_DEBUG_EVENT: the names go out in packets, each of them answered;
\* a bad answer ends the list and the request succeeds all the same.
SendNames(s, left) ==
    IF left = 0 THEN Replying(s, 0)
    ELSE Calling(Retop(s, [Top(s) EXCEPT !.left = left]), "SET_DEBUG_NAMES", 0)

\* dbg_continue_after_event of the debugger module.
Continued(s) == [s EXCEPT !.in_event = FALSE]

\* dbg_appcall up to its event loop; it may give up before it resumes, or fail
\* to resume.
Appcall(s) ==
    Replying(s, s.got) \cup Replying(Continued(s), s.got) \cup
    UNION {Silent(At(Continued(Retop(s, [Top(s) EXCEPT !.timed = t])), "loop")) : t \in BOOLEAN}

\* The rest of poll_events: has_pending_event is set and reset around the send.
PollEvents(s) ==
    LET idle == At(Popped(s), "recv")
    IN IF EventReady(s)
       THEN Sending(Fetched(idle), At(Fetched(idle), "null"), Carrying("EVENT", s.got + 1))
       ELSE Silent([idle EXCEPT !.poll_debug_events = TRUE])

\* The switch of perform_request (and poll_events) for the frame on top.
Body(s) ==
    LET op == Top(s).op
    IN IF op = "GET_DEBUG_EVENT" THEN GetDebugEvent(s)
       ELSE IF op = "CONTINUE_AFTER_EVENT" THEN Replying(Continued(s), 0)
       ELSE IF op = "STOPPED_AT_DEBUG_EVENT" THEN UNION {SendNames(s, k) : k \in 0 .. MaxNames}
       ELSE IF op = "APPCALL" THEN Appcall(s)
       ELSE IF op = "POLL" THEN PollEvents(s)
       ELSE Replying(s, 0)

\* Seeded bug: the appcall goes on whatever the client's answer.
AppcallAnsweredAnyway(s, good) ==
    IF Top(s).last THEN Replying(s, s.got) ELSE Silent(At(Continued(s), "loop"))

\* send_debug_event_to_ida has returned in the event loop of dbg_appcall.
AppcallAnswered(s, good) ==
    IF good /\ ~Top(s).last THEN Silent(At(Continued(s), "loop")) ELSE Replying(s, s.got)

\* The nested process_request returns to the frame on top.
Returned(s, good) ==
    LET f == Top(s)
        s1 == Retop(s, [f EXCEPT !.wait = "none"])
    IN IF f.wait = "MSG" THEN Body(s1)
       ELSE IF f.wait = "SET_DEBUG_NAMES" THEN SendNames(s1, IF good THEN f.left - 1 ELSE 0)
       ELSE AppcallAnswered(s1, good)
-----------------------------------------------------------------------------
(* The server's steps *)

Takes(outcomes) == \E o \in outcomes : srv' = o.srv /\ toClient' = toClient \o o.out

PacketArrived(c) == srv.pc = "recv" /\ toServer # << >> /\ Head(toServer).code \in c

ServerPerforms ==
    /\ PacketArrived(Requests)
    /\ Takes(Body(Entered(srv, Head(toServer).code)))
    /\ toServer' = Tail(toServer)
    /\ UNCHANGED <<cl, net, made, budget>>

\* While it works on a request the server says something to the user.
ServerTalks ==
    /\ PacketArrived(Requests) /\ budget.talk > 0
    /\ Takes(Calling(Entered(srv, Head(toServer).code), "MSG", 0))
    /\ toServer' = Tail(toServer)
    /\ budget' = [budget EXCEPT !.talk = @ - 1]
    /\ UNCHANGED <<cl, net, made>>

\* Seeded bug: RPC_EVOK is answered.
EvokAnswered(s) == Replying(Entered(s, "OTHER"), 0)

\* perform_request clears the reply of RPC_EVOK; process_request receives again.
Evok(s) == Silent(IF s.network_error_code THEN At(s, "null") ELSE s)

ServerEvok ==
    /\ PacketArrived({"EVOK"})
    /\ Takes(Evok(srv))
    /\ toServer' = Tail(toServer)
    /\ UNCHANGED <<cl, net, made, budget>>

\* RPC_OK ends the innermost process_request; the outermost one ends the session.
ServerAnswered ==
    /\ PacketArrived({"OK"})
    /\ Takes(IF srv.frames = << >> THEN Silent(At(srv, "ended"))
             ELSE Returned(srv, Head(toServer).good))
    /\ toServer' = Tail(toServer)
    /\ UNCHANGED <<cl, net, made, budget>>

\* recv_all polls only while nothing has arrived.
Polling == /\ srv.pc = "recv" /\ srv.poll_debug_events /\ toServer = << >> /\ net = "up"
           /\ ~srv.has_pending_event

ServerPolls ==
    /\ Polling
    /\ Takes(Body(Entered(srv, "POLL")))
    /\ UNCHANGED <<cl, toServer, net, made, budget>>

ServerPollTalks ==
    /\ Polling /\ budget.talk > 0
    /\ Takes(Calling(Entered(srv, "POLL"), "MSG", 0))
    /\ budget' = [budget EXCEPT !.talk = @ - 1]
    /\ UNCHANGED <<cl, toServer, net, made>>

\* irs_recv finds the connection closed (error code 0) or broken.
ServerLost ==
    /\ srv.pc = "recv" /\ toServer = << >> /\ net = "down"
    /\ \E code \in BOOLEAN :
          srv' = [At(srv, "null") EXCEPT !.network_error_code = @ \/ code,
                                         !.broken_connection = TRUE]
    /\ UNCHANGED <<cl, toServer, toClient, net, made, budget>>

\* Seeded bug: a failed nested process_request is tried again.
UnwoundRetry(s) == IF s.frames = << >> THEN Silent(At(s, "ended")) ELSE Silent(At(s, "recv"))

\* process_request has returned NULL.
Unwound(s) ==
    IF s.frames = << >> THEN Silent(At(s, "ended")) ELSE Returned(At(s, "recv"), FALSE)

ServerUnwinds ==
    /\ srv.pc = "null"
    /\ Takes(Unwound(srv))
    /\ UNCHANGED <<cl, toServer, net, made, budget>>

\* The event loop of dbg_appcall: the control breakpoint or an exception ends
\* the appcall, other events are shown to the client.
AppcallEvent ==
    /\ srv.pc = "loop" /\ EventReady(srv)
    /\ LET s == Fetched(srv)
           Shown(last) == Calling(Retop(s, [Top(s) EXCEPT !.last = last]),
                                  "HANDLE_DEBUG_EVENT", s.got)
       IN Takes(IF Top(s).late THEN Shown(TRUE)
                ELSE Replying(s, s.got) \cup Shown(TRUE) \cup Shown(FALSE))
    /\ UNCHANGED <<cl, toServer, net, made, budget>>

\* The timeout passes: dbg_prepare_to_pause_process fails, or makes the process
\* report one more event.
AppcallTimeout ==
    /\ srv.pc = "loop" /\ Top(srv).timed /\ ~Top(srv).late
    /\ \/ Takes(Replying(srv, srv.got)) /\ made' = made
       \/ Takes(Silent(Retop(srv, [Top(srv) EXCEPT !.late = TRUE]))) /\ made' = made + 1
    /\ UNCHANGED <<cl, toServer, net, budget>>
-----------------------------------------------------------------------------
(* The client (external) *)

Waiting == cl.calls # << >> /\ TopOf(cl.calls) \in Requests
Answering == cl.calls # << >> /\ TopOf(cl.calls) \in Callbacks
Idle == cl.calls = << >> /\ ~cl.gone

\* In the callbacks about names and events the client may ask for more; a
\* message is only shown.
CallsBack == Answering /\ TopOf(cl.calls) # "MSG"

Asks(request) ==
    /\ cl' = [cl EXCEPT !.calls = Append(@, request)]
    /\ toServer' = Append(toServer, Bare(request))
    /\ UNCHANGED <<srv, toClient, net, made>>

ClientGetEvent ==
    /\ Idle /\ cl.held = 0 /\ cl.pending = 0 /\ ~cl.polling
    /\ Asks("GET_DEBUG_EVENT") /\ UNCHANGED budget

ClientContinues ==
    /\ Idle /\ cl.held # 0
    /\ Asks("CONTINUE_AFTER_EVENT") /\ UNCHANGED budget

ClientExtra ==
    /\ budget.extra > 0
    /\ \/ Idle /\ cl.held # 0 /\ \E r \in {"STOPPED_AT_DEBUG_EVENT", "APPCALL"} : Asks(r)
       \/ (Idle \/ CallsBack) /\ Asks("OTHER")
    /\ budget' = [budget EXCEPT !.extra = @ - 1]

ClientTakesEvent ==
    /\ Idle /\ cl.pending # 0
    /\ cl' = [cl EXCEPT !.held = cl.pending, !.pending = 0]
    /\ UNCHANGED <<srv, toServer, toClient, net, made, budget>>

\* A client that waits, or that polls for RPC_EVENT, reads the stream.
ToClientArrived(c) ==
    /\ Waiting \/ (Idle /\ cl.polling)
    /\ toClient # << >> /\ Head(toClient).code \in c

ClientReply ==
    /\ ToClientArrived({"OK"}) /\ Waiting
    /\ LET call == TopOf(cl.calls)
           k == Head(toClient).n
           c == [cl EXCEPT !.calls = Pop(@), !.told = IF k = 0 THEN @ ELSE k]
       IN cl' = CASE call = "GET_DEBUG_EVENT" /\ k # 0 -> [c EXCEPT !.held = k]
                  [] call = "GET_DEBUG_EVENT" /\ k = 0 -> [c EXCEPT !.polling = ClientPolls]
                  [] call = "CONTINUE_AFTER_EVENT" -> [c EXCEPT !.held = 0]
                  [] OTHER -> c
    /\ toClient' = Tail(toClient)
    /\ UNCHANGED <<srv, toServer, net, made, budget>>

ClientEvent ==
    /\ ToClientArrived({"EVENT"})
    /\ cl' = [cl EXCEPT !.pending = Head(toClient).n, !.told = Head(toClient).n,
                        !.polling = FALSE]
    /\ toClient' = Tail(toClient)
    /\ toServer' = Append(toServer, Bare("EVOK"))
    /\ UNCHANGED <<srv, net, made, budget>>

ClientCallback ==
    /\ ToClientArrived(Callbacks)
    /\ LET p == Head(toClient)
       IN cl' = [cl EXCEPT !.calls = Append(@, p.code), !.told = IF p.n = 0 THEN @ ELSE p.n]
    /\ toClient' = Tail(toClient)
    /\ UNCHANGED <<srv, toServer, net, made, budget>>

ClientAnswers ==
    /\ Answering
    /\ \E good \in BOOLEAN :
          toServer' = Append(toServer, [Answer(TopOf(cl.calls), 0) EXCEPT !.good = good])
    /\ cl' = [cl EXCEPT !.calls = Pop(@)]
    /\ UNCHANGED <<srv, toClient, net, made, budget>>

Gone == [cl EXCEPT !.calls = << >>, !.gone = TRUE]

\* close_remote: the client says goodbye with RPC_OK and closes the socket.
ClientCloses ==
    /\ Idle /\ net = "up"
    /\ cl' = Gone
    /\ toServer' = Append(toServer, Answer("CLOSE", 0))
    /\ toClient' = << >>
    /\ net' = "down"
    /\ UNCHANGED <<srv, made, budget>>

\* The client dies or the connection breaks; what was in flight may be lost.
ConnectionBreaks ==
    /\ net = "up"
    /\ cl' = Gone
    /\ \E k \in 0 .. Len(toServer) : toServer' = SubSeq(toServer, 1, k)
    /\ toClient' = << >>
    /\ net' = "down"
    /\ UNCHANGED <<srv, made, budget>>

Happens ==
    /\ made < MaxEvents
    /\ made' = made + 1
    /\ UNCHANGED <<srv, cl, toServer, toClient, net, budget>>

-----------------------------------------------------------------------------
Ended == srv.pc = "ended"

\* Nothing to do: the session is over, or no event will come any more.
Terminated ==
    /\ \/ Ended
       \/ /\ made >= MaxEvents /\ ~EventReady(srv)
          /\ \/ srv.frames = << >> /\ Idle /\ cl.polling /\ toServer = << >> /\ toClient = << >>
             \/ srv.pc = "loop" /\ ~Top(srv).timed
    /\ UNCHANGED vars

ServerStep == \/ ServerPerforms \/ ServerTalks \/ ServerEvok \/ ServerAnswered
              \/ ServerPolls \/ ServerPollTalks \/ ServerLost \/ ServerUnwinds
              \/ AppcallEvent \/ AppcallTimeout
ClientStep == \/ ClientGetEvent \/ ClientContinues \/ ClientExtra \/ ClientTakesEvent
              \/ ClientReply \/ ClientEvent \/ ClientCallback \/ ClientAnswers
              \/ ClientCloses \/ ConnectionBreaks

Next == ServerStep \/ ClientStep \/ Happens \/ Terminated

\* The server thread runs; a client that has something to read, to answer or to
\* ask for does so, and the user resumes the process in the end.
Fairness == /\ WF_vars(ServerStep)
            /\ WF_vars(AppcallTimeout)
            /\ WF_vars(ClientGetEvent) /\ WF_vars(ClientContinues)
            /\ WF_vars(ClientTakesEvent) /\ WF_vars(ClientReply) /\ WF_vars(ClientEvent)
            /\ WF_vars(ClientCallback) /\ WF_vars(ClientAnswers)

Spec == Init /\ [][Next]_vars /\ Fairness

-----------------------------------------------------------------------------
(* Properties *)

\* poll_events runs only at the outermost level: "While the server is performing
\* a request, it should not poll for debugger events" (rpc_server.cpp:325).
NoPollWhilePerforming == srv.frames # << >> => ~srv.poll_debug_events

\* Answers match calls although both sides nest: the next RPC_OK each side reads
\* answers the call on top of its stack.
RepliesMatch ==
    /\ toClient # << >> /\ Head(toClient).code = "OK" /\ ~Answering =>
          Waiting /\ Head(toClient).re = TopOf(cl.calls)
    /\ PacketArrived({"OK"}) /\ srv.frames # << >> /\ Head(toServer).re # "CLOSE" =>
          Head(toServer).re = Top(srv).wait

\* Never do both sides wait for each other with nothing on the wire.
NoMutualWait ==
    ~(net = "up" /\ srv.pc = "recv" /\ Waiting /\ toServer = << >> /\ toClient = << >>)

\* The server takes events from the debugged process one at a time and resumes
\* it only when the client knows the last one.
Delivery == INSTANCE EventDelivery
    WITH made <- made, taken <- srv.got, told <- cl.told, stopped <- srv.in_event
DeliversEvents == Delivery!Spec

\* Every event reaches the client while the session lasts: the poll mode is never
\* lost and no nested call swallows an event.
EventTold == \A k \in 1 .. MaxEvents : (made >= k) ~> (cl.told >= k \/ cl.gone)

\* A session whose client has gone ends, unless an appcall without a timeout
\* waits for an event of the debugged process.
SessionEnds ==
    cl.gone ~> (Ended \/ (srv.pc = "loop" /\ ~Top(srv).timed /\ ~EventReady(srv)))
=============================================================================
