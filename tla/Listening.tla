------------------------------ MODULE Listening ------------------------------
(* The start of the server, main of server.cpp up to accept, and the sockets    *)
(* of tcpip.cpp: the client connects to one of the addresses of a host          *)
(* (init_client_irs), the server takes the connection and names its peer.       *)
(* error and warning are printf in these files; the neterr of server.cpp ends   *)
(* the server, the one of tcpip.cpp only prints.                                *)
EXTENDS Integers, Sequences

CONSTANTS CmdLines,    \* command lines: sequences of [sw, arg]; sw "" is no switch
          Hosts,       \* the addresses a host name resolves to, in order
          Parsable,    \* the addresses inet_addr understands
          Here,        \* those of the server's machine
          MaxConnects  \* bound: calls of init_client_irs

VARIABLES server,      \* main: phase, the arguments left, what they set, bound
          client,      \* init_client_irs: addresses left, sock, what was returned
          sockets,     \* the client's open sockets: their number -> the peer
          backlog,     \* connections the server has not taken
          peer         \* the name of the last peer

vars == <<server, client, sockets, backlog, peer>>

NONE == "none"         \* NULL
NoSocket == 0          \* INVALID_SOCKET
ANY == "any"           \* INADDR_ANY
DEBUGGER_PORT_NUMBER == 23946

------------------------------------------------------------------------------
(* The server. *)

\* One switch; an unknown one prints the usage and the loop goes on.
Taken(s, o) ==
    CASE o.sw = "p" -> [s EXCEPT !.port_number = o.arg]
      [] o.sw = "P" -> [s EXCEPT !.password = o.arg]
      [] o.sw = "i" -> [s EXCEPT !.ipv4_address = o.arg]
      [] o.sw = "k" -> [s EXCEPT !.keep = TRUE]
      [] OTHER -> s

MoreOptions(s) == s.args # <<>> /\ Head(s.args).sw # ""

Option ==
    /\ server.phase = "options" /\ MoreOptions(server)
    /\ server' = [Taken(server, Head(server.args)) EXCEPT !.args = Tail(@)]
    /\ UNCHANGED <<client, sockets, backlog, peer>>

\* An address that cannot be parsed is replaced by any, in the announcement too.
Parsed(s) ==
    IF s.ipv4_address \in Parsable \cup {NONE} THEN s
    ELSE [s EXCEPT !.ipv4_address = NONE]

SockAddr(s) == [ip   |-> IF s.ipv4_address = NONE THEN ANY ELSE s.ipv4_address,
                port |-> s.port_number % 65536]

\* socket, bind and listen; each of them may fail, and bind does with a foreign address.
Listen ==
    /\ server.phase = "options" /\ ~MoreOptions(server)
    /\ \/ /\ SockAddr(Parsed(server)).ip \in Here \cup {ANY}
          /\ server' = [Parsed(server) EXCEPT !.phase = "accepting", !.bound = SockAddr(Parsed(server))]
       \/ server' = [Parsed(server) EXCEPT !.phase = "exited"]
    /\ UNCHANGED <<client, sockets, backlog, peer>>

\* sockaddr_to_name without a lookup of the host's name (irs_peername of handle_session):
\* the address, or nothing when it cannot be had.
SockaddrToName(ip) == IF ip # NONE THEN <<ip>> ELSE << >>

Accept ==
    /\ server.phase = "accepting" /\ backlog # <<>>
    /\ \E ip \in {Head(backlog).from, NONE} : peer' = SockaddrToName(ip)
    /\ backlog' = Tail(backlog)
    /\ UNCHANGED <<server, client, sockets>>

\* accept fails: EINTR is tried again, any other error ends the server.
AcceptFails ==
    /\ server.phase = "accepting"
    /\ server' = [server EXCEPT !.phase = "exited"]
    /\ backlog' = <<>>
    /\ UNCHANGED <<client, sockets, peer>>

------------------------------------------------------------------------------
(* The client. *)

Reachable(ip, port) ==
    /\ server.phase = "accepting" /\ ip \in Here
    /\ server.bound.port = port /\ server.bound.ip \in {ANY, ip}

\* getaddrinfo; a name that cannot be resolved has no addresses.
Resolve(host, port) ==
    /\ client.phase = "idle" /\ client.calls < MaxConnects
    /\ \E list \in {Hosts[host], << >>} :
         client' = [client EXCEPT !.phase = "trying", !.host = host, !.port = port,
                                  !.left = list, !.calls = @ + 1, !.sock = NoSocket]
    /\ UNCHANGED <<server, sockets, backlog, peer>>

\* getnameinfo or socket fails: the next address is tried. The first keeps sock.
Skip ==
    /\ client.phase = "trying" /\ client.left # <<>>
    /\ \E s \in {client.sock, NoSocket} : client' = [client EXCEPT !.left = Tail(@), !.sock = s]
    /\ UNCHANGED <<server, sockets, backlog, peer>>

\* closesocket after a connect that failed; sock keeps the number.
Closed(open, n) == [m \in DOMAIN open \ {n} |-> open[m]]

Free == CHOOSE n \in 1 .. 9 : n \notin DOMAIN sockets
NoPeer == [ip |-> NONE, port |-> 0]
Opened(n, to) == [m \in DOMAIN sockets \cup {n} |-> IF m = n THEN to ELSE sockets[m]]

ConnectFails ==
    /\ client.phase = "trying" /\ client.left # <<>>
    /\ client' = [client EXCEPT !.left = Tail(@), !.sock = Free]
    /\ sockets' = Closed(Opened(Free, NoPeer), Free)
    /\ UNCHANGED <<server, backlog, peer>>

Connect ==
    /\ client.phase = "trying" /\ client.left # <<>>
    /\ Reachable(Head(client.left), client.port)
    /\ sockets' = Opened(Free, [ip |-> Head(client.left), port |-> client.port])
    /\ backlog' = Append(backlog, [from |-> Head(client.left)])
    /\ client' = [client EXCEPT !.phase = "connected", !.sock = Free]
    /\ UNCHANGED <<server, peer>>

\* No address is left: NULL is returned.
GiveUp ==
    /\ client.phase = "trying" /\ client.left = <<>>
    /\ client' = [client EXCEPT !.phase = "idle", !.sock = NoSocket]
    /\ UNCHANGED <<server, sockets, backlog, peer>>

\* irs_term
Disconnect ==
    /\ client.phase = "connected"
    /\ sockets' = Closed(sockets, client.sock)
    /\ client' = [client EXCEPT !.phase = "idle", !.sock = NoSocket]
    /\ UNCHANGED <<server, backlog, peer>>

------------------------------------------------------------------------------
(* irs_ready and irs_recv: a timeout in milliseconds is cut into seconds and    *)
(* the rest, both rounded towards zero.                                         *)

Seconds(ms) == IF ms < 0 THEN -((-ms) \div 1000) ELSE ms \div 1000

\* select: a negative rest is refused; without data it returns 0 in the end, or never.
IrsReady(ms, data) ==
    IF Seconds(ms) # -1 /\ ms < 0 THEN "error"
    ELSE IF data THEN "ready" ELSE IF Seconds(ms) = -1 THEN "blocked" ELSE "timeout"

Qrecv(data) == IF data THEN "received" ELSE "blocked"

IrsRecv(ms, data) ==
    IF ms # -1 /\ IrsReady(ms, data) \in {"timeout", "blocked"} THEN IrsReady(ms, data)
    ELSE Qrecv(data)

------------------------------------------------------------------------------
Init ==
    /\ \E line \in CmdLines :
         server = [phase |-> "options", args |-> line, line |-> line,
                   port_number |-> DEBUGGER_PORT_NUMBER, ipv4_address |-> NONE,
                   password |-> NONE, keep |-> FALSE, bound |-> [ip |-> NONE, port |-> 0]]
    /\ client = [phase |-> "idle", host |-> NONE, port |-> 0, left |-> <<>>, sock |-> NoSocket,
                 calls |-> 0]
    /\ sockets = << >> /\ backlog = <<>> /\ peer = << >>

Next ==
    \/ Option \/ Listen \/ Accept \/ AcceptFails
    \/ \E host \in DOMAIN Hosts, port \in {80, DEBUGGER_PORT_NUMBER} : Resolve(host, port)
    \/ Skip \/ ConnectFails \/ Connect \/ GiveUp \/ Disconnect

Spec == Init /\ [][Next]_vars

------------------------------------------------------------------------------
\* What a switch was last given before the first argument that is none.
Last(line, sw, default) ==
    LET switches == {i \in DOMAIN line : \A j \in 1 .. i : line[j].sw # ""}
        given == {i \in switches : line[i].sw = sw}
    IN  IF given = {} THEN default
        ELSE line[CHOOSE i \in given : \A j \in given : j <= i].arg

\* The server listens where its command line says, on every address when that one cannot
\* be used, and announces the address it listens on (main, server.cpp).
ListensAsAsked ==
    server.phase = "accepting" =>
      LET asked == Last(server.line, "i", NONE)
      IN  /\ server.bound.port = Last(server.line, "p", DEBUGGER_PORT_NUMBER) % 65536
          /\ server.bound.ip = IF asked \in Parsable THEN asked ELSE ANY
          /\ server.password = Last(server.line, "P", NONE)
          /\ server.ipv4_address # NONE => server.ipv4_address = server.bound.ip

\* init_client_irs returns a socket that is open and connected to an address of the host,
\* and leaves none of the others it opened behind (tcpip.cpp).
StreamsOpen ==
    /\ client.phase = "connected" =>
         /\ client.sock \in DOMAIN sockets
         /\ sockets[client.sock].port = client.port
         /\ \E i \in DOMAIN Hosts[client.host] : sockets[client.sock].ip = Hosts[client.host][i]
    /\ DOMAIN sockets \subseteq {client.sock}

\* Data that has arrived is received whatever the timeout; without any, a call with a
\* timeout of at least zero comes back.
ReceivesInTime ==
    \A ms \in {-2000, -1000, -1, 0, 999, 1000, 2500} :
        /\ IrsRecv(ms, TRUE) = "received"
        /\ ms >= 0 => IrsRecv(ms, FALSE) = "timeout"

ConnectionsHold == ListensAsAsked /\ StreamsOpen /\ ReceivesInTime
==============================================================================
