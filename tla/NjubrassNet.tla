----------------------------- MODULE NjubrassNet -----------------------------
(* What the dial-up client does when "Connect" is pressed, call by call: the       *)
(* notices it takes from the campus site, the entry of the phone book, the         *)
(* dialling, the icon, and the script for the routes (njubrassDlg.cpp).            *)
EXTENDS Integers, Sequences, SequencesExt

CONSTANTS Answers,    \* what the site sends: its lines and the pieces of the text behind them
          Size,       \* of the buffer for an answer, in such pieces
          Gateways,   \* those of the adapters
          Timers,     \* what Project2 asks for: the minutes, or 0 for nothing
          MaxDials    \* bound: how often "Connect" is pressed

VARIABLES step,        \* the call of OnConnect that is next, "idle", or "ended"
          off,         \* IDC_CHECK_off
          sockets,     \* that are open and that nobody knows any more
          shown,       \* the messages, with the page each is from
          entry,       \* the number of the entry njubras
          link,        \* the connection is up
          icon, window, grown,       \* how often the window was made higher
          script,      \* tmp.cmd: its routes, and whether it was executed
          timers,
          dials, book, errors        \* history: what became of the entry, and the errors
                                     \* told, since "Connect" was pressed

vars == <<step, off, sockets, shown, entry, link, icon, window, grown, script, timers, dials, book, errors>>

------------------------------------------------------------------------------
\* What recv leaves in the buffer: a first part of the answer. A buffer that is full has
\* no end: the text goes on with whatever is behind it.
Received(answer) ==
    {SubSeq(answer, 1, n) : n \in 0 .. Len(answer) \cap 0 .. Size - 1}
        \cup (IF Len(answer) < Size THEN {} ELSE {SubSeq(answer, 1, Size) \o <<"junk">>})

\* strstr: the text is behind the line that says that there is text.
MessageIn(str) ==
    IF Contains(str, "200 OK") /\ Contains(str, "text/plain")
    THEN SubSeq(str, SelectInSeq(str, LAMBDA piece : piece = "text/plain") + 1, Len(str))
    ELSE << >>

\* initialNet, initialNet2 and initialOffCampusNet: without a socket there is nothing to
\* do, a name that is not found and a connection that is refused leave the socket open.
NoSocket == UNCHANGED <<sockets, shown>>
NotReached == sockets' = sockets + 1 /\ UNCHANGED shown
Answered(page) ==
    /\ \E answer \in Answers : \E str \in Received(answer) :
           shown' = IF MessageIn(str) = << >> THEN shown
                    ELSE Append(shown, [page |-> page, text |-> MessageIn(str), answer |-> answer])
    /\ UNCHANGED sockets
Notice(page) == NoSocket \/ NotReached \/ Answered(page)

\* ErrorCause: the error is written below the fields, and the window made higher for it.
ErrorCause == errors' = errors + 1 /\ grown' = grown + 1

\* ExecuteNotifyIcon(1), which hides the window, and ExecuteNotifyIcon(2).
AddIcon == icon' = TRUE /\ window' = "hidden"
DeleteIcon == icon' = FALSE

------------------------------------------------------------------------------
\* OnConnect: initialNet, and the credentials saved.
initialNet ==
    /\ step = "idle" /\ dials < MaxDials
    /\ dials' = dials + 1 /\ off' \in BOOLEAN /\ book' = "none" /\ errors' = 0
    /\ Notice("error.txt")
    /\ step' = IF off' THEN "offcampus" ELSE "phonebook"
    /\ UNCHANGED <<entry, link, icon, window, grown, script, timers>>

initialOffCampusNet ==
    /\ step = "offcampus" /\ Notice("offcampus.txt") /\ step' = "phonebook"
    /\ UNCHANGED <<off, entry, link, icon, window, grown, script, timers, dials, book, errors>>

\* MyRasDial: an error is told, and forgotten. The properties are written before the
\* credentials are, and when their size is not known nothing is.
Wanted == IF off THEN "off" ELSE "campus"
MyRasDial ==
    /\ step = "phonebook" /\ step' = "dial"
    /\ \/ book' = "unknown" /\ UNCHANGED <<entry, grown, errors>>
       \/ book' = "failed" /\ entry' \in {entry, Wanted} /\ ErrorCause
       \/ book' = "written" /\ entry' = Wanted /\ UNCHANGED <<grown, errors>>
    /\ UNCHANGED <<off, sockets, shown, link, icon, window, script, timers, dials>>

\* MyGetAdaptersInfo: a gateway is added to those that are there, and at first there is
\* none; with two adapters the buffer for one is too small.
AdaptersInfo ==
    IF Len(Gateways) > 1 THEN << >>
    ELSE FoldLeft(LAMBDA info, gateway : IF Contains(info, gateway) \/ info = << >> THEN info
                                         ELSE Append(info, gateway), << >>, Gateways)

\* RasConnect: neither the result of RasDial nor that of RasGetConnectStatus counts, but
\* the last error, whoever left it; and an entry that is not there cannot be dialled.
RasConnect ==
    /\ step = "dial"
    /\ \E dialled \in IF entry = "none" THEN {FALSE} ELSE BOOLEAN, lastError \in BOOLEAN :
           \/ /\ lastError /\ link' = FALSE /\ ErrorCause
              /\ timers' = timers \cup {1001} /\ step' = "idle"
              /\ UNCHANGED <<icon, window>>
           \/ /\ ~lastError /\ link' = dialled /\ AddIcon
              /\ step' = IF off THEN "tell" ELSE "campus"
              /\ UNCHANGED <<timers, grown, errors>>
    /\ UNCHANGED <<off, sockets, shown, entry, script, dials, book>>

initialNet2 ==
    /\ step = "campus" /\ Notice("ru.txt") /\ step' = "routes"
    /\ UNCHANGED <<off, entry, link, icon, window, grown, script, timers, dials, book, errors>>

\* The script, of one route for each gateway and network: it is started, and deleted a
\* second later, read by then or not.
Routes ==
    /\ step = "routes" /\ step' = "tell"
    /\ \E read \in BOOLEAN : script' = [routes |-> AdaptersInfo, read |-> read]
    /\ UNCHANGED <<off, sockets, shown, entry, link, icon, window, grown, timers, dials, book, errors>>

\* The icon once more, and SuccessRet, which asks nobody for anything and ends the program
\* without deleting the icon.
SuccessRet ==
    /\ step = "tell" /\ AddIcon /\ step' = "ended"
    /\ UNCHANGED <<off, sockets, shown, entry, link, grown, script, timers, dials, book, errors>>

OnBnClickedExit ==
    /\ step = "idle" /\ DeleteIcon /\ step' = "ended" /\ window' = "closed"
    /\ UNCHANGED <<off, sockets, shown, entry, link, grown, script, timers, dials, book, errors>>

\* Reg_getvalue2, when the dialog is made: a timer that nobody handles.
Reg_getvalue2(minutes) == IF minutes = 0 THEN {} ELSE {1002}

Init ==
    /\ step = "idle" /\ off = FALSE /\ sockets = 0 /\ shown = << >> /\ entry \in {"none", "campus", "off"}
    /\ link = FALSE /\ icon = FALSE /\ window = "shown" /\ grown = 0
    /\ script = [routes |-> << >>, read |-> FALSE]
    /\ timers \in {Reg_getvalue2(minutes) : minutes \in Timers}
    /\ dials = 0 /\ book = "none" /\ errors = 0

Next ==
    \/ initialNet \/ initialOffCampusNet \/ MyRasDial \/ RasConnect \/ initialNet2 \/ Routes
    \/ SuccessRet \/ OnBnClickedExit

Spec == Init /\ [][Next]_vars

------------------------------------------------------------------------------
\* A message is the text of an answer that came, or what came of it in the first piece:
\* never that of an error page; and every page is asked for at the place where its
\* notice is for (initialNet, initialNet2, initialOffCampusNet).
MessagesRight ==
    \A i \in DOMAIN shown :
        LET m == shown[i]
        IN  /\ m.answer[1] = "200 OK"
            /\ IsPrefix(m.text, MessageIn(m.answer)) \/ Last(m.text) = "junk"
            /\ i > 1 /\ m.page # "error.txt" =>
                   m.page = "ru.txt" \/ shown[i - 1].page \in {"error.txt", "offcampus.txt"}

\* Of the sockets of one connection, at most the two that are opened for a notice stay
\* open (the returns of -1 behind socket()).
SocketsLeft == sockets + Len(shown) <= 2 * dials

\* When the entry could be written, what is connected is the number for where the user
\* is; and whatever was connected without it, the user was told or the size of an entry
\* was not known (MyRasDial, RasConnect).
NumberRight ==
    link => entry = Wanted \/ book = "unknown" \/ (book = "failed" /\ errors > 0)

\* A window that is hidden has its icon, and is hidden no longer than until the program
\* ends by itself; a connection is never up behind the window it was dialled from
\* (ExecuteNotifyIcon, RasConnect, SuccessRet).
IconThere == (icon <=> window = "hidden") /\ (icon => step # "idle") /\ (link => icon)

CampusHolds == MessagesRight /\ SocketsLeft /\ NumberRight /\ IconThere
==============================================================================
