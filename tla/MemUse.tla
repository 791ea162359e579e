-------------------------------- MODULE MemUse --------------------------------
(* The dialog that shows how much memory is used (MemUse.cpp): its figures, which  *)
(* a timer refreshes, the two settings of its menu, and its about box.             *)
EXTENDS Integers

CONSTANTS Memories,   \* what GlobalMemoryStatusEx may return: all and free of two kinds
          Word,       \* a number printed with %lu is below it (2^32)
          Kilo,       \* 1024
          Things,     \* what is in the about box: its control identifiers, 0 for the box itself
          MaxSteps    \* bound: what the user does

VARIABLES isShowInKb, isAlwayOnTop,
          checks,           \* the items of the menu that are checked
          topmost,          \* the window is above the others
          figures, unit,    \* what is shown: the numbers, and whether a K is behind them
          about,            \* the about box is open
          font, cursor,     \* of the about box: "none", "made", "deleted"; "arrow" or "hand"
          opened,           \* what was given to ShellExecute, by its control
          open, steps,
          sample            \* history: the memory as it was at the last refresh

vars == <<isShowInKb, isAlwayOnTop, checks, topmost, figures, unit, about, font, cursor, opened, open,
          steps, sample>>

KbItem == 114
TopItem == 112

\* showstring: a number of 64 bits is given where one of 32 is taken.
showstring(data, inKb) == (IF inKb THEN data \div Kilo ELSE data) % Word

\* timerfunc, of one sample.
FiguresOf(m, inKb) ==
    [kind \in DOMAIN m |->
        [total |-> showstring(m[kind].total, inKb),
         used |-> showstring(m[kind].total - m[kind].avail, inKb),
         available |-> showstring(m[kind].avail, inKb)]]
Refresh(inKb) ==
    \E m \in Memories : sample' = m /\ figures' = FiguresOf(m, inKb) /\ unit' = inKb

timerfunc ==
    /\ open /\ Refresh(isShowInKb)
    /\ UNCHANGED <<isShowInKb, isAlwayOnTop, checks, topmost, about, font, cursor, opened, open, steps>>

Use == open /\ ~about /\ steps < MaxSteps /\ steps' = steps + 1
Checked(item, on) == IF on THEN checks \cup {item} ELSE checks \ {item}

\* WM_SYSCOMMAND 114: the figures stay as they are until the timer comes.
ShowInKb ==
    /\ Use /\ isShowInKb' = ~isShowInKb /\ checks' = Checked(KbItem, isShowInKb')
    /\ UNCHANGED <<isAlwayOnTop, topmost, figures, unit, about, font, cursor, opened, open, sample>>

AlwaysOnTop ==
    /\ Use /\ isAlwayOnTop' = ~isAlwayOnTop /\ topmost' = isAlwayOnTop'
    /\ checks' = Checked(TopItem, isAlwayOnTop')
    /\ UNCHANGED <<isShowInKb, figures, unit, about, font, cursor, opened, open, sample>>

\* The about box is modal; the timer goes on.
About ==
    /\ Use /\ about' = TRUE /\ font' = "made" /\ cursor' = "arrow"
    /\ UNCHANGED <<isShowInKb, isAlwayOnTop, checks, topmost, figures, unit, opened, open, sample>>

\* Whatever is not the title counts as a link: its label and the box itself have
\* identifiers that are below those of the links too.
IsLink(thing) == thing <= 1803

MouseMove(thing) ==
    /\ about /\ cursor' = IF IsLink(thing) THEN "hand" ELSE "arrow"
    /\ UNCHANGED <<isShowInKb, isAlwayOnTop, checks, topmost, figures, unit, about, font, opened, open,
                   steps, sample>>

ButtonUp(thing) ==
    /\ about /\ IsLink(thing) /\ opened' = opened \cup {thing}
    /\ UNCHANGED <<isShowInKb, isAlwayOnTop, checks, topmost, figures, unit, about, font, cursor, open,
                   steps, sample>>

CloseAbout ==
    /\ about /\ about' = FALSE /\ font' = "deleted"
    /\ UNCHANGED <<isShowInKb, isAlwayOnTop, checks, topmost, figures, unit, cursor, opened, open, steps, sample>>

Close ==
    /\ open /\ ~about /\ open' = FALSE
    /\ UNCHANGED <<isShowInKb, isAlwayOnTop, checks, topmost, figures, unit, about, font, cursor, opened, steps, sample>>

Init ==
    /\ isShowInKb = FALSE /\ isAlwayOnTop = FALSE /\ checks = {} /\ topmost = FALSE
    /\ sample \in Memories /\ figures = FiguresOf(sample, FALSE) /\ unit = FALSE
    /\ about = FALSE /\ font = "none" /\ cursor = "arrow" /\ opened = {} /\ open = TRUE /\ steps = 0

Next ==
    \/ timerfunc \/ ShowInKb \/ AlwaysOnTop \/ About \/ CloseAbout \/ Close
    \/ \E thing \in Things : MouseMove(thing) \/ ButtonUp(thing)

Spec == Init /\ [][Next]_vars

------------------------------------------------------------------------------
\* The figures of one refresh agree: what is used and what is free make what there is, up
\* to what the division by 1024 leaves and to the 32 bits that are printed; and memory
\* that fits is shown as it was (timerfunc, showstring).
FiguresAgree ==
    \A kind \in DOMAIN sample :
        LET f == figures[kind]
            size == IF unit THEN sample[kind].total \div Kilo ELSE sample[kind].total
        IN  /\ (f.total - f.used - f.available) % Word \in (IF unit THEN {0, 1} ELSE {0})
            /\ size < Word => f.total = size /\ f.used <= size /\ f.available <= size

\* The marks in the menu tell what the figures will be in, and whether the window is kept
\* above the others; and the title of the about box opens nothing (DlgFunc, AboutDlgFunc).
MenuRight ==
    /\ KbItem \in checks <=> isShowInKb
    /\ TopItem \in checks <=> topmost
    /\ 1804 \notin opened

MemoryShown == FiguresAgree /\ MenuRight
==============================================================================
