---------------------------- MODULE LockedDialog ----------------------------
(* The dialog of the Unlocker that lists who has the object open: where its        *)
(* controls go when it is made and sized, how the list is sorted, and its place    *)
(* and columns, which it keeps in a file (LockedDialogProc of unlocker.cpp).       *)
EXTENDS Integers, Sequences, SequencesExt

CONSTANTS ItemLists,   \* ListProcessGeneral: what the columns and the icon of a row are made of
          Template,    \* the dialog as it is created: its place and those of its controls
          Lengths,     \* the widths of the texts of its buttons
          Places,      \* where the user moves the dialog to, and how large
          Widths,      \* what the user makes of the width of a column
          MaxRounds,   \* bound: how often the dialog is opened
          MaxSteps     \* bound: what the user does with it

VARIABLES items, rows, images,      \* the list, as positions in items, and its icons
          direction, column,        \* ListSortDirection, and the column sorted by
          columns,                  \* the widths of the columns
          dialog, windows,          \* the client area on the screen, the controls in it
          rects,                    \* ListCtrlRect and those of the other controls
          exists, file,             \* whether there is a file, and its fields
          open, rounds, steps,
          measured, laidOut,        \* history: the controls when they were measured, whether
                                    \* they were laid out since,
          untouched, closed         \* whether the user left the dialog as it opened, and what
                                    \* it was when it was last written

vars == <<items, rows, images, direction, column, columns, dialog, windows, rects, exists, file,
          open, rounds, steps, measured, laidOut, untouched, closed>>

Buttons == {"quit", "all", "unlock", "kill"}
Controls == Buttons \cup {"list", "combo"}
Columns == 0 .. 4
NewWidths == [c \in Columns |-> CASE c = 0 -> 86 [] c \in {1, 4} -> 200 [] c = 2 -> 40 [] c = 3 -> 50]
At(x, y, w, h) == [x |-> x, y |-> y, w |-> w, h |-> h]
Ascending == [c \in Columns |-> FALSE]
Saved(left, top, right, bottom) == [left |-> left, top |-> top, right |-> right, bottom |-> bottom]

NoRects == [c \in Controls |-> Saved(0, 0, 0, 0)]

------------------------------------------------------------------------------
\* A control on the screen (GetWindowRect), relative to where the dialog was created.
Seen(win, now, made) == At(now.x + win.x - made.x, now.y + win.y - made.y, win.w, win.h)

\* MakeRect1, 2 and 3: what of a control is kept when the client area had the size of made.
MakeRect1(s, made) == Saved(s.x, s.y, made.w - s.w, made.h - s.h)
MakeRect2(s, made) == Saved(s.x, s.y - made.h, s.w, s.h)
MakeRect3(s, made) == Saved(s.x - made.w, s.y - made.h, s.w, s.h)
MakeRect(c, s, made) ==
    CASE c = "list" -> MakeRect1(s, made)
      [] c = "combo" -> MakeRect2(s, made)
      [] OTHER -> MakeRect3(s, made)

\* WM_SIZE: every control goes where its rectangle says for the client area there is.
Sized(rs, client) ==
    [c \in Controls |->
        CASE c = "list" -> At(rs[c].left, rs[c].top, client.w - rs[c].right, client.h - rs[c].bottom)
          [] c = "combo" -> At(rs[c].left, client.h + rs[c].top, rs[c].right, rs[c].bottom)
          [] OTHER -> At(client.w + rs[c].left, client.h + rs[c].top, rs[c].right, rs[c].bottom)]

\* Where the buttons and the combo box go when the dialog is made. What is moved in place
\* of "Quit" is the dialog itself, and what GetWindowRect returns from then on is
\* relative to where it is now.
QuitLeft == Template.controls["quit"].x + Template.controls["quit"].w - Lengths["quit"]
Moved == At(QuitLeft, Template.controls["quit"].y, Lengths["quit"], Template.controls["quit"].h)
UnlockLeft == QuitLeft - (Lengths["all"] + Lengths["unlock"] + 12)
Left(c) ==
    CASE c = "all" -> QuitLeft - Lengths["all"] - 6
      [] c = "unlock" -> UnlockLeft
      [] c = "kill" -> UnlockLeft - Lengths["kill"] - 6
Arranged(wins) ==
    [c \in Controls |->
        CASE c \in {"all", "unlock", "kill"} ->
                 At(Left(c), Seen(wins[c], Moved, Template.place).y, Lengths[c], wins[c].h)
          [] c = "combo" ->
                 At(Seen(wins[c], Moved, Template.place).x, Seen(wins[c], Moved, Template.place).y,
                    Lengths["quit"], wins[c].h)
          [] OTHER -> wins[c]]

SameSize(a, b) == a.w = b.w /\ a.h = b.h
AfterMoving(rs) ==
    Arranged(IF SameSize(Moved, Template.place) THEN Template.controls ELSE Sized(rs, Moved))

------------------------------------------------------------------------------
\* ListViewAddItems: a row for each item, with its position as image and as parameter.
Added == DOMAIN items

\* CompareFunc, on the positions of the items; the sorting leaves equal ones in any order.
InOrder(a, b, c, down) ==
    IF down THEN items[a].keys[c] >= items[b].keys[c] ELSE items[a].keys[c] <= items[b].keys[c]
Orders(c, down) ==
    {s \in SetToSeqs(Added) : \A i \in 1 .. Len(s) - 1 : InOrder(s[i], s[i + 1], c, down)}

\* One icon for each item, taken from the file of its process unless the process is that
\* of the item before.
Image(s, i) == IF i > 1 /\ items[i].pid = items[i - 1].pid THEN s[i - 1] ELSE items[i].icon
Images == FoldLeft(LAMBDA s, i : Append(s, Image(s, i)), << >>, [i \in DOMAIN items |-> i])

\* The fields of the file: what is missing leaves what the variable had, first of all
\* whatever was on the stack.
WidthFrom(c, junk) ==
    IF c + 2 <= Len(file) THEN file[c + 2] ELSE IF Len(file) > 1 THEN file[Len(file)] ELSE junk
PlaceFrom(junk) == IF file # << >> THEN file[1] ELSE junk

------------------------------------------------------------------------------
Init ==
    /\ items \in ItemLists
    /\ rows = << >> /\ images = << >> /\ direction = Ascending /\ column = 0
    /\ columns = NewWidths /\ dialog = Template.place /\ windows = Template.controls
    /\ rects = NoRects
    /\ exists = FALSE /\ file = << >> /\ open = FALSE /\ rounds = 0 /\ steps = 0
    /\ measured = Template.controls /\ laidOut = FALSE /\ untouched = FALSE /\ closed = << >>

\* WM_INITDIALOG, on what was found this time. Showing the dialog sizes it once more or
\* does not; a placement that was not read, or not whole, moves it anywhere or nowhere.
Open ==
    /\ ~open /\ rounds < MaxRounds /\ open' = TRUE /\ rounds' = rounds + 1 /\ untouched' = TRUE
    /\ items' \in ItemLists
    /\ \E wins \in {AfterMoving(rects)} :
           /\ measured' = [c \in Controls |-> Seen(wins[c], Moved, Template.place)]
           /\ rects' = [c \in Controls |-> MakeRect(c, measured'[c], Template.place)]
           /\ images' = Images'
           /\ direction' = [direction EXCEPT ![0] = FALSE] /\ column' = 0
           /\ rows' \in Orders(0, FALSE)'
           /\ \/ /\ ~exists /\ columns' = NewWidths /\ dialog' = Moved
              \/ /\ exists
                 /\ \E junk \in Widths : columns' = [c \in Columns |-> WidthFrom(c, junk)]
                 /\ \E junk \in Places \cup {Moved} : dialog' = PlaceFrom(junk)
           /\ laidOut' \in {~SameSize(dialog', Moved), TRUE}
           /\ windows' = IF laidOut' THEN Sized(rects', dialog') ELSE wins
    /\ UNCHANGED <<exists, file, steps, closed>>

Use == open /\ steps < MaxSteps /\ steps' = steps + 1

\* The user moves and sizes the dialog.
Resize(place) ==
    /\ Use /\ dialog' = place
    /\ laidOut' = (laidOut \/ ~SameSize(place, dialog))
    /\ windows' = IF SameSize(place, dialog) THEN windows ELSE Sized(rects, place)
    /\ untouched' = FALSE
    /\ UNCHANGED <<items, rows, images, direction, column, columns, rects, exists, file, open,
                   rounds, measured, closed>>

ColumnClick(c) ==
    /\ Use /\ direction' = [direction EXCEPT ![c] = ~@] /\ column' = c
    /\ rows' \in Orders(c, ~direction[c])
    /\ UNCHANGED <<items, images, columns, dialog, windows, rects, exists, file, open, rounds,
                   measured, laidOut, untouched, closed>>

ColumnWidth(c, width) ==
    /\ Use /\ columns' = [columns EXCEPT ![c] = width]
    /\ untouched' = FALSE
    /\ UNCHANGED <<items, rows, images, direction, column, dialog, windows, rects, exists, file, open,
                   rounds, measured, laidOut, closed>>

\* WriteWindowApparenceToFile: the file cannot be made, or a disk that is full cuts it
\* anywhere. "Unlock All" does it once for each item, the buttons for the selected ones
\* once; neither does anything when there is none. After "Quit" the program ends, and
\* its next start knows no more than the file.
Fields == <<dialog, columns[0], columns[1], columns[2], columns[3], columns[4]>>
Write ==
    \/ UNCHANGED <<exists, file, closed>>
    \/ exists' = TRUE /\ closed' = <<dialog, columns>> /\ \E n \in 0 .. Len(Fields) : file' = SubSeq(Fields, 1, n)
Kept(button) ==
    IF button = "quit" THEN rects' = NoRects /\ direction' = Ascending
                       ELSE UNCHANGED <<rects, direction>>
Close(button) ==
    /\ open /\ button \in {"all", "selected"} => items # << >>
    /\ open' = FALSE /\ untouched' = FALSE /\ Write /\ Kept(button)
    /\ UNCHANGED <<items, rows, images, column, columns, dialog, windows, rounds, steps, measured,
                   laidOut>>

Next ==
    \/ Open
    \/ \E place \in Places : Resize(place)
    \/ \E c \in Columns : ColumnClick(c) \/ \E width \in Widths : ColumnWidth(c, width)
    \/ \E button \in {"all", "quit", "selected"} : Close(button)

Spec == Init /\ [][Next]_vars

------------------------------------------------------------------------------
\* However the dialog is sized, and whatever a dialog before it left in the rectangles,
\* buttons keep their distance to the lower right corner, the combo box to the lower left
\* one, and the list to all four sides (WM_SIZE and MakeRect1, 2, 3 of unlocker.cpp).
Wider == dialog.w - Template.place.w
Higher == dialog.h - Template.place.h
Anchored ==
    open /\ laidOut =>
        \A c \in Controls :
            windows[c] = CASE c = "list" -> [measured[c] EXCEPT !.w = @ + Wider, !.h = @ + Higher]
                           [] c = "combo" -> [measured[c] EXCEPT !.y = @ + Higher]
                           [] OTHER -> [measured[c] EXCEPT !.x = @ + Wider, !.y = @ + Higher]

\* The list has every item once, in the order of the column clicked last, which a second
\* click turns round, and with the icon of its process (CompareFunc, ListViewAddItems).
ListRight ==
    open => /\ Len(rows) = Len(items) /\ ToSet(rows) = DOMAIN items
            /\ \A i, j \in DOMAIN rows : i < j => InOrder(rows[i], rows[j], column, direction[column])
            /\ \A i \in DOMAIN rows : images[rows[i]] = items[rows[i]].icon

\* A dialog opens where the last one that was written was closed and with its
\* columns, if all of that was written (SetWindowApparenceFromFile, WriteWindowApparenceToFile of unlocker.cpp).
AppearanceKept ==
    untouched /\ exists /\ Len(file) = Len(Fields) => closed = <<dialog, columns>>

DialogHolds == Anchored /\ ListRight /\ AppearanceKept
==============================================================================
