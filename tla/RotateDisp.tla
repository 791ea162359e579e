------------------------------ MODULE RotateDisp ------------------------------
(* The program in the notification area that turns the screen                  *)
(* (CRotateDispWnd), and the mouse hook beside it (RotateMouse.dll).           *)
EXTENDS Integers, TLAPS

CONSTANTS Panels,    \* screens, as they are at 0 degrees: [w, h]
          Taken,     \* hot keys of other programs: a set of sets
          MaxKeys    \* bound: hot keys pressed

ASSUME PanelsAssumption == Panels \subseteq [w : Nat, h : Nat]

VARIABLES pc,
          panel,
          screen,    \* its mode: orientation (quarter turns), w, h
          dllOk,     \* IsMouseDllOk
          rotNum,    \* RotNum; 4 is added with SHIFT; -1 is ANG_STAY
          timer,
          keys,      \* hot keys that are registered: [angle, shift]
          icon,      \* in the notification area
          mouse,     \* the hook: hooked, BeginRotate, Angle
          move,      \* the move it was asked about last, and what became of it
          last,      \* angle of the key pressed last; -1: none
          presses

screenVars == <<pc, panel, screen, dllOk, rotNum, timer, keys, icon, mouse, move, last, presses>>

Angles == 0 .. 3
AllKeys == [angle : Angles, shift : BOOLEAN]

------------------------------------------------------------------------------
(* The display driver takes a mode that the panel has in that orientation.     *)

Has(o, w, h) == IF o % 2 = 0 THEN w = panel.w /\ h = panel.h ELSE w = panel.h /\ h = panel.w

\* The sides are swapped: the screen stands upright and shall not, or shall and does not.
Swapped(angle) == (screen.h > screen.w) # (angle % 2 = 1)

\* A mode the test refuses is not set, without a message.
ChangeDispById(angle) ==
    LET w == IF Swapped(angle) THEN screen.h ELSE screen.w
        h == IF Swapped(angle) THEN screen.w ELSE screen.h
    IN  screen' = IF Has(angle, w, h) THEN [o |-> angle, w |-> w, h |-> h] ELSE screen

------------------------------------------------------------------------------
\* An argument is turned to at once, and the window closes; any key may belong to
\* another program already. Two or more arguments are read but not turned to.
BeginWindowProc ==
    /\ pc = "start"
    /\ icon' = TRUE
    /\ \/ \E angle \in Angles :      \* one argument
              /\ rotNum' = angle /\ dllOk' = FALSE /\ pc' = "closing" /\ last' = angle
              /\ ChangeDispById(angle)
              /\ \E S \in Taken : keys' = {k \in AllKeys : ~k.shift} \ S
              /\ UNCHANGED mouse
       \/ /\ rotNum' \in {-1} \cup Angles /\ pc' = "open"
          /\ mouse' = IF dllOk THEN [mouse EXCEPT !.hooked = TRUE] ELSE mouse
          /\ \E S \in Taken : keys' = {k \in AllKeys : k.shift => dllOk} \ S
          /\ UNCHANGED <<screen, dllOk, last>>
    /\ UNCHANGED <<panel, timer, move, presses>>

\* The key is noted and acted upon a tenth of a second later: it starts the timer again.
HotKey(k) ==
    /\ pc \in {"open", "about"} /\ k \in keys /\ presses < MaxKeys
    /\ rotNum' = k.angle + (IF dllOk /\ k.shift THEN 4 ELSE 0)
    /\ timer' = TRUE /\ last' = k.angle /\ presses' = presses + 1
    /\ UNCHANGED <<pc, panel, screen, dllOk, keys, icon, mouse, move>>

\* Seeded bug: the mouse is turned back only with a new angle.
TurnMouseKept(m) ==
    IF rotNum \in 1 .. 3 THEN [m EXCEPT !.on = TRUE, !.angle = 90 * rotNum] ELSE m

\* With SHIFT (4 or more), and at 0 degrees, the mouse moves as it is.
TurnMouse(m) ==
    IF rotNum \in 1 .. 3 THEN [m EXCEPT !.on = TRUE, !.angle = 90 * rotNum] ELSE [m EXCEPT !.on = FALSE]

OnTimer ==
    /\ pc \in {"open", "about"} /\ timer
    /\ timer' = FALSE
    /\ mouse' = IF dllOk THEN TurnMouse(mouse) ELSE mouse
    /\ ChangeDispById(rotNum % 4)
    /\ UNCHANGED <<pc, panel, dllOk, rotNum, keys, icon, move, last, presses>>

\* The dialog with the version is modal: one at a time, the keys go on working.
OnVersioninfo ==
    /\ pc = "open" /\ pc' = "about"
    /\ UNCHANGED <<panel, screen, dllOk, rotNum, timer, keys, icon, mouse, move, last, presses>>
AboutClosed ==
    /\ pc = "about" /\ pc' = "open"
    /\ UNCHANGED <<panel, screen, dllOk, rotNum, timer, keys, icon, mouse, move, last, presses>>

\* The explorer has started again: the icon is put back.
TaskbarCreated ==
    /\ pc \in {"open", "about"} /\ icon' \in BOOLEAN
    /\ (icon' = FALSE => icon)
    /\ UNCHANGED <<pc, panel, screen, dllOk, rotNum, timer, keys, mouse, move, last, presses>>

OnExit ==
    /\ pc = "open" /\ pc' = "closing"
    /\ UNCHANGED <<panel, screen, dllOk, rotNum, timer, keys, icon, mouse, move, last, presses>>

\* The keys OnDestroy does not give back.
KeysLeft == {k \in keys : k.shift /\ ~dllOk}

Destroyed ==
    /\ pc' = "gone"
    /\ keys' = KeysLeft /\ timer' = FALSE /\ icon' = FALSE
    /\ mouse' = IF dllOk THEN [mouse EXCEPT !.hooked = FALSE] ELSE mouse
    /\ UNCHANGED <<panel, screen, dllOk, rotNum, move, last, presses>>

OnDestroy == pc = "closing" /\ Destroyed

\* The notification area refuses the icon, when the program starts or the explorer has
\* started again: the window is closed at once, and ShowShellIcon, which goes on trying
\* for the window that is gone, does not return.
ShowShellIconFails == pc \in {"start", "open", "about"} /\ Destroyed

------------------------------------------------------------------------------
(* MouseLLHookProc: from the cursor at <<0, 0>>, by <<len, hei>>. *)

Turned(angle, len, hei) ==
    CASE angle = 90 -> <<-hei, len>>
      [] angle = 180 -> <<-len, -hei>>
      [] angle = 270 -> <<hei, -len>>
      [] OTHER -> <<len, hei>>

MouseMove(len, hei) ==
    /\ mouse.hooked
    /\ move' = [by |-> <<len, hei>>,
                to |-> IF mouse.on /\ mouse.angle # 0 THEN Turned(mouse.angle, len, hei) ELSE <<len, hei>>,
                on |-> mouse.on, angle |-> mouse.angle]
    /\ UNCHANGED <<pc, panel, screen, dllOk, rotNum, timer, keys, icon, mouse, last, presses>>

ScreenInit ==
    /\ pc = "start" /\ panel \in Panels /\ screen = [o |-> 0, w |-> panel.w, h |-> panel.h]
    /\ dllOk \in BOOLEAN /\ rotNum = -1 /\ timer = FALSE /\ keys = {} /\ icon = FALSE
    /\ mouse = [hooked |-> FALSE, on |-> FALSE, angle |-> 0]
    /\ move = [by |-> <<0, 0>>, to |-> <<0, 0>>, on |-> FALSE, angle |-> 0]
    /\ last = -1 /\ presses = 0

ScreenNext ==
    \/ BeginWindowProc \/ OnTimer \/ OnVersioninfo \/ AboutClosed \/ TaskbarCreated \/ OnExit \/ OnDestroy
    \/ ShowShellIconFails
    \/ \E k \in AllKeys : HotKey(k)
    \/ MouseMove(-2, 1)

ScreenSpec == ScreenInit /\ [][ScreenNext]_screenVars

------------------------------------------------------------------------------
\* A screen that lies at 0 degrees stands as the key pressed last asked, whatever
\* orientation it had before (the swap of ChangeDispById).  Of a screen that stands at 0
\* degrees nothing is said: the swap takes it for one that was turned.
TurnsAsAsked ==
    panel.w > panel.h /\ last # -1 /\ ~timer /\ pc # "gone" => screen.o = last

\* A turned mouse goes with a turned screen: never by another angle, never with a
\* screen that is back at 0 degrees, not even while a key waits for its timer.
MouseFollowsScreen == panel.w > panel.h /\ mouse.on => mouse.angle = 90 * screen.o

\* A move is turned by as many quarter turns as the mouse is.
Quarter(v) == <<-v[2], v[1]>>
MovesTurned ==
    IF move.on
    THEN \/ move.angle = 90 /\ move.to = Quarter(move.by)
         \/ move.angle = 180 /\ move.to = Quarter(Quarter(move.by))
         \/ move.angle = 270 /\ move.to = Quarter(Quarter(Quarter(move.by)))
    ELSE move.to = move.by

\* A window that is gone leaves nothing behind in the system.
NothingLeft == pc = "gone" => keys = {} /\ ~mouse.hooked /\ ~icon /\ ~timer

\* The screen turns as the hot keys ask, the mouse follows it through the library that
\* turns its moves, and nothing is left of the program when it ends (RotateDispWnd.cpp,
\* RotateMouse.cpp).
ScreensFollow == TurnsAsAsked /\ MouseFollowsScreen /\ MovesTurned /\ NothingLeft

------------------------------------------------------------------------------
(* The invariant, and why it holds *)

\* Every variable has its type.
ScreenTyped ==
    /\ pc \in {"start", "open", "about", "closing", "gone"}
    /\ panel \in [w : Nat, h : Nat] /\ screen \in [o : Angles, w : Nat, h : Nat]
    /\ dllOk \in BOOLEAN /\ rotNum \in -1 .. 7 /\ timer \in BOOLEAN
    /\ keys \subseteq AllKeys /\ icon \in BOOLEAN /\ last \in {-1} \cup Angles
    /\ mouse \in [hooked : BOOLEAN, on : BOOLEAN, angle : {0, 90, 180, 270}]

\* The screen is in a mode the panel has; what the timer will turn to is what the last
\* key asked for, and without a timer it has been done.
ScreenAsked ==
    /\ panel.w > panel.h => Has(screen.o, screen.w, screen.h)
    /\ timer => last # -1 /\ rotNum >= 0 /\ rotNum % 4 = last
    /\ panel.w > panel.h /\ last # -1 /\ ~timer /\ pc # "gone" => screen.o = last
    /\ pc = "start" => ~timer /\ last = -1

\* Only a program with its library has a hook, turns the mouse, and takes keys with
\* SHIFT; OnDestroy gives back what is left.
MouseHeld ==
    /\ mouse.on \/ mouse.hooked => dllOk /\ pc # "start"
    /\ mouse.on => mouse.angle # 0
    /\ \A k \in keys : k.shift => dllOk

ScreenInv == ScreenTyped /\ ScreenAsked /\ MouseHeld /\ ScreensFollow

\* What ChangeDispById promises: on a panel that is broad, any mode the panel has is
\* left for the one that was asked for.
LEMMA Turns ==
  ASSUME ScreenTyped, NEW angle \in Angles, ChangeDispById(angle)
  PROVE  /\ screen' \in [o : Angles, w : Nat, h : Nat]
         /\ panel.w > panel.h /\ Has(screen.o, screen.w, screen.h)
               => screen'.o = angle /\ Has(screen'.o, screen'.w, screen'.h)
<1> DEFINE w == IF Swapped(angle) THEN screen.h ELSE screen.w
           h == IF Swapped(angle) THEN screen.w ELSE screen.h
           turned == [o |-> angle, w |-> w, h |-> h]
<1>1. screen' = IF Has(angle, w, h) THEN turned ELSE screen
  BY DEF ChangeDispById
<1>2. /\ screen.o \in Angles /\ screen.w \in Nat /\ screen.h \in Nat
      /\ panel.w \in Nat /\ panel.h \in Nat
  BY DEF ScreenTyped
<1>3. turned \in [o : Angles, w : Nat, h : Nat]
  BY <1>2
<1>4. ASSUME panel.w > panel.h, Has(screen.o, screen.w, screen.h)
      PROVE  Has(angle, w, h)
  <2>1. screen.o % 2 \in {0, 1} /\ angle % 2 \in {0, 1}
    BY <1>2 DEF Angles
  <2>2. (screen.h > screen.w) <=> (screen.o % 2 = 1)
    BY <1>2, <1>4, <2>1 DEF Has
  <2>3. Swapped(angle) <=> screen.o % 2 # angle % 2
    BY <2>1, <2>2 DEF Swapped
  <2>4. CASE screen.o % 2 = angle % 2
    BY <1>4, <2>3, <2>4 DEF Has
  <2>5. CASE screen.o % 2 # angle % 2
    BY <1>4, <2>1, <2>3, <2>5 DEF Has
  <2> QED BY <2>4, <2>5
<1> HIDE DEF w, h
<1>5. ASSUME panel.w > panel.h, Has(screen.o, screen.w, screen.h)
      PROVE  screen'.o = angle /\ Has(screen'.o, screen'.w, screen'.h)
  BY <1>1, <1>4, <1>5
<1> QED BY <1>1, <1>3, <1>5 DEF ScreenTyped

\* What MouseLLHookProc makes of a move, by the quarter turns of the mouse.
LEMMA TurnsMoves ==
  ASSUME NEW len \in Int, NEW hei \in Int
  PROVE  /\ Turned(90, len, hei) = Quarter(<<len, hei>>)
         /\ Turned(180, len, hei) = Quarter(Quarter(<<len, hei>>))
         /\ Turned(270, len, hei) = Quarter(Quarter(Quarter(<<len, hei>>)))
<1>1. -(-len) = len /\ -(-hei) = hei
  OBVIOUS
<1>2. \A a, b : Quarter(<<a, b>>) = <<-b, a>>
  BY DEF Quarter
<1>3. /\ Turned(90, len, hei) = <<-hei, len>>
      /\ Turned(180, len, hei) = <<-len, -hei>>
      /\ Turned(270, len, hei) = <<hei, -len>>
  BY DEF Turned
<1>4. Quarter(<<len, hei>>) = <<-hei, len>>
  BY <1>2
<1>5. Quarter(<<-hei, len>>) = <<-len, -hei>>
  BY <1>2
<1>6. Quarter(<<-len, -hei>>) = <<hei, -len>>
  BY <1>1, <1>2
<1> QED BY <1>3, <1>4, <1>5, <1>6

LEMMA ScreenInitInv == ScreenInit => ScreenInv
<1> SUFFICES ASSUME ScreenInit PROVE ScreenInv
  OBVIOUS
<1>1. panel \in [w : Nat, h : Nat] /\ screen = [o |-> 0, w |-> panel.w, h |-> panel.h]
  BY PanelsAssumption DEF ScreenInit
<1>2. ScreenTyped
  <2>1. screen \in [o : Angles, w : Nat, h : Nat]
    BY <1>1 DEF Angles
  <2>2. mouse \in [hooked : BOOLEAN, on : BOOLEAN, angle : {0, 90, 180, 270}]
    BY DEF ScreenInit
  <2>3. keys \subseteq AllKeys /\ last \in {-1} \cup Angles /\ rotNum \in -1 .. 7
    BY DEF ScreenInit
  <2> QED BY <1>1, <2>1, <2>2, <2>3 DEF ScreenInit, ScreenTyped
<1>3. Has(screen.o, screen.w, screen.h)
  BY <1>1 DEF Has
<1>4. ScreenAsked /\ MouseHeld
  BY <1>3 DEF ScreenInit, ScreenAsked, MouseHeld
<1>5. ScreensFollow
  BY DEF ScreenInit, ScreensFollow, TurnsAsAsked, MouseFollowsScreen, MovesTurned, NothingLeft
<1> QED BY <1>2, <1>4, <1>5 DEF ScreenInv

LEMMA BeginInv == ScreenInv /\ BeginWindowProc => ScreenInv'
<1> SUFFICES ASSUME ScreenInv, BeginWindowProc PROVE ScreenInv'
  OBVIOUS
<1> USE DEF ScreenInv
<1>1. /\ pc = "start" /\ icon' = TRUE
      /\ panel' = panel /\ timer' = timer /\ move' = move
      /\ ~timer /\ last = -1 /\ ~mouse.on /\ ~mouse.hooked
  BY DEF BeginWindowProc, ScreenAsked, MouseHeld, ScreenTyped
<1>2. mouse \in [hooked : BOOLEAN, on : BOOLEAN, angle : {0, 90, 180, 270}]
  BY DEF ScreenTyped
<1>3. MovesTurned'
  BY <1>1 DEF ScreensFollow, MovesTurned
<1>4. ASSUME NEW angle \in Angles, NEW S \in Taken,
             rotNum' = angle, dllOk' = FALSE, pc' = "closing", last' = angle,
             ChangeDispById(angle), keys' = {k \in AllKeys : ~k.shift} \ S, mouse' = mouse
      PROVE  ScreenInv'
  <2>1. /\ screen' \in [o : Angles, w : Nat, h : Nat]
        /\ panel.w > panel.h => screen'.o = angle /\ Has(screen'.o, screen'.w, screen'.h)
    BY <1>4, Turns DEF ScreenAsked
  <2>2. ScreenTyped'
    <3>1. keys' \subseteq AllKeys /\ rotNum' \in -1 .. 7 /\ last' \in {-1} \cup Angles
      BY <1>4 DEF Angles
    <3> QED BY <1>1, <1>2, <1>4, <2>1, <3>1 DEF ScreenTyped
  <2>3. ScreenAsked'
    BY <1>1, <1>4, <2>1 DEF ScreenAsked, Has
  <2>4. MouseHeld'
    BY <1>1, <1>4 DEF MouseHeld
  <2>5. TurnsAsAsked' /\ MouseFollowsScreen' /\ NothingLeft'
    BY <1>1, <1>4, <2>1 DEF TurnsAsAsked, MouseFollowsScreen, NothingLeft
  <2> QED BY <1>3, <2>2, <2>3, <2>4, <2>5 DEF ScreensFollow
<1>5. ASSUME NEW S \in Taken, rotNum' \in {-1} \cup Angles, pc' = "open",
             mouse' = IF dllOk THEN [mouse EXCEPT !.hooked = TRUE] ELSE mouse,
             keys' = {k \in AllKeys : k.shift => dllOk} \ S,
             UNCHANGED <<screen, dllOk, last>>
      PROVE  ScreenInv'
  <2>1. /\ mouse' \in [hooked : BOOLEAN, on : BOOLEAN, angle : {0, 90, 180, 270}]
        /\ mouse'.on = mouse.on /\ mouse'.angle = mouse.angle
        /\ ~dllOk => ~mouse'.hooked
    BY <1>1, <1>2, <1>5
  <2>2. ScreenTyped'
    <3>1. keys' \subseteq AllKeys /\ rotNum' \in -1 .. 7
      BY <1>5 DEF Angles
    <3> QED BY <1>1, <1>5, <2>1, <3>1 DEF ScreenTyped
  <2>3. ScreenAsked'
    BY <1>1, <1>5 DEF ScreenAsked, Has
  <2>4. MouseHeld'
    BY <1>1, <1>5, <2>1 DEF MouseHeld
  <2>5. TurnsAsAsked' /\ MouseFollowsScreen' /\ NothingLeft'
    BY <1>1, <1>5, <2>1 DEF TurnsAsAsked, MouseFollowsScreen, NothingLeft
  <2> QED BY <1>3, <2>2, <2>3, <2>4, <2>5 DEF ScreensFollow
<1> QED
  <2>1. CASE \E angle \in Angles :
                /\ rotNum' = angle /\ dllOk' = FALSE /\ pc' = "closing" /\ last' = angle
                /\ ChangeDispById(angle)
                /\ \E S \in Taken : keys' = {k \in AllKeys : ~k.shift} \ S
                /\ UNCHANGED mouse
    BY <1>4, <2>1
  <2>2. CASE /\ rotNum' \in {-1} \cup Angles /\ pc' = "open"
             /\ mouse' = IF dllOk THEN [mouse EXCEPT !.hooked = TRUE] ELSE mouse
             /\ \E S \in Taken : keys' = {k \in AllKeys : k.shift => dllOk} \ S
             /\ UNCHANGED <<screen, dllOk, last>>
    BY <1>5, <2>2
  <2> QED BY <2>1, <2>2 DEF BeginWindowProc

LEMMA HotKeyInv == ASSUME NEW k \in AllKeys, ScreenInv, HotKey(k) PROVE ScreenInv'
<1> USE DEF ScreenInv
<1>1. /\ pc \in {"open", "about"} /\ rotNum' = k.angle + (IF dllOk /\ k.shift THEN 4 ELSE 0)
      /\ timer' = TRUE /\ last' = k.angle
      /\ UNCHANGED <<pc, panel, screen, dllOk, keys, icon, mouse, move>>
  BY DEF HotKey
<1>2. k.angle \in 0 .. 3
  BY DEF AllKeys, Angles
<1>3. rotNum' \in 0 .. 7 /\ rotNum' % 4 = last' /\ last' # -1
  BY <1>1, <1>2
<1>4. ScreenTyped'
  <2>1. rotNum' \in -1 .. 7 /\ last' \in {-1} \cup Angles
    BY <1>1, <1>2, <1>3 DEF Angles
  <2> QED BY <1>1, <2>1 DEF ScreenTyped
<1>5. ScreenAsked'
  BY <1>1, <1>3 DEF ScreenAsked, Has
<1>6. MouseHeld'
  BY <1>1 DEF MouseHeld
<1>7. ScreensFollow'
  BY <1>1 DEF ScreensFollow, TurnsAsAsked, MouseFollowsScreen, MovesTurned, NothingLeft
<1> QED BY <1>4, <1>5, <1>6, <1>7

LEMMA OnTimerInv == ScreenInv /\ OnTimer => ScreenInv'
<1> SUFFICES ASSUME ScreenInv, OnTimer PROVE ScreenInv'
  OBVIOUS
<1> USE DEF ScreenInv
<1>1. /\ pc \in {"open", "about"} /\ timer /\ timer' = FALSE
      /\ mouse' = IF dllOk THEN TurnMouse(mouse) ELSE mouse
      /\ ChangeDispById(rotNum % 4)
      /\ UNCHANGED <<pc, panel, dllOk, rotNum, keys, icon, move, last>>
  BY DEF OnTimer
<1>2. rotNum \in 0 .. 7 /\ last # -1 /\ last = rotNum % 4 /\ last \in Angles
  BY <1>1 DEF ScreenAsked, ScreenTyped
<1>3. /\ screen' \in [o : Angles, w : Nat, h : Nat]
      /\ panel.w > panel.h => screen'.o = last /\ Has(screen'.o, screen'.w, screen'.h)
  BY <1>1, <1>2, Turns DEF ScreenAsked
<1>4. mouse \in [hooked : BOOLEAN, on : BOOLEAN, angle : {0, 90, 180, 270}]
  BY DEF ScreenTyped
<1>5. /\ mouse' \in [hooked : BOOLEAN, on : BOOLEAN, angle : {0, 90, 180, 270}]
      /\ mouse'.hooked = mouse.hooked
      /\ mouse'.on => dllOk /\ rotNum \in 1 .. 3 /\ mouse'.angle = 90 * rotNum
  <2>1. CASE ~dllOk
    BY <1>1, <1>4, <2>1 DEF MouseHeld
  <2>2. CASE dllOk /\ rotNum \in 1 .. 3
    <3>1. mouse' = [mouse EXCEPT !.on = TRUE, !.angle = 90 * rotNum]
      BY <1>1, <2>2 DEF TurnMouse
    <3>2. 90 * rotNum \in {90, 180, 270}
      BY <2>2
    <3> QED BY <1>4, <2>2, <3>1, <3>2
  <2>3. CASE dllOk /\ rotNum \notin 1 .. 3
    BY <1>1, <1>4, <2>3 DEF TurnMouse
  <2> QED BY <2>1, <2>2, <2>3
<1>6. ScreenTyped'
  BY <1>1, <1>3, <1>5 DEF ScreenTyped
<1>7. ScreenAsked'
  BY <1>1, <1>2, <1>3 DEF ScreenAsked, Has
<1>8. MouseHeld'
  <2>1. mouse'.on => mouse'.angle # 0
    BY <1>5
  <2> QED BY <1>1, <1>5, <2>1 DEF MouseHeld
<1>9. ScreensFollow'
  <2>1. TurnsAsAsked' /\ NothingLeft' /\ MovesTurned'
    BY <1>1, <1>3 DEF ScreensFollow, TurnsAsAsked, NothingLeft, MovesTurned
  <2>2. rotNum \in 1 .. 3 => last = rotNum
    BY <1>2
  <2>3. MouseFollowsScreen'
    BY <1>1, <1>3, <1>5, <2>2 DEF MouseFollowsScreen
  <2> QED BY <2>1, <2>3 DEF ScreensFollow
<1> QED BY <1>6, <1>7, <1>8, <1>9

LEMMA DestroyedInv == ScreenInv /\ (OnDestroy \/ ShowShellIconFails) => ScreenInv'
<1> SUFFICES ASSUME ScreenInv, Destroyed PROVE ScreenInv'
  BY DEF OnDestroy, ShowShellIconFails
<1> USE DEF ScreenInv
<1>1. /\ pc' = "gone" /\ keys' = KeysLeft /\ timer' = FALSE /\ icon' = FALSE
      /\ mouse' = IF dllOk THEN [mouse EXCEPT !.hooked = FALSE] ELSE mouse
      /\ UNCHANGED <<panel, screen, dllOk, rotNum, move, last>>
  BY DEF Destroyed
<1>2. keys' = {}
  BY <1>1 DEF KeysLeft, MouseHeld
<1>3. mouse \in [hooked : BOOLEAN, on : BOOLEAN, angle : {0, 90, 180, 270}]
  BY DEF ScreenTyped
<1>4. /\ mouse' \in [hooked : BOOLEAN, on : BOOLEAN, angle : {0, 90, 180, 270}]
      /\ mouse'.on = mouse.on /\ mouse'.angle = mouse.angle /\ ~mouse'.hooked
  BY <1>1, <1>3 DEF MouseHeld
<1>5. ScreenTyped'
  BY <1>1, <1>2, <1>4 DEF ScreenTyped
<1>6. ScreenAsked'
  BY <1>1 DEF ScreenAsked, Has
<1>7. MouseHeld'
  BY <1>1, <1>2, <1>4 DEF MouseHeld
<1>8. ScreensFollow'
  BY <1>1, <1>2, <1>4 DEF ScreensFollow, TurnsAsAsked, MouseFollowsScreen, MovesTurned, NothingLeft
<1> QED BY <1>5, <1>6, <1>7, <1>8

LEMMA MouseMoveInv == ASSUME NEW len \in Int, NEW hei \in Int, ScreenInv, MouseMove(len, hei)
                      PROVE  ScreenInv'
<1> USE DEF ScreenInv
<1>1. UNCHANGED <<pc, panel, screen, dllOk, rotNum, timer, keys, icon, mouse, last>>
  BY DEF MouseMove
<1>2. /\ move'.on = mouse.on /\ move'.angle = mouse.angle /\ move'.by = <<len, hei>>
      /\ move'.to = IF mouse.on /\ mouse.angle # 0 THEN Turned(mouse.angle, len, hei)
                    ELSE <<len, hei>>
  BY DEF MouseMove
<1>3. mouse.on => mouse.angle \in {90, 180, 270}
  BY DEF MouseHeld, ScreenTyped
<1>4. MovesTurned'
  <2>1. CASE mouse.on
    BY <1>2, <1>3, <2>1, TurnsMoves DEF MovesTurned
  <2>2. CASE ~mouse.on
    BY <1>2, <2>2 DEF MovesTurned
  <2> QED BY <2>1, <2>2
<1>5. ScreenTyped' /\ ScreenAsked' /\ MouseHeld'
  BY <1>1 DEF ScreenTyped, ScreenAsked, MouseHeld, Has
<1> QED BY <1>1, <1>4, <1>5 DEF ScreensFollow, TurnsAsAsked, MouseFollowsScreen, NothingLeft

\* The steps that only open and close the window and its dialog, and put the icon back.
LEMMA WindowInv ==
  ScreenInv /\ (OnVersioninfo \/ AboutClosed \/ TaskbarCreated \/ OnExit) => ScreenInv'
<1> SUFFICES ASSUME ScreenInv, OnVersioninfo \/ AboutClosed \/ TaskbarCreated \/ OnExit
             PROVE  ScreenInv'
  OBVIOUS
<1> USE DEF ScreenInv
<1>1. /\ pc \in {"open", "about"} /\ pc' \in {"open", "about", "closing"} /\ icon' \in BOOLEAN
      /\ UNCHANGED <<panel, screen, dllOk, rotNum, timer, keys, mouse, move, last>>
  BY DEF OnVersioninfo, AboutClosed, TaskbarCreated, OnExit, ScreenTyped
<1>2. ScreenTyped'
  BY <1>1 DEF ScreenTyped
<1>3. ScreenAsked' /\ MouseHeld'
  BY <1>1 DEF ScreenAsked, MouseHeld, Has
<1>4. ScreensFollow'
  BY <1>1 DEF ScreensFollow, TurnsAsAsked, MouseFollowsScreen, MovesTurned, NothingLeft
<1> QED BY <1>2, <1>3, <1>4

\* The screen stands as the last hot key asked, the mouse and its moves are turned with it,
\* and a program that has ended leaves no key, hook, icon or timer: for all panels and any
\* number of hot keys, whichever of them belong to other programs.
THEOREM ScreensTurn == ScreenSpec => []ScreensFollow
<1>1. ScreenInv /\ [ScreenNext]_screenVars => ScreenInv'
  <2> SUFFICES ASSUME ScreenInv, [ScreenNext]_screenVars PROVE ScreenInv'
    OBVIOUS
  <2>1. CASE UNCHANGED screenVars
    BY <2>1 DEF screenVars, ScreenInv, ScreenTyped, ScreenAsked, MouseHeld, Has, ScreensFollow,
                TurnsAsAsked, MouseFollowsScreen, MovesTurned, NothingLeft
  <2>2. CASE ScreenNext
    BY <2>2, BeginInv, OnTimerInv, WindowInv, DestroyedInv, HotKeyInv, MouseMoveInv DEF ScreenNext
  <2> QED BY <2>1, <2>2
<1>2. ScreenInv => ScreensFollow
  BY DEF ScreenInv
<1> QED BY <1>1, <1>2, ScreenInitInv, PTL DEF ScreenSpec
=============================================================================
