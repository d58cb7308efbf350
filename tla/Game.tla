-------------------------------- MODULE Game --------------------------------
(***************************************************************************)
(* The event loop of the game above the drivers:                           *)
(*                                                                         *)
(*   proj_main_loop                          proj.c                        *)
(*   Mouse_handle (a ready packet), Mouse_draw   input/mouse_manager.c     *)
(*   the two menus and their elements            ui/menu.c, aabb/aabb.c    *)
(*   the state machine of the game               gamestate_manager.c       *)
(*   the double buffer                           drivers/gpu.c             *)
(*                                                                         *)
(* A notification may carry any of the three interrupt bits; their handlers *)
(* run in the order mouse, keyboard, timer, and each works on what the one *)
(* before it left.  Packets and key presses are delivered whole (KbcInput  *)
(* models how they are put together); a packet applied a second time is a  *)
(* packet with the same contents.                                          *)
(***************************************************************************)
EXTENDS Integers, Sequences

CONSTANTS
    X_RES, Y_RES,    \* resolution of the graphics mode (1024 x 768)
    MovesX, MovesY   \* the movements a packet may carry, as they are sent

ASSUME ResolutionAssumption == X_RES \in Nat \ {0} /\ Y_RES \in Nat \ {0}
\* A movement is sent as a sign bit (in the first byte) and a byte.
Moves == [neg : BOOLEAN, byte : 0..255]
ASSUME MovesAssumption == MovesX \subseteq Moves /\ MovesY \subseteq Moves

VARIABLES
    pending,       \* interrupt bits the kernel holds for the driver
    msg,           \* interrupt bits of the notification still to be handled
    pc,            \* the handler that runs next
    state,         \* gamestate.state
    current_menu,  \* gamestate.current_menu
    x, y,          \* mouse.position
    lb, prev_lb,   \* mouse.buttons[MOUSE_LB], mouse.prev_buttons[MOUSE_LB]
    cursor,        \* mouse.sprite->current_frame
    skip_frame,    \* the next timer interrupt draws nothing
    shown,         \* what video memory shows: the menu and the cursor's shape
    moved,         \* history: the pointer moved since the left button went down
    acted          \* history: a click has changed the state since then

mouse == <<x, y, lb, prev_lb, moved>>
game == <<state, current_menu, acted>>
screen == <<cursor, skip_frame, shown>>
vars == <<pending, msg, pc, mouse, game, screen>>

Bits == {"mouse", "kbd", "timer"}
States == {"GS_MAIN", "GS_LEADERBOARD", "GS_QUIT"}
Menus == {"GS_MAIN", "GS_LEADERBOARD"}   \* a menu is named after its state

Element(px, py, w, h, f) == [px |-> px, py |-> py, w |-> w, h |-> h, on_click |-> f]

\* The elements of the menus. The text of the leaderboard is left out: its
\* elements have no on_click, so the mouse does not see them.
MainWithoutQuit ==
    << Element(242, 80, 540, 108, "NULL"),
       Element(311, 340, 402, 97, "spoof"),
       Element(311, 480, 402, 97, "Gamestate_leaderboard"),
       Element(311, 620, 402, 97, "Gamestate_leaderboard") >>

Menu_create_main_menu ==
    << Element(242, 80, 540, 108, "NULL"),
       Element(311, 340, 402, 97, "spoof"),
       Element(311, 480, 402, 97, "Gamestate_leaderboard"),
       Element(311, 620, 402, 97, "Gamestate_quit") >>

LeaderboardOverlapping ==
    << Element(102, -20, 800, 150, "NULL"),
       Element(311, 480, 402, 97, "Gamestate_quit") >>

Menu_create_leaderboard ==
    << Element(102, -20, 800, 150, "NULL"),
       Element(415, 70, 402, 97, "Gamestate_leaderboard") >>

Elements(m) == IF m = "GS_MAIN" THEN Menu_create_main_menu ELSE Menu_create_leaderboard

AABB_contains(e, px, py) ==
    /\ e.px <= px /\ px <= e.px + e.w
    /\ e.py <= py /\ py <= e.py + e.h

\* The elements of menu m that can be clicked at a position; Mouse_draw stops
\* at the first of them.
Hits(m, px, py) ==
    {i \in DOMAIN Elements(m) : /\ AABB_contains(Elements(m)[i], px, py)
                                /\ Elements(m)[i].on_click # "NULL"}

First(s) == CHOOSE i \in s : \A j \in s : i <= j

Init ==
    /\ pending = {} /\ msg = {} /\ pc = "receive"
    /\ state = "GS_MAIN" /\ current_menu = "GS_MAIN" /\ acted = FALSE
    /\ x = 0 /\ y = 0 /\ lb = FALSE /\ prev_lb = FALSE /\ moved = FALSE
    /\ cursor = "MOUSE_NORMAL" /\ skip_frame = FALSE
    /\ shown = [menu |-> "none", cursor |-> "none"]

-----------------------------------------------------------------------------
(* The kernel and the devices. *)

Interrupt(bit) ==
    /\ pc # "shutdown"
    /\ bit \notin pending
    /\ pending' = pending \cup {bit}
    /\ UNCHANGED <<msg, pc, mouse, game, screen>>

-----------------------------------------------------------------------------
(* The event loop. *)

Receive ==
    /\ pc = "receive" /\ state # "GS_QUIT"
    /\ pending # {}
    /\ msg' = pending /\ pending' = {}
    /\ pc' = "mouse"
    /\ UNCHANGED <<mouse, game, screen>>

QuitInLeaderboard ==
    /\ pc = "receive" /\ state = "GS_LEADERBOARD"
    /\ pc' = "shutdown"
    /\ UNCHANGED <<pending, msg, mouse, game, screen>>

\* The condition of the loop.
Quit ==
    /\ pc = "receive" /\ state = "GS_QUIT"
    /\ pc' = "shutdown"
    /\ UNCHANGED <<pending, msg, mouse, game, screen>>

\* A handler whose bit is not set in the notification is passed over.
Skip ==
    /\ \/ pc = "mouse" /\ "mouse" \notin msg /\ pc' = "kbd"
       \/ pc = "kbd" /\ "kbd" \notin msg /\ pc' = "timer"
       \/ pc = "timer" /\ "timer" \notin msg /\ pc' = "receive"
    /\ UNCHANGED <<pending, msg, mouse, game, screen>>

\* mouse_get_packet extends the sign: (int16_t) (0xFF00 | byte).
Delta(m) == IF m.neg THEN m.byte - 256 ELSE m.byte

ClampLow(v, res) == IF v <= 0 THEN 0 ELSE v
Clamp(v, res) == IF v <= 0 THEN 0 ELSE IF v < res THEN v ELSE res - 1

\* Mouse_handle with a packet ready: move, clamp, remember the buttons.
Mouse_handle(mx, my, left) ==
    /\ pc = "mouse" /\ "mouse" \in msg
    /\ x' = Clamp(x + Delta(mx), X_RES)
    /\ y' = Clamp(y - Delta(my), Y_RES)
    /\ prev_lb' = lb
    /\ lb' = left
    /\ moved' = IF left /\ ~lb THEN FALSE ELSE moved \/ x' # x \/ y' # y
    /\ acted' = IF left /\ ~lb THEN FALSE ELSE acted
    /\ pc' = "kbd" /\ msg' = msg \ {"mouse"}
    /\ UNCHANGED <<pending, state, current_menu, screen>>

\* Mouse_handle with the packet still incomplete.
Mouse_handle_partial ==
    /\ pc = "mouse" /\ "mouse" \in msg
    /\ pc' = "kbd" /\ msg' = msg \ {"mouse"}
    /\ UNCHANGED <<pending, mouse, game, screen>>

InMenuAlways == TRUE
InMenu == state \in {"GS_MAIN", "GS_LEADERBOARD"}

ChangeStateOnly(s) == state' = s /\ UNCHANGED current_menu

Gamestate_change(s) ==
    /\ state' = s
    /\ current_menu' = IF s \in Menus THEN s ELSE current_menu

\* Keyboard_handle and the test for Escape that follows it.
Keyboard_handle(esc) ==
    /\ pc = "kbd" /\ "kbd" \in msg
    /\ IF InMenu /\ esc THEN Gamestate_change("GS_QUIT")
                        ELSE UNCHANGED <<state, current_menu>>
    /\ pc' = "timer" /\ msg' = msg \ {"kbd"}
    /\ UNCHANGED <<pending, mouse, acted, screen>>

SkipStuck ==
    /\ pc = "timer" /\ "timer" \in msg /\ skip_frame
    /\ pc' = "receive" /\ msg' = msg \ {"timer"}
    /\ UNCHANGED <<pending, mouse, game, screen>>

\* The timer handler on a frame that is skipped.
Timer_skip ==
    /\ pc = "timer" /\ "timer" \in msg /\ skip_frame
    /\ skip_frame' = FALSE
    /\ pc' = "receive" /\ msg' = msg \ {"timer"}
    /\ UNCHANGED <<pending, mouse, game, cursor, shown>>

Click(f) ==
    CASE f = "Gamestate_leaderboard" -> Gamestate_change("GS_LEADERBOARD")
      [] f = "Gamestate_quit" -> Gamestate_change("GS_QUIT")
      [] OTHER -> UNCHANGED <<state, current_menu>>

EdgeDown == lb

\* The left button is down and was not in the packet before.
Edge == lb /\ ~prev_lb

\* Mouse_draw: the cursor's shape and the click, on the first element hit.
Mouse_draw ==
    LET hits == Hits(current_menu, x, y)
    IN IF ~InMenu
       THEN UNCHANGED <<state, current_menu, cursor>>
       ELSE /\ cursor' = IF hits = {} THEN "MOUSE_NORMAL" ELSE "MOUSE_CLICK"
            /\ IF hits # {} /\ Edge
               THEN Click(Elements(current_menu)[First(hits)].on_click)
               ELSE UNCHANGED <<state, current_menu>>

\* The menu in the back buffer after Menu_draw; without it, it is blank.
Menu_draw == IF InMenu THEN current_menu ELSE "none"

gpu_buffer_commit(frame) == shown' = frame

\* The timer handler on a frame that is drawn: the menu, the mouse, and the
\* exchange of the buffers.
Timer_draw ==
    /\ pc = "timer" /\ "timer" \in msg /\ ~skip_frame
    /\ Mouse_draw
    /\ gpu_buffer_commit([menu |-> Menu_draw, cursor |-> cursor'])
    /\ acted' = (acted \/ state' # state)
    /\ skip_frame' = TRUE
    /\ pc' = "receive" /\ msg' = msg \ {"timer"}
    /\ UNCHANGED <<pending, mouse>>

Tick == Interrupt("timer")

Loop ==
    \/ Receive \/ Quit \/ Skip
    \/ \E mx \in MovesX, my \in MovesY, left \in BOOLEAN : Mouse_handle(mx, my, left)
    \/ Mouse_handle_partial
    \/ \E esc \in BOOLEAN : Keyboard_handle(esc)
    \/ Timer_skip \/ Timer_draw

Next == Tick \/ Interrupt("mouse") \/ Interrupt("kbd") \/ Loop

\* The scheduler runs the driver, and the timer keeps interrupting it; the
\* user may do nothing at all.
Spec == Init /\ [][Next]_vars /\ WF_vars(Loop) /\ WF_vars(Tick)

-----------------------------------------------------------------------------
(* Properties. *)

\* The variables stay in range; in particular the pointer stays on the screen
\* after every packet, whatever its movement.
TypeOK ==
    /\ pending \subseteq Bits /\ msg \subseteq Bits
    /\ pc \in {"receive", "mouse", "kbd", "timer", "shutdown"}
    /\ state \in States /\ current_menu \in Menus
    /\ x \in 0..X_RES - 1 /\ y \in 0..Y_RES - 1
    /\ lb \in BOOLEAN /\ prev_lb \in BOOLEAN
    /\ cursor \in {"MOUSE_NORMAL", "MOUSE_CLICK"} /\ skip_frame \in BOOLEAN
    /\ shown \in [menu : Menus \cup {"none"}, cursor : {"MOUSE_NORMAL", "MOUSE_CLICK", "none"}]
    /\ moved \in BOOLEAN /\ acted \in BOOLEAN

\* A click acts where the button went down: a press that is dragged onto a
\* button never triggers it, although Mouse_draw looks at the pointer only
\* when a frame is drawn, several packets later perhaps.
NoDragClick == [][(pc = "timer" /\ state' # state) => ~moved]_vars

\* Mouse_draw calls on_click again on every frame until the next packet, and
\* by then another menu may be under the pointer; still one press changes
\* the state of the game at most once.
OnePressOneChange == [][(pc = "timer" /\ state' # state) => ~acted]_vars

\* Once the game is told to quit, nothing that is still to be handled of the
\* same notification (a click on the frame drawn next) revives it.
QuitIsFinal == [][state = "GS_QUIT" => state' = "GS_QUIT"]_vars

\* Every frame that reaches the screen before the end shows the menu of the
\* state in which it was drawn, with the hand exactly where a click on that
\* menu has an effect, even if the click of that very frame left the menu.
FrameIsCoherent ==
    [][shown' # shown =>
         \/ state = "GS_QUIT"
         \/ /\ shown'.menu = state
            /\ shown'.cursor = "MOUSE_CLICK" <=> Hits(state, x, y) # {}]_vars

\* The screen catches up with the state of the game, although only every
\* other timer interrupt draws and interrupts are merged.
ScreenFollows ==
    state = "GS_LEADERBOARD" ~> (shown.menu = "GS_LEADERBOARD" \/ state = "GS_QUIT")

\* The left button went down where the main menu has the quit button, and no
\* packet came since.
QuitPressed ==
    /\ lb /\ ~prev_lb
    /\ AABB_contains(Element(311, 620, 402, 97, "Gamestate_quit"), x, y)

\* A press on the quit button ends the game, and does nothing else, unless
\* another packet comes first (which clears the edge Mouse_draw looks for).
PressIsSeen == (state = "GS_MAIN" /\ QuitPressed) ~> (state = "GS_QUIT" \/ ~QuitPressed)

\* Quitting ends the event loop.
QuitEnds == state = "GS_QUIT" ~> pc = "shutdown"
=============================================================================
