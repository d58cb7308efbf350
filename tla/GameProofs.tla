----------------------------- MODULE GameProofs -----------------------------
(***************************************************************************)
(* Proofs about Game for every resolution and every set of movements.      *)
(***************************************************************************)
EXTENDS Game, TLAPS

\* The test Mouse_draw makes of the buttons is expanded everywhere.
USE DEF Edge

\* The first of some elements of a menu is one of them.
LEMMA FirstIsMember ==
    ASSUME NEW s \in SUBSET (1..4), s # {}
    PROVE  First(s) \in s
  <1>1. \E i \in s : \A j \in s : i <= j
    <2>1. CASE 1 \in s
      BY <2>1
    <2>2. CASE 1 \notin s /\ 2 \in s
      BY <2>2
    <2>3. CASE 1 \notin s /\ 2 \notin s /\ 3 \in s
      BY <2>3
    <2>4. CASE 1 \notin s /\ 2 \notin s /\ 3 \notin s /\ 4 \in s
      BY <2>4
    <2>5. PICK e : e \in s
      OBVIOUS
    <2>6. e \in 1..4
      BY <2>5
    <2>7. e = 1 \/ e = 2 \/ e = 3 \/ e = 4
      BY <2>6
    <2> QED
      BY <2>1, <2>2, <2>3, <2>4, <2>5, <2>7
  <1> QED
    BY <1>1 DEF First

\* Clamping a coordinate always yields a coordinate of the screen.
LEMMA ClampType ==
    ASSUME NEW v \in Int, NEW res \in Nat \ {0}
    PROVE  Clamp(v, res) \in 0..res - 1
  BY DEF Clamp

LEMMA MainElements ==
    /\ DOMAIN Elements("GS_MAIN") = 1..4
    /\ \A i \in 1..4 : Elements("GS_MAIN")[i].on_click
                         \in {"NULL", "spoof", "Gamestate_leaderboard", "Gamestate_quit"}
  BY DEF Elements, Menu_create_main_menu, Element

LEMMA LeaderboardElements ==
    /\ DOMAIN Elements("GS_LEADERBOARD") = 1..2
    /\ \A i \in 1..2 : Elements("GS_LEADERBOARD")[i].on_click
                         \in {"NULL", "Gamestate_leaderboard"}
  BY DEF Elements, Menu_create_leaderboard, Element

\* What a click on a menu can call.
LEMMA ClickTargets ==
    ASSUME NEW m \in Menus, NEW px \in Int, NEW py \in Int, Hits(m, px, py) # {}
    PROVE  /\ Elements(m)[First(Hits(m, px, py))].on_click
                 \in {"spoof", "Gamestate_leaderboard", "Gamestate_quit"}
           /\ m = "GS_LEADERBOARD" =>
                 Elements(m)[First(Hits(m, px, py))].on_click = "Gamestate_leaderboard"
  <1> DEFINE h == Hits(m, px, py)
  <1>1. h \in SUBSET (1..4)
    BY MainElements, LeaderboardElements DEF Hits, Menus
  <1>2. First(h) \in h
    BY <1>1, FirstIsMember
  <1>3. First(h) \in DOMAIN Elements(m) /\ Elements(m)[First(h)].on_click # "NULL"
    BY <1>2 DEF Hits
  <1> HIDE DEF h
  <1>4. /\ Elements(m)[First(h)].on_click \in {"spoof", "Gamestate_leaderboard", "Gamestate_quit"}
        /\ m = "GS_LEADERBOARD" => Elements(m)[First(h)].on_click = "Gamestate_leaderboard"
    BY <1>3, MainElements, LeaderboardElements DEF Menus
  <1> QED
    BY <1>4 DEF h

\* The menu on display is the menu of the state.
MenuInv == state \in Menus => current_menu = state

\* What drawing a frame can do to the state of the game: nothing once it has
\* quit, and nothing once it shows the leaderboard.
LEMMA DrawEffect ==
    ASSUME TypeOK, MenuInv, Mouse_draw
    PROVE  /\ state' \in States /\ current_menu' \in Menus /\ MenuInv'
           /\ cursor' \in {"MOUSE_NORMAL", "MOUSE_CLICK"}
           /\ state # "GS_MAIN" => state' = state
           /\ state' # state => lb /\ ~prev_lb
           /\ state' = "GS_MAIN" => state = "GS_MAIN"
  <1>0. x \in Int /\ y \in Int /\ current_menu \in Menus /\ state \in States
    BY ResolutionAssumption DEF TypeOK
  <1>1. CASE ~InMenu
    <2>1. UNCHANGED <<state, current_menu, cursor>>
      BY <1>1 DEF Mouse_draw
    <2> QED
      BY <1>0, <2>1 DEF TypeOK, MenuInv
  <1>2. CASE InMenu /\ ~(Hits(current_menu, x, y) # {} /\ lb /\ ~prev_lb)
    <2>1. UNCHANGED <<state, current_menu>> /\ cursor' \in {"MOUSE_NORMAL", "MOUSE_CLICK"}
      BY <1>2 DEF Mouse_draw
    <2> QED
      BY <1>0, <2>1 DEF MenuInv
  <1>3. CASE InMenu /\ Hits(current_menu, x, y) # {} /\ lb /\ ~prev_lb
    <2> DEFINE f == Elements(current_menu)[First(Hits(current_menu, x, y))].on_click
    <2>1. Click(f) /\ cursor' \in {"MOUSE_NORMAL", "MOUSE_CLICK"}
      BY <1>3 DEF Mouse_draw
    <2>2. /\ f \in {"spoof", "Gamestate_leaderboard", "Gamestate_quit"}
          /\ current_menu = "GS_LEADERBOARD" => f = "Gamestate_leaderboard"
      BY <1>0, <1>3, ClickTargets
    <2>3. state = current_menu
      BY <1>0, <1>3 DEF MenuInv, InMenu, Menus
    <2> HIDE DEF f
    <2>4. CASE f = "spoof"
      BY <1>0, <1>3, <2>1, <2>2, <2>3, <2>4 DEF Click, MenuInv
    <2>5. CASE f = "Gamestate_leaderboard"
      <3>1. state' = "GS_LEADERBOARD" /\ current_menu' = "GS_LEADERBOARD"
        BY <2>1, <2>5 DEF Click, Gamestate_change, Menus
      <3> QED
        BY <1>0, <1>3, <2>1, <2>3, <3>1 DEF MenuInv, States, Menus
    <2>6. CASE f = "Gamestate_quit"
      <3>1. state' = "GS_QUIT" /\ current_menu' = current_menu
        BY <2>1, <2>6 DEF Click, Gamestate_change, Menus
      <3> QED
        BY <1>0, <1>3, <2>1, <2>2, <2>3, <2>6, <3>1 DEF MenuInv, States, Menus
    <2> QED
      BY <2>2, <2>4, <2>5, <2>6
  <1> QED
    BY <1>1, <1>2, <1>3

\* A press that Mouse_draw still sees has not moved the pointer since, and a
\* press that changed the state has left the main menu for good.
PressInv ==
    /\ lb /\ ~prev_lb => ~moved
    /\ acted => state # "GS_MAIN"

GameInv == TypeOK /\ MenuInv /\ PressInv

LEMMA GameInit == Init => GameInv
  <1> SUFFICES ASSUME Init PROVE GameInv
    OBVIOUS
  <1>1. x \in 0..X_RES - 1 /\ y \in 0..Y_RES - 1
    BY ResolutionAssumption DEF Init
  <1>2. shown \in [menu : Menus \cup {"none"}, cursor : {"MOUSE_NORMAL", "MOUSE_CLICK", "none"}]
    BY DEF Init
  <1>3. pending \subseteq Bits /\ msg \subseteq Bits /\ state \in States /\ current_menu \in Menus
    BY DEF Init, States, Menus
  <1>4. TypeOK
    BY <1>1, <1>2, <1>3 DEF Init, TypeOK
  <1> QED
    BY <1>4 DEF Init, GameInv, MenuInv, PressInv

\* A step that leaves the mouse, the game and the frame alone.
LEMMA GameFrame ==
    ASSUME GameInv, UNCHANGED <<mouse, game, cursor, shown>>,
           pending' \subseteq Bits, msg' \subseteq Bits, skip_frame' \in BOOLEAN,
           pc' \in {"receive", "mouse", "kbd", "timer", "shutdown"}
    PROVE  GameInv'
  BY DEF GameInv, TypeOK, MenuInv, PressInv, mouse, game

LEMMA GameStep == GameInv /\ [Next]_vars => GameInv'
  <1> SUFFICES ASSUME GameInv, [Next]_vars PROVE GameInv'
    OBVIOUS
  <1> USE ResolutionAssumption, MovesAssumption DEF GameInv
  <1>1. CASE Tick \/ Interrupt("mouse") \/ Interrupt("kbd")
    <2>1. /\ pending' \subseteq Bits /\ UNCHANGED <<msg, pc, mouse, game, screen>>
      BY <1>1 DEF Tick, Interrupt, TypeOK, Bits
    <2> QED
      BY <2>1, GameFrame DEF TypeOK, screen
  <1>2. CASE Receive \/ Quit \/ Skip \/ Mouse_handle_partial \/ Timer_skip
    <2>1. /\ pending' \subseteq Bits /\ msg' \subseteq Bits
          /\ UNCHANGED <<mouse, game, cursor, shown>>
      BY <1>2 DEF Receive, Quit, Skip, Mouse_handle_partial, Timer_skip, TypeOK, screen
    <2>2. /\ pc' \in {"receive", "mouse", "kbd", "timer", "shutdown"}
      BY <1>2 DEF Receive, Quit, Skip, Mouse_handle_partial, Timer_skip
    <2>3. skip_frame' \in BOOLEAN
      BY <1>2 DEF Receive, Quit, Skip, Mouse_handle_partial, Timer_skip, TypeOK, screen
    <2> QED
      BY <2>1, <2>2, <2>3, GameFrame
  <1>3. CASE \E mx \in MovesX, my \in MovesY, left \in BOOLEAN : Mouse_handle(mx, my, left)
    <2>1. PICK mx \in MovesX, my \in MovesY, left \in BOOLEAN : Mouse_handle(mx, my, left)
      BY <1>3
    <2>2. x' \in 0..X_RES - 1 /\ y' \in 0..Y_RES - 1
      <3>1. Delta(mx) \in Int /\ Delta(my) \in Int
        BY DEF Delta, Moves
      <3>2. x + Delta(mx) \in Int /\ y - Delta(my) \in Int
        BY <3>1 DEF TypeOK
      <3>3. x' = Clamp(x + Delta(mx), X_RES) /\ y' = Clamp(y - Delta(my), Y_RES)
        BY <2>1 DEF Mouse_handle
      <3> QED
        BY <3>2, <3>3, ClampType
    <2>3. /\ lb' = left /\ prev_lb' = lb
          /\ left /\ ~lb => ~moved' /\ ~acted'
          /\ moved' \in BOOLEAN /\ acted' \in BOOLEAN
          /\ acted' => acted
      BY <2>1 DEF Mouse_handle, TypeOK
    <2>4. /\ UNCHANGED <<pending, state, current_menu, screen>>
          /\ pc' = "kbd" /\ msg' \subseteq msg
      BY <2>1 DEF Mouse_handle
    <2>5. TypeOK'
      BY <2>2, <2>3, <2>4 DEF TypeOK, screen
    <2> QED
      BY <2>3, <2>4, <2>5 DEF TypeOK, MenuInv, PressInv
  <1>4. CASE \E esc \in BOOLEAN : Keyboard_handle(esc)
    <2>1. /\ UNCHANGED <<pending, mouse, acted, screen>>
          /\ pc' = "timer" /\ msg' \subseteq msg
          /\ \/ state' = "GS_QUIT" /\ current_menu' = current_menu
             \/ UNCHANGED <<state, current_menu>>
      BY <1>4 DEF Keyboard_handle, Gamestate_change, Menus
    <2>2. state' \in States
      BY <2>1 DEF TypeOK, States
    <2> QED
      BY <2>1, <2>2 DEF TypeOK, MenuInv, PressInv, Menus, mouse, screen
  <1>5. CASE Timer_draw
    <2>1. /\ Mouse_draw
          /\ shown' = [menu |-> Menu_draw, cursor |-> cursor']
          /\ acted' = (acted \/ state' # state)
          /\ skip_frame' = TRUE /\ pc' = "receive" /\ msg' \subseteq msg
          /\ UNCHANGED <<pending, mouse>>
      BY <1>5 DEF Timer_draw, gpu_buffer_commit
    <2>2. /\ state' \in States /\ current_menu' \in Menus /\ MenuInv'
          /\ cursor' \in {"MOUSE_NORMAL", "MOUSE_CLICK"}
          /\ state # "GS_MAIN" => state' = state
          /\ state' = "GS_MAIN" => state = "GS_MAIN"
      BY <2>1, DrawEffect
    <2>3. acted' \in BOOLEAN
      BY <2>1 DEF TypeOK
    <2>4. shown' \in [menu : Menus \cup {"none"}, cursor : {"MOUSE_NORMAL", "MOUSE_CLICK", "none"}]
      BY <2>1, <2>2 DEF TypeOK, Menu_draw
    <2>5. TypeOK'
      BY <2>1, <2>2, <2>3, <2>4 DEF TypeOK, mouse
    <2>6. acted' => state' # "GS_MAIN"
      BY <2>1, <2>2 DEF PressInv
    <2> QED
      BY <2>1, <2>2, <2>5, <2>6 DEF PressInv, mouse
  <1>6. CASE UNCHANGED vars
    BY <1>6 DEF vars, TypeOK, MenuInv, PressInv, mouse, game, screen
  <1> QED
    BY <1>1, <1>2, <1>3, <1>4, <1>5, <1>6 DEF Next, Loop

LEMMA GameInvariant == Spec => []GameInv
  BY GameInit, GameStep, PTL DEF Spec

\* The pointer stays on the screen and every variable in its range.
THEOREM GameTypeCorrect == Spec => []TypeOK
  BY GameInvariant, PTL DEF GameInv

\* Only drawing a frame and the Escape key change the state of the game.
LEMMA StateChanges ==
    ASSUME GameInv, [Next]_vars, state' # state
    PROVE  (pc = "timer" /\ Mouse_draw) \/ (pc = "kbd" /\ InMenu /\ state' = "GS_QUIT")
  <1>1. CASE Tick \/ Interrupt("mouse") \/ Interrupt("kbd")
    BY <1>1 DEF Tick, Interrupt, game
  <1>2. CASE Receive \/ Quit \/ Skip \/ Mouse_handle_partial \/ Timer_skip
    BY <1>2 DEF Receive, Quit, Skip, Mouse_handle_partial, Timer_skip, game
  <1>3. CASE \E mx \in MovesX, my \in MovesY, left \in BOOLEAN : Mouse_handle(mx, my, left)
    BY <1>3 DEF Mouse_handle
  <1>4. CASE \E esc \in BOOLEAN : Keyboard_handle(esc)
    BY <1>4 DEF Keyboard_handle, Gamestate_change
  <1>5. CASE Timer_draw
    BY <1>5 DEF Timer_draw
  <1>6. CASE UNCHANGED vars
    BY <1>6 DEF vars, game
  <1> QED
    BY <1>1, <1>2, <1>3, <1>4, <1>5, <1>6 DEF Next, Loop

\* A click takes effect only where the button went down.
THEOREM ClicksAreNotDragged == Spec => NoDragClick
  <1>1. GameInv /\ [Next]_vars => [(pc = "timer" /\ state' # state) => ~moved]_vars
    <2> SUFFICES ASSUME GameInv, [Next]_vars, pc = "timer", state' # state
                 PROVE  ~moved
      OBVIOUS
    <2>1. Mouse_draw
      BY StateChanges
    <2> QED
      BY <2>1, DrawEffect DEF GameInv, PressInv
  <1> QED
    BY <1>1, GameInvariant, PTL DEF Spec, NoDragClick

\* One press of the left button changes the state of the game at most once,
\* however many frames are drawn while it lasts.
THEOREM OneChangePerPress == Spec => OnePressOneChange
  <1>1. GameInv /\ [Next]_vars => [(pc = "timer" /\ state' # state) => ~acted]_vars
    <2> SUFFICES ASSUME GameInv, [Next]_vars, pc = "timer", state' # state
                 PROVE  ~acted
      OBVIOUS
    <2>1. Mouse_draw
      BY StateChanges
    <2> QED
      BY <2>1, DrawEffect DEF GameInv, PressInv
  <1> QED
    BY <1>1, GameInvariant, PTL DEF Spec, OnePressOneChange

\* Nothing that is handled after the decision to quit takes it back.
THEOREM QuitStays == Spec => QuitIsFinal
  <1>1. GameInv /\ [Next]_vars => [state = "GS_QUIT" => state' = "GS_QUIT"]_vars
    <2> SUFFICES ASSUME GameInv, [Next]_vars, state = "GS_QUIT", state' # state
                 PROVE  FALSE
      OBVIOUS
    <2>1. Mouse_draw
      BY StateChanges DEF InMenu
    <2> QED
      BY <2>1, DrawEffect DEF GameInv
  <1> QED
    BY <1>1, GameInvariant, PTL DEF Spec, QuitIsFinal

\* Only the timer handler that draws a frame changes what is shown.
LEMMA FrameChanges ==
    ASSUME [Next]_vars, shown' # shown
    PROVE  Timer_draw
  <1>1. CASE Tick \/ Interrupt("mouse") \/ Interrupt("kbd")
    BY <1>1 DEF Tick, Interrupt, screen
  <1>2. CASE Receive \/ Quit \/ Skip \/ Mouse_handle_partial \/ Timer_skip
    BY <1>2 DEF Receive, Quit, Skip, Mouse_handle_partial, Timer_skip, screen
  <1>3. CASE \E mx \in MovesX, my \in MovesY, left \in BOOLEAN : Mouse_handle(mx, my, left)
    BY <1>3 DEF Mouse_handle, screen
  <1>4. CASE \E esc \in BOOLEAN : Keyboard_handle(esc)
    BY <1>4 DEF Keyboard_handle, screen
  <1>5. CASE UNCHANGED vars
    BY <1>5 DEF vars, screen
  <1> QED
    BY <1>1, <1>2, <1>3, <1>4, <1>5 DEF Next, Loop

\* The menu a frame shows and the hand on it belong to the state in which the
\* frame was drawn, for every resolution and every sequence of packets.
THEOREM FramesAreCoherent == Spec => FrameIsCoherent
  <1>1. GameInv /\ [Next]_vars =>
          [shown' # shown =>
             \/ state = "GS_QUIT"
             \/ /\ shown'.menu = state
                /\ shown'.cursor = "MOUSE_CLICK" <=> Hits(state, x, y) # {}]_vars
    <2> SUFFICES ASSUME GameInv, [Next]_vars, shown' # shown, state # "GS_QUIT"
                 PROVE  /\ shown'.menu = state
                        /\ shown'.cursor = "MOUSE_CLICK" <=> Hits(state, x, y) # {}
      OBVIOUS
    <2>1. Timer_draw
      BY FrameChanges
    <2>2. state \in Menus /\ current_menu = state /\ InMenu
      BY DEF GameInv, TypeOK, MenuInv, InMenu, States, Menus
    <2>3. shown' = [menu |-> current_menu, cursor |-> cursor']
      BY <2>1, <2>2 DEF Timer_draw, gpu_buffer_commit, Menu_draw
    <2>4. cursor' = IF Hits(current_menu, x, y) = {} THEN "MOUSE_NORMAL" ELSE "MOUSE_CLICK"
      BY <2>1, <2>2 DEF Timer_draw, Mouse_draw
    <2> QED
      BY <2>2, <2>3, <2>4
  <1> QED
    BY <1>1, GameInvariant, PTL DEF Spec, FrameIsCoherent
=============================================================================
