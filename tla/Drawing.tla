------------------------------- MODULE Drawing -------------------------------
(***************************************************************************)
(* Sprites and the back buffer: Sprite_draw (sprite/sprite.c), the two     *)
(* ways in which drivers/gpu.c copies a frame of a sprite sheet into the   *)
(* buffer, line by line or pixel by pixel, and the exchange of the buffer. *)
(* One row of a frame is one step.  A pixel is one byte (mode 105h).       *)
(***************************************************************************)
EXTENDS Integers

CONSTANTS
    X_RES, Y_RES,  \* gpu_res_info
    Sheet,         \* the image of the sprite: width, height, bytes
    Frames,        \* its frames: offset and size inside the image
    framesc,       \* how many there are
    delay,         \* sprite->delay
    Xs, Ys,        \* where it is drawn
    MaxDraws       \* bound: sprites drawn between two exchanges

Frame == [ox : Nat, oy : Nat, sx : Nat, sy : Nat]

ASSUME ScreenAssumption == X_RES \in Nat \ {0} /\ Y_RES \in Nat \ {0}
ASSUME WidthAssumption == X_RES < 65536 /\ Y_RES < 65536
ASSUME SheetAssumption ==
    /\ Sheet.width \in Nat /\ Sheet.height \in Nat
    /\ Sheet.bytes \in [0..Sheet.width * Sheet.height - 1 -> 0..255]
ASSUME FramesAssumption ==
    /\ framesc \in Nat \ {0}
    /\ Frames \in [0..framesc - 1 -> Frame]
    /\ \A i \in 0..framesc - 1 : /\ Frames[i].ox + Frames[i].sx <= Sheet.width
                                 /\ Frames[i].oy + Frames[i].sy <= Sheet.height
ASSUME InputAssumption == Xs \subseteq Int /\ Ys \subseteq Int /\ delay \in Nat /\ MaxDraws \in Nat

VARIABLES
    buf,            \* backbuffer
    video,          \* video_mem
    transparent,    \* sprite->transparent
    current_frame, current_delay,
    op,             \* the call of Sprite_draw that is under way: its position
    row,            \* the row it is at
    total,          \* history: calls finished, modulo one round of all frames
    draws,          \* calls since the last exchange
    want,           \* history: the picture that should be in the buffer
    wild            \* history: a copy reached outside of a buffer

sprite == <<transparent, current_frame, current_delay, total>>
vars == <<buf, video, sprite, op, row, draws, want, wild>>

Pixels == 0..X_RES * Y_RES - 1
Black == [l \in Pixels |-> 0]
Idle == [busy |-> FALSE, x |-> 0, y |-> 0]
Drawing == [busy : BOOLEAN, x : Int, y : Int]
TRANSPARENT == 99
Round == framesc * (delay + 1)

\* The member transparent of a sprite is not initialised by Sprite_create.
Init ==
    /\ buf = Black /\ video = Black /\ want = Black
    /\ transparent \in BOOLEAN /\ current_frame = 0 /\ current_delay = 0
    /\ op = Idle /\ row = 0 /\ total = 0 /\ draws = 0 /\ wild = FALSE

-----------------------------------------------------------------------------
\* The byte of the sheet at column i and row r of a frame.
Byte(f, r, i) == Sheet.bytes[(f.oy + r) * Sheet.width + f.ox + i]

\* The picture with a frame on top of it, as it should be.
Overlay(pic, f, px, py) ==
    [l \in Pixels |->
        LET i == (l % X_RES) - px
            r == (l \div X_RES) - py
        IN IF /\ i >= 0 /\ i < f.sx /\ r >= 0 /\ r < f.sy
              /\ transparent => Byte(f, r, i) # TRANSPARENT
           THEN Byte(f, r, i) ELSE pic[l]]

\* Sprite_draw is called.
Sprite_draw(px, py) ==
    /\ ~op.busy /\ draws < MaxDraws
    /\ op' = [busy |-> TRUE, x |-> px, y |-> py] /\ row' = 0
    /\ want' = Overlay(want, Frames[current_frame], px, py)
    /\ draws' = draws + 1
    /\ UNCHANGED <<buf, video, sprite, wild>>

\* gpu_draw_line for n bytes at (px, py): is there anything to do, and what
\* is copied where.
LineVisible(px, py, n) ==
    /\ px <= X_RES /\ px + n >= 0
    /\ py >= 0 /\ py < Y_RES

Larger(a, b) == IF a >= b THEN a ELSE b
Smaller(a, b) == IF a <= b THEN a ELSE b

LineStart(px) == Larger(px, 0)
LineEndPastEdge(px, n) == Smaller(X_RES, px + n - 1)
LineEnd(px, n) == Smaller(X_RES - 1, px + n - 1)
LineCount(px, n) == LineEnd(px, n) - LineStart(px) + 1
LineLocation(px, py) == py * X_RES + LineStart(px)
SkipNothing(px) == 0
LineSkip(px) == IF px < 0 THEN -px ELSE 0

LineInside(px, py, n) ==
    /\ LineCount(px, n) >= 0
    /\ LineLocation(px, py) >= 0
    /\ LineLocation(px, py) + LineCount(px, n) <= X_RES * Y_RES
    /\ LineSkip(px) + LineCount(px, n) <= n

\* gpu_draw_line with row r of a frame.
gpu_draw_line(f, r, px, py) ==
    IF LineVisible(px, py, f.sx)
    THEN /\ wild' = (wild \/ ~LineInside(px, py, f.sx))
         /\ buf' = [l \in Pixels |->
                      LET i == l - LineLocation(px, py) + LineSkip(px)
                      IN IF /\ LineLocation(px, py) <= l
                            /\ l < LineLocation(px, py) + LineCount(px, f.sx)
                            /\ i < f.sx
                         THEN Byte(f, r, i) ELSE buf[l]]
    ELSE UNCHANGED <<buf, wild>>

\* The conversion to uint16_t of the parameters of gpu_draw_pixel.
Converted(n) == n % 65536

PixelVisible(px, py) == Converted(px) < X_RES /\ Converted(py) < Y_RES
PixelLocation(px, py) == Converted(py) * X_RES + Converted(px)

\* gpu_draw_pixel for the pixels of row r of a frame that are not transparent.
gpu_draw_pixels(f, r, px, py) ==
    LET drawn == {i \in 0..f.sx - 1 : PixelVisible(px + i, py) /\ Byte(f, r, i) # TRANSPARENT}
    IN /\ buf' = [l \in Pixels |->
                    LET here == {i \in drawn : PixelLocation(px + i, py) = l}
                    IN IF here = {} THEN buf[l] ELSE Byte(f, r, CHOOSE i \in here : TRUE)]
       /\ wild' = (wild \/ \E i \in drawn : PixelLocation(px + i, py) \notin Pixels)

\* One row, by gpu_draw_transparent_xpm or gpu_draw_xpm.
DrawRow ==
    LET f == Frames[current_frame]
    IN /\ op.busy /\ row < f.sy
       /\ row' = row + 1
       /\ IF transparent THEN gpu_draw_pixels(f, row, op.x, op.y + row)
                         ELSE gpu_draw_line(f, row, op.x, op.y + row)
       /\ UNCHANGED <<video, sprite, op, draws, want>>

TurnsEarly == current_delay + 1 = delay
\* The frame has been drawn often enough.
Turns == current_delay = delay

\* The end of Sprite_draw: on to the next frame when the delay is over.
Advance ==
    /\ op.busy /\ row = Frames[current_frame].sy
    /\ op' = Idle /\ row' = 0
    /\ IF delay = 0
       THEN UNCHANGED <<current_frame, current_delay>>
       ELSE /\ current_delay' = IF Turns THEN 0 ELSE current_delay + 1
            /\ current_frame' = IF Turns THEN (current_frame + 1) % framesc ELSE current_frame
    /\ total' = (total + 1) % Round
    /\ UNCHANGED <<buf, video, transparent, draws, want, wild>>

\* gpu_buffer_commit and gpu_buffer_clear.
Exchange ==
    /\ ~op.busy
    /\ video' = buf
    /\ buf' = Black /\ want' = Black
    /\ draws' = 0
    /\ UNCHANGED <<sprite, op, row, wild>>

Next ==
    \/ \E px \in Xs, py \in Ys : Sprite_draw(px, py)
    \/ DrawRow \/ Advance \/ Exchange

Spec == Init /\ [][Next]_vars

-----------------------------------------------------------------------------
(* Properties. *)

\* Buffers, counters and position stay in range.
TypeOK ==
    /\ buf \in [Pixels -> 0..255] /\ video \in [Pixels -> 0..255] /\ want \in [Pixels -> 0..255]
    /\ transparent \in BOOLEAN
    /\ current_frame \in 0..framesc - 1 /\ current_delay \in 0..delay
    /\ op \in Drawing /\ row \in 0..Frames[current_frame].sy
    /\ total \in 0..Round - 1 /\ draws \in 0..MaxDraws /\ wild \in BOOLEAN

\* No copy of gpu_draw_line, however the line lies across the borders of the
\* screen, and no pixel touches memory outside the back buffer or reads past
\* the end of the line.
StaysInside == ~wild

\* Between two calls the buffer holds what was drawn since it was cleared,
\* each frame cut off at the borders, whole and at its place.
PictureIsRight == ~op.busy => buf = want

\* The frame of an animation is a function of how often the sprite was drawn:
\* each one stays for delay + 1 calls, in turn.
FrameFollowsCalls == delay > 0 => total = current_frame * (delay + 1) + current_delay
=============================================================================
