---------------------------- MODULE DrawingProofs ----------------------------
(***************************************************************************)
(* Proofs about Drawing for every screen, sprite sheet, set of frames and  *)
(* position.                                                               *)
(***************************************************************************)
EXTENDS Drawing, TLAPS

-----------------------------------------------------------------------------
(* Arithmetic: a table of h rows of w entries, stored row by row. *)

LEMMA ProductNat ==
    ASSUME NEW m \in Nat, NEW n \in Nat
    PROVE  m * n \in Nat
  OBVIOUS

\* A row ends before the table does.
LEMMA RowFits ==
    ASSUME NEW w \in Nat, NEW h \in Nat, NEW a \in Nat, a < h
    PROVE  a * w \in Nat /\ w * h \in Nat /\ a * w + w <= w * h
  <1> DEFINE k == h - 1 - a
  <1>1. k \in Nat /\ h = a + 1 + k
    OBVIOUS
  <1>2. w * k \in Nat /\ a * w \in Nat /\ w * h \in Nat
    BY <1>1, ProductNat
  <1>3. w * (a + 1 + k) = a * w + w + w * k
    BY <1>1
  <1>4. w * h = a * w + w + w * k
    BY <1>1, <1>3
  <1> HIDE DEF k
  <1> QED
    BY <1>2, <1>4

\* The place of an entry is inside the table.
LEMMA PlaceFits ==
    ASSUME NEW w \in Nat, NEW h \in Nat, NEW a \in Nat, NEW b \in Nat, a < h, b < w
    PROVE  a * w + b \in 0..w * h - 1
  BY RowFits

-----------------------------------------------------------------------------
(* Frames and the sheet. *)

GoodFrame(f) ==
    /\ f \in Frame
    /\ f.ox + f.sx <= Sheet.width
    /\ f.oy + f.sy <= Sheet.height

LEMMA FramesAreGood ==
    ASSUME NEW i \in 0..framesc - 1
    PROVE  GoodFrame(Frames[i])
  BY FramesAssumption DEF GoodFrame

LEMMA FrameTypes ==
    ASSUME NEW f, GoodFrame(f)
    PROVE  f.ox \in Nat /\ f.oy \in Nat /\ f.sx \in Nat /\ f.sy \in Nat
  BY DEF GoodFrame, Frame

\* Reading a frame never leaves the sheet.
LEMMA ByteType ==
    ASSUME NEW f, GoodFrame(f),
           NEW r \in Nat, r < f.sy, NEW i \in Nat, i < f.sx
    PROVE  Byte(f, r, i) \in 0..255
  <1>1. f.ox \in Nat /\ f.oy \in Nat /\ f.sx \in Nat /\ f.sy \in Nat
    BY FrameTypes
  <1>2. f.ox + f.sx <= Sheet.width /\ f.oy + f.sy <= Sheet.height
    BY DEF GoodFrame
  <1>3. Sheet.width \in Nat /\ Sheet.height \in Nat
    BY SheetAssumption
  <1> DEFINE a == f.oy + r
             b == f.ox + i
  <1>4. a \in Nat /\ b \in Nat /\ a < Sheet.height /\ b < Sheet.width
    BY <1>1, <1>2, <1>3
  <1> HIDE DEF a, b
  <1>5. a * Sheet.width + b \in 0..Sheet.width * Sheet.height - 1
    BY <1>3, <1>4, PlaceFits
  <1>6. a * Sheet.width \in Nat
    BY <1>3, <1>4, ProductNat
  <1>7. Sheet.bytes[a * Sheet.width + b] \in 0..255
    BY <1>5, SheetAssumption
  <1>8. (f.oy + r) * Sheet.width + f.ox + i = a * Sheet.width + b
    <2>1. (f.oy + r) * Sheet.width \in Nat
      BY <1>6 DEF a
    <2> QED
      BY <2>1, <1>1 DEF a, b
  <1> QED
    BY <1>7, <1>8 DEF Byte

-----------------------------------------------------------------------------
(* Copies into the buffer. *)

\* A line that gpu_draw_line does not reject is cut off so that the copy
\* stays within the buffer and within the line.
LEMMA LineSafe ==
    ASSUME NEW px \in Int, NEW py \in Int, NEW n \in Nat, LineVisible(px, py, n)
    PROVE  /\ LineInside(px, py, n)
           /\ LineLocation(px, py) \in Nat /\ LineCount(px, n) \in Nat
           /\ LineSkip(px) \in Nat
  <1>1. py \in Nat /\ py < Y_RES /\ X_RES \in Nat /\ Y_RES \in Nat
    BY ScreenAssumption DEF LineVisible
  <1>2. py * X_RES \in Nat /\ X_RES * Y_RES \in Nat /\ py * X_RES + X_RES <= X_RES * Y_RES
    BY <1>1, RowFits
  <1>3. px <= X_RES /\ px + n >= 0
    BY DEF LineVisible
  <1>4. LineStart(px) \in Nat /\ LineSkip(px) \in Nat /\ LineCount(px, n) \in Nat
    BY <1>1, <1>3, ScreenAssumption DEF LineStart, LineSkip, LineCount, LineEnd, Larger, Smaller
  <1>5. LineStart(px) + LineCount(px, n) <= X_RES /\ LineSkip(px) + LineCount(px, n) <= n
    BY <1>1, <1>3, ScreenAssumption DEF LineStart, LineSkip, LineCount, LineEnd, Larger, Smaller
  <1>6. LineLocation(px, py) \in Nat
        /\ LineLocation(px, py) + LineCount(px, n) <= X_RES * Y_RES
    BY <1>1, <1>2, <1>4, <1>5 DEF LineLocation
  <1> QED
    BY <1>4, <1>5, <1>6 DEF LineInside

LEMMA ConvertedType ==
    ASSUME NEW n \in Int
    PROVE  Converted(n) \in Nat
  <1>1. n % 65536 \in Int /\ n % 65536 >= 0
    OBVIOUS
  <1> QED
    BY <1>1 DEF Converted

LEMMA ScreenType == X_RES \in Nat /\ Y_RES \in Nat
  BY ScreenAssumption

\* A pixel that gpu_draw_pixel does not reject is in the buffer, also if the
\* conversion to uint16_t changed its coordinates.
LEMMA PixelSafe ==
    ASSUME NEW px \in Int, NEW py \in Int, PixelVisible(px, py)
    PROVE  PixelLocation(px, py) \in Pixels
  <1> DEFINE a == Converted(py)
             b == Converted(px)
  <1>1. a \in Nat /\ b \in Nat
    BY ConvertedType
  <1>2. a < Y_RES /\ b < X_RES
    BY DEF PixelVisible
  <1> HIDE DEF a, b
  <1>3. X_RES \in Nat /\ Y_RES \in Nat
    BY ScreenType
  <1>4. a * X_RES + b \in 0..X_RES * Y_RES - 1
    BY <1>1, <1>2, <1>3, PlaceFits
  <1> QED
    BY <1>4 DEF PixelLocation, Pixels, a, b

Picture == [Pixels -> 0..255]

LEMMA PixelsAreInts == \A l \in Pixels : l \in Int
  BY DEF Pixels

LEMMA LineType ==
    ASSUME NEW f, GoodFrame(f), NEW r \in Nat, r < f.sy,
           NEW px \in Int, NEW py \in Int, buf \in Picture, wild = FALSE,
           gpu_draw_line(f, r, px, py)
    PROVE  buf' \in Picture /\ wild' = FALSE
  <1>0. f.sx \in Nat
    BY FrameTypes
  <1>1. CASE ~LineVisible(px, py, f.sx)
    BY <1>1 DEF gpu_draw_line
  <1>2. CASE LineVisible(px, py, f.sx)
    <2>1. /\ LineInside(px, py, f.sx)
          /\ LineLocation(px, py) \in Nat /\ LineCount(px, f.sx) \in Nat
          /\ LineSkip(px) \in Nat
      BY <1>0, <1>2, LineSafe
    <2>2. wild' = FALSE
      BY <1>2, <2>1 DEF gpu_draw_line
    <2>3. ASSUME NEW l \in Pixels,
                 LineLocation(px, py) <= l,
                 l - LineLocation(px, py) + LineSkip(px) < f.sx
          PROVE  Byte(f, r, l - LineLocation(px, py) + LineSkip(px)) \in 0..255
      <3>1. l - LineLocation(px, py) + LineSkip(px) \in Nat
        BY <2>1, <2>3, PixelsAreInts
      <3> QED
        BY <3>1, <2>3, ByteType
    <2>4. \A l \in Pixels : buf[l] \in 0..255
      BY DEF Picture
    <2>5. buf' = [l \in Pixels |->
                      LET i == l - LineLocation(px, py) + LineSkip(px)
                      IN IF /\ LineLocation(px, py) <= l
                            /\ l < LineLocation(px, py) + LineCount(px, f.sx)
                            /\ i < f.sx
                         THEN Byte(f, r, i) ELSE buf[l]]
      BY <1>2 DEF gpu_draw_line
    <2>6. buf' \in Picture
      BY <2>3, <2>4, <2>5 DEF Picture
    <2> QED
      BY <2>2, <2>6
  <1> QED
    BY <1>1, <1>2

LEMMA PixelsType ==
    ASSUME NEW f, GoodFrame(f), NEW r \in Nat, r < f.sy,
           NEW px \in Int, NEW py \in Int, buf \in Picture, wild = FALSE,
           gpu_draw_pixels(f, r, px, py)
    PROVE  buf' \in Picture /\ wild' = FALSE
  <1>0. f.sx \in Nat
    BY FrameTypes
  <1> DEFINE drawn == {i \in 0..f.sx - 1 : PixelVisible(px + i, py) /\ Byte(f, r, i) # TRANSPARENT}
             here(l) == {i \in drawn : PixelLocation(px + i, py) = l}
  <1>1. \A i \in drawn : i \in Nat /\ i < f.sx /\ PixelVisible(px + i, py)
    BY <1>0
  <1>2. \A i \in drawn : PixelLocation(px + i, py) \in Pixels
    BY <1>1, PixelSafe
  <1>3. \A i \in drawn : Byte(f, r, i) \in 0..255
    BY <1>1, ByteType
  <1>4. buf' = [l \in Pixels |-> IF here(l) = {} THEN buf[l]
                                 ELSE Byte(f, r, CHOOSE i \in here(l) : TRUE)]
    BY DEF gpu_draw_pixels
  <1>5. wild' = (wild \/ \E i \in drawn : PixelLocation(px + i, py) \notin Pixels)
    BY DEF gpu_draw_pixels
  <1>6. ASSUME NEW l \in Pixels, here(l) # {}
        PROVE  Byte(f, r, CHOOSE i \in here(l) : TRUE) \in 0..255
    <2>1. (CHOOSE i \in here(l) : TRUE) \in here(l)
      BY <1>6
    <2> QED
      BY <2>1, <1>3
  <1>7. \A l \in Pixels : buf[l] \in 0..255
    BY DEF Picture
  <1> HIDE DEF drawn, here
  <1>8. buf' \in Picture
    BY <1>4, <1>6, <1>7 DEF Picture
  <1> QED
    BY <1>2, <1>5, <1>8

LEMMA OverlayType ==
    ASSUME NEW f, GoodFrame(f), NEW px \in Int, NEW py \in Int, NEW pic \in Picture
    PROVE  Overlay(pic, f, px, py) \in Picture
  <1>0. f.sx \in Nat /\ f.sy \in Nat
    BY FrameTypes
  <1>1. \A l \in Pixels : l % X_RES \in Int /\ l \div X_RES \in Int
    BY ScreenAssumption DEF Pixels
  <1>2. \A i, r \in Int : (i >= 0 /\ i < f.sx /\ r >= 0 /\ r < f.sy) => Byte(f, r, i) \in 0..255
    BY <1>0, ByteType
  <1>3. \A l \in Pixels : pic[l] \in 0..255
    BY DEF Picture
  <1>4. ASSUME NEW l \in Pixels
        PROVE  Overlay(pic, f, px, py)[l] \in 0..255
    <2> DEFINE i == (l % X_RES) - px
               r == (l \div X_RES) - py
    <2>1. i \in Int /\ r \in Int
      BY <1>1
    <2>2. Overlay(pic, f, px, py)[l] =
            IF /\ i >= 0 /\ i < f.sx /\ r >= 0 /\ r < f.sy
               /\ transparent => Byte(f, r, i) # TRANSPARENT
            THEN Byte(f, r, i) ELSE pic[l]
      BY DEF Overlay
    <2> HIDE DEF i, r
    <2> QED
      BY <1>2, <1>3, <2>1, <2>2
  <1> QED
    BY <1>4 DEF Overlay, Picture

-----------------------------------------------------------------------------
(* The invariant. *)

DrawInv == TypeOK /\ StaysInside

\* The counters of the animation, as TypeOK and FrameFollowsCalls need them.
LEMMA RoundType == Round \in Nat \ {0} /\ delay \in Nat /\ framesc \in Nat \ {0}
  <1>1. delay \in Nat /\ framesc \in Nat /\ framesc >= 1
    BY FramesAssumption, InputAssumption
  <1>2. 0 < framesc
    BY <1>1
  <1>3. 0 * (delay + 1) + (delay + 1) <= (delay + 1) * framesc
    BY <1>1, <1>2, RowFits
  <1>4. framesc * (delay + 1) = (delay + 1) * framesc /\ (delay + 1) * framesc \in Nat
    BY <1>1, ProductNat
  <1> QED
    BY <1>1, <1>3, <1>4 DEF Round

LEMMA BlackType == Black \in Picture
  BY DEF Black, Picture

LEMMA DrawInit == Init => DrawInv
  <1> SUFFICES ASSUME Init PROVE DrawInv
    OBVIOUS
  <1>1. buf \in Picture /\ video \in Picture /\ want \in Picture
    BY BlackType DEF Init
  <1>2. current_frame \in 0..framesc - 1 /\ current_delay \in 0..delay /\ total \in 0..Round - 1
    BY RoundType DEF Init
  <1>3. GoodFrame(Frames[current_frame])
    BY <1>2, FramesAreGood
  <1>4. row \in 0..Frames[current_frame].sy
    BY <1>3, FrameTypes DEF Init
  <1>5. op \in Drawing /\ draws \in 0..MaxDraws /\ wild = FALSE /\ transparent \in BOOLEAN
    BY InputAssumption DEF Init, Idle, Drawing
  <1> QED
    BY <1>1, <1>2, <1>4, <1>5 DEF DrawInv, TypeOK, StaysInside, Picture

LEMMA DrawStep == DrawInv /\ [Next]_vars => DrawInv'
  <1> SUFFICES ASSUME DrawInv, [Next]_vars PROVE DrawInv'
    OBVIOUS
  <1> USE DEF DrawInv
  <1>1. /\ buf \in Picture /\ video \in Picture /\ want \in Picture
        /\ transparent \in BOOLEAN
        /\ current_frame \in 0..framesc - 1 /\ current_delay \in 0..delay
        /\ op \in Drawing /\ row \in 0..Frames[current_frame].sy
        /\ total \in 0..Round - 1 /\ draws \in 0..MaxDraws /\ wild = FALSE
    BY DEF TypeOK, StaysInside, Picture
  <1>2. GoodFrame(Frames[current_frame])
    BY <1>1, FramesAreGood
  <1>3. Frames[current_frame].sy \in Nat
    BY <1>2, FrameTypes
  <1>4. ASSUME NEW px \in Xs, NEW py \in Ys, Sprite_draw(px, py)
        PROVE  DrawInv'
    <2>1. px \in Int /\ py \in Int
      BY InputAssumption
    <2>2. want' \in Picture
      BY <1>1, <1>2, <1>4, <2>1, OverlayType DEF Sprite_draw
    <2>3. op' \in Drawing /\ row' \in 0..Frames[current_frame].sy
      BY <1>3, <1>4, <2>1 DEF Sprite_draw, Drawing
    <2>4. draws' \in 0..MaxDraws
      BY <1>1, <1>4, InputAssumption DEF Sprite_draw
    <2> QED
      BY <1>1, <1>4, <2>2, <2>3, <2>4 DEF Sprite_draw, sprite, TypeOK, StaysInside, Picture
  <1>5. CASE DrawRow
    <2> DEFINE f == Frames[current_frame]
    <2>1. row \in Nat /\ row < f.sy /\ row' = row + 1
      BY <1>1, <1>3, <1>5 DEF DrawRow
    <2>2. op.x \in Int /\ op.y + row \in Int
      BY <1>1, <2>1 DEF Drawing
    <2>3. \/ gpu_draw_pixels(f, row, op.x, op.y + row)
          \/ gpu_draw_line(f, row, op.x, op.y + row)
      BY <1>5 DEF DrawRow
    <2> HIDE DEF f
    <2>4. GoodFrame(f)
      BY <1>2 DEF f
    <2>5. buf' \in Picture /\ wild' = FALSE
      BY <1>1, <2>1, <2>2, <2>3, <2>4, LineType, PixelsType
    <2>6. row' \in 0..Frames[current_frame].sy
      BY <1>3, <2>1 DEF f
    <2> QED
      BY <1>1, <1>5, <2>5, <2>6 DEF DrawRow, sprite, TypeOK, StaysInside, Picture
  <1>6. CASE Advance
    <2>1. current_delay' \in 0..delay
      BY <1>1, <1>6, RoundType DEF Advance, Turns
    <2>2. (current_frame + 1) % framesc \in 0..framesc - 1
      BY <1>1, RoundType
    <2>3. current_frame' \in 0..framesc - 1
      BY <1>1, <1>6, <2>2 DEF Advance
    <2>4. (total + 1) % Round \in 0..Round - 1
      BY <1>1, RoundType
    <2>5. total' \in 0..Round - 1
      BY <1>6, <2>4 DEF Advance
    <2>6. GoodFrame(Frames[current_frame'])
      BY <2>3, FramesAreGood
    <2>7. Frames[current_frame'].sy \in Nat
      BY <2>6, FrameTypes
    <2>8. row' \in 0..Frames[current_frame'].sy /\ op' \in Drawing
      BY <1>6, <2>7 DEF Advance, Idle, Drawing
    <2> QED
      BY <1>1, <1>6, <2>1, <2>3, <2>5, <2>8 DEF Advance, TypeOK, StaysInside, Picture
  <1>7. CASE Exchange
    <2>1. draws' \in 0..MaxDraws
      BY <1>7, InputAssumption DEF Exchange
    <2> QED
      BY <1>1, <1>7, <2>1, BlackType DEF Exchange, sprite, TypeOK, StaysInside, Picture
  <1>8. CASE UNCHANGED vars
    BY <1>1, <1>8 DEF vars, sprite, TypeOK, StaysInside, Picture
  <1> QED
    BY <1>4, <1>5, <1>6, <1>7, <1>8 DEF Next

\* The drawing functions keep the types of buffers and counters on every
\* screen and for every sprite sheet: TypeOK is an invariant.
THEOREM DrawingTypeCorrect == Spec => []TypeOK
  <1>1. DrawInv => TypeOK
    BY DEF DrawInv
  <1> QED
    BY <1>1, DrawInit, DrawStep, PTL DEF Spec

\* Memory safety of drawing: for every resolution, sheet, frame inside the
\* sheet and position, no copy of gpu_draw_line and no pixel of gpu_draw_pixel
\* leaves the back buffer, and no line is read past its end.
THEOREM DrawingStaysInside == Spec => []StaysInside
  <1>1. DrawInv => StaysInside
    BY DEF DrawInv
  <1> QED
    BY <1>1, DrawInit, DrawStep, PTL DEF Spec

-----------------------------------------------------------------------------
(* The animation. *)

LEMMA ModSmall ==
    ASSUME NEW a \in Nat, NEW m \in Nat \ {0}, a < m
    PROVE  a % m = a
  OBVIOUS

LEMMA ModSelf ==
    ASSUME NEW m \in Nat \ {0}
    PROVE  m % m = 0
  OBVIOUS

LEMMA FrameStep ==
    ASSUME TypeOK, FrameFollowsCalls, Advance
    PROVE  FrameFollowsCalls'
  <1> SUFFICES ASSUME delay > 0
               PROVE  total' = current_frame' * (delay + 1) + current_delay'
    BY DEF FrameFollowsCalls
  <1> DEFINE D == delay + 1
             c == current_frame
             w == current_delay
  <1>1. c \in Nat /\ c < framesc /\ w \in Nat /\ w <= delay /\ total \in Nat
    BY RoundType DEF TypeOK
  <1>2. delay \in Nat /\ framesc \in Nat \ {0} /\ Round \in Nat \ {0} /\ D \in Nat /\ D = delay + 1
    BY RoundType
  <1>3. total = c * D + w
    BY DEF FrameFollowsCalls
  <1>4. /\ w' = IF w = delay THEN 0 ELSE w + 1
        /\ c' = IF w = delay THEN (c + 1) % framesc ELSE c
        /\ total' = (total + 1) % Round
    BY DEF Advance, Turns
  <1>5. Round = D * framesc
    BY <1>2 DEF Round
  <1> HIDE DEF D
  <1>6. c * D \in Nat /\ c * D + D <= Round
    BY <1>1, <1>2, <1>5, RowFits
  <1>7. CASE w # delay
    <2>1. total + 1 \in Nat /\ total + 1 < Round
      BY <1>1, <1>2, <1>3, <1>6, <1>7
    <2>2. total' = total + 1
      BY <1>2, <1>4, <2>1, ModSmall
    <2>3. c' * D = c * D /\ w' = w + 1
      BY <1>4, <1>7
    <2> QED
      BY <1>1, <1>3, <1>6, <2>2, <2>3 DEF D
  <1>8. CASE w = delay /\ c + 1 < framesc
    <2>1. total + 1 = (c + 1) * D
      <3>1. (c + 1) * D = c * D + D
        BY <1>1, <1>2
      <3> QED
        BY <1>1, <1>2, <1>3, <1>6, <1>8, <3>1
    <2>2. (c + 1) * D \in Nat /\ (c + 1) * D + D <= Round
      BY <1>1, <1>2, <1>5, <1>8, RowFits
    <2>3. total' = (c + 1) * D
      BY <1>2, <1>4, <2>1, <2>2, ModSmall
    <2>4. c' = c + 1 /\ w' = 0
      BY <1>1, <1>2, <1>4, <1>8, ModSmall
    <2> QED
      BY <2>2, <2>3, <2>4 DEF D
  <1>9. CASE w = delay /\ c + 1 = framesc
    <2>1. total + 1 = Round
      <3>1. (c + 1) * D = c * D + D
        BY <1>1, <1>2
      <3>2. Round = (c + 1) * D
        BY <1>1, <1>2, <1>5, <1>9
      <3> QED
        BY <1>1, <1>2, <1>3, <1>6, <1>9, <3>1, <3>2
    <2>2. total' = 0
      BY <1>2, <1>4, <2>1, ModSelf
    <2>3. c' = 0 /\ w' = 0
      BY <1>2, <1>4, <1>9, ModSelf
    <2>4. 0 * D = 0
      BY <1>2
    <2> QED
      BY <2>2, <2>3, <2>4 DEF D
  <1> QED
    BY <1>1, <1>2, <1>7, <1>8, <1>9

\* The frame that Sprite_draw shows is determined by the number of calls, for
\* every number of frames and every delay: each stays for delay + 1 calls.
THEOREM FramesInTurn == Spec => []FrameFollowsCalls
  <1>1. Init => FrameFollowsCalls
    <2> SUFFICES ASSUME Init, delay > 0
                 PROVE  total = current_frame * (delay + 1) + current_delay
      BY DEF FrameFollowsCalls
    <2>1. 0 * (delay + 1) = 0
      BY RoundType
    <2> QED
      BY <2>1 DEF Init
  <1>2. TypeOK /\ FrameFollowsCalls /\ [Next]_vars => FrameFollowsCalls'
    <2> SUFFICES ASSUME TypeOK, FrameFollowsCalls, [Next]_vars
                 PROVE  FrameFollowsCalls'
      OBVIOUS
    <2>1. CASE Advance
      BY <2>1, FrameStep
    <2>2. CASE ~Advance
      <3>1. UNCHANGED <<total, current_frame, current_delay>>
        BY <2>2 DEF Next, Sprite_draw, DrawRow, Exchange, vars, sprite
      <3> QED
        BY <3>1 DEF FrameFollowsCalls
    <2> QED
      BY <2>1, <2>2
  <1> QED
    BY <1>1, <1>2, DrawingTypeCorrect, PTL DEF Spec

-----------------------------------------------------------------------------
(* The picture. *)

\* Positions from which the conversion of gpu_draw_pixel to 16 bits cannot
\* bring a pixel outside of the screen back into it.
PositionsFit ==
    /\ \A px \in Xs, k \in 0..framesc - 1 : X_RES - 65536 <= px /\ px + Frames[k].sx <= 65536
    /\ \A py \in Ys, k \in 0..framesc - 1 : Y_RES - 65536 <= py /\ py + Frames[k].sy <= 65536

Column(l) == l % X_RES
Row(l) == l \div X_RES

LEMMA Division ==
    ASSUME NEW l \in Int, NEW x \in Int, x > 0,
           NEW q \in Int, NEW r \in Int, q = l \div x, r = l % x
    PROVE  x * q + r = l
  OBVIOUS

\* Rows do not overlap.
LEMMA RowOrder ==
    ASSUME NEW a \in Int, NEW c \in Int, a < c
    PROVE  a * X_RES \in Int /\ c * X_RES \in Int /\ a * X_RES + X_RES <= c * X_RES
  <1>1. X_RES \in Nat
    BY ScreenType
  <1> DEFINE k == c - a - 1
  <1>2. k \in Nat /\ c = a + 1 + k
    OBVIOUS
  <1>3. (a + 1 + k) * X_RES = a * X_RES + X_RES + k * X_RES
    BY <1>1, <1>2
  <1>4. k * X_RES \in Nat /\ a * X_RES \in Int
    BY <1>1, <1>2, ProductNat
  <1> HIDE DEF k
  <1> QED
    BY <1>1, <1>2, <1>3, <1>4

\* A pixel by its column and its row.
LEMMA PixelPlace ==
    ASSUME NEW l \in Pixels
    PROVE  /\ l \in Int
           /\ Column(l) \in Nat /\ Column(l) < X_RES
           /\ Row(l) \in Nat /\ Row(l) < Y_RES
           /\ Row(l) * X_RES \in Nat
           /\ l = Row(l) * X_RES + Column(l)
  <1>1. l \in Nat /\ l < X_RES * Y_RES /\ X_RES \in Nat /\ X_RES > 0 /\ Y_RES \in Nat
    <2>1. X_RES * Y_RES \in Nat
      BY ScreenType, ProductNat
    <2> QED
      BY <2>1, ScreenAssumption DEF Pixels
  <1>2. Column(l) \in Nat /\ Column(l) < X_RES /\ Row(l) \in Nat
    BY <1>1 DEF Column, Row
  <1>3. X_RES * Row(l) + Column(l) = l
    BY <1>1, <1>2, Division DEF Column, Row
  <1>4. Row(l) * X_RES \in Nat /\ X_RES * Row(l) = Row(l) * X_RES
    BY <1>1, <1>2, ProductNat
  <1>5. Row(l) < Y_RES
    <2> SUFFICES ASSUME ~(Row(l) < Y_RES) PROVE FALSE
      OBVIOUS
    <2>1. Y_RES < Row(l) + 1 /\ Row(l) + 1 \in Int
      BY <1>1, <1>2
    <2>2. Y_RES * X_RES + X_RES <= (Row(l) + 1) * X_RES
      BY <2>1, <1>1, RowOrder
    <2>3. (Row(l) + 1) * X_RES = Row(l) * X_RES + X_RES /\ Y_RES * X_RES = X_RES * Y_RES
      BY <1>1, <1>2
    <2>4. X_RES * Y_RES \in Nat
      BY <1>1, ProductNat
    <2> QED
      BY <2>2, <2>3, <2>4, <1>1, <1>2, <1>3, <1>4
  <1> QED
    BY <1>1, <1>2, <1>3, <1>4, <1>5

\* A place in a row determines the row and the column.
LEMMA SamePlace ==
    ASSUME NEW l \in Pixels, NEW a \in Int, NEW b \in Int, 0 <= b, b < X_RES,
           l = a * X_RES + b
    PROVE  a = Row(l) /\ b = Column(l)
  <1>1. /\ Column(l) \in Nat /\ Column(l) < X_RES /\ Row(l) \in Nat
        /\ Row(l) * X_RES \in Nat /\ l = Row(l) * X_RES + Column(l)
    BY PixelPlace
  <1>2. X_RES \in Nat /\ a * X_RES \in Int
    BY ScreenType
  <1>3. ~(a < Row(l))
    <2> SUFFICES ASSUME a < Row(l) PROVE FALSE
      OBVIOUS
    <2>1. a * X_RES + X_RES <= Row(l) * X_RES
      BY <1>1, RowOrder
    <2> QED
      BY <2>1, <1>1, <1>2
  <1>4. ~(Row(l) < a)
    <2> SUFFICES ASSUME Row(l) < a PROVE FALSE
      OBVIOUS
    <2>1. Row(l) * X_RES + X_RES <= a * X_RES
      BY <1>1, RowOrder
    <2> QED
      BY <2>1, <1>1, <1>2
  <1>5. a = Row(l)
    BY <1>1, <1>3, <1>4
  <1>6. a * X_RES = Row(l) * X_RES
    BY <1>5
  <1>7. b = Column(l)
    BY <1>1, <1>2, <1>6
  <1> QED
    BY <1>5, <1>7

\* The pixels of a screen that row r of a frame at (px, py) covers.
Covered(f, px, py, l) ==
    Row(l) = py /\ Column(l) - px >= 0 /\ Column(l) - px < f.sx

\* gpu_draw_line puts the row where it belongs and cuts it off at the edges.
LEMMA LineEffect ==
    ASSUME NEW f, GoodFrame(f), NEW r \in Nat, NEW px \in Int, NEW py \in Int,
           buf \in Picture, gpu_draw_line(f, r, px, py), NEW l \in Pixels
    PROVE  buf'[l] = IF Covered(f, px, py, l) THEN Byte(f, r, Column(l) - px) ELSE buf[l]
  <1>0. f.sx \in Nat /\ X_RES \in Nat /\ X_RES > 0
    BY FrameTypes, ScreenAssumption
  <1> DEFINE a == Row(l)
             b == Column(l)
             n == f.sx
  <1>1. /\ b \in Nat /\ b < X_RES /\ a \in Nat /\ a < Y_RES
        /\ a * X_RES \in Nat /\ l = a * X_RES + b /\ l \in Int
    BY PixelPlace
  <1> HIDE DEF a, b, n
  <1>2. n \in Nat
    BY <1>0 DEF n
  <1>3. CASE ~LineVisible(px, py, f.sx)
    <2>1. buf' = buf
      BY <1>3 DEF gpu_draw_line
    <2>2. ~LineVisible(px, py, n)
      BY <1>3 DEF n
    <2>3. ~(a = py /\ b - px >= 0 /\ b - px < n)
      BY <2>2, <1>0, <1>1, <1>2 DEF LineVisible
    <2>4. ~Covered(f, px, py, l)
      BY <2>3 DEF Covered, a, b, n
    <2> QED
      BY <2>1, <2>4
  <1>4. CASE LineVisible(px, py, f.sx)
    <2> DEFINE s == LineStart(px)
               c == LineCount(px, n)
               k == LineSkip(px)
               p == LineLocation(px, py)
               i == l - p + k
    <2>1. buf'[l] = IF p <= l /\ l < p + c /\ i < n THEN Byte(f, r, i) ELSE buf[l]
      BY <1>4 DEF gpu_draw_line, n
    <2>2. LineVisible(px, py, n)
      BY <1>4 DEF n
    <2>3. px <= X_RES /\ px + n >= 0 /\ py \in Nat
      BY <2>2 DEF LineVisible
    <2>4. /\ s \in Nat /\ k \in Nat /\ c \in Nat /\ s + c <= X_RES
          /\ s - k = px
          /\ s + c = IF X_RES <= px + n THEN X_RES ELSE px + n
      BY <1>0, <1>2, <2>3 DEF LineStart, LineSkip, LineCount, LineEnd, Larger, Smaller
    <2>5. p = py * X_RES + s /\ py * X_RES \in Nat
      BY <1>0, <2>3, ProductNat DEF LineLocation
    <2> HIDE DEF s, c, k, p
    <2>6. CASE a = py
      <3>1. a * X_RES = py * X_RES
        BY <2>6
      <3>2. l - p = b - s
        BY <3>1, <1>1, <2>4, <2>5
      <3>3. i = b - px
        BY <3>2, <1>1, <2>4
      <3>4. p <= l <=> s <= b
        BY <3>1, <1>1, <2>4, <2>5
      <3>5. l < p + c <=> b < s + c
        BY <3>1, <1>1, <2>4, <2>5
      <3>6. (s <= b /\ b < s + c /\ b - px < n) <=> (b - px >= 0 /\ b - px < n)
        <4>1. s <= b <=> b - px >= 0
          <5>1. s = IF px >= 0 THEN px ELSE 0
            BY DEF s, LineStart, Larger
          <5> QED
            BY <5>1, <1>1
        <4>2. b - px < n => b < s + c
          BY <1>0, <1>1, <1>2, <2>4
        <4> QED
          BY <4>1, <4>2
      <3>7. (p <= l /\ l < p + c /\ i < n) <=> Covered(f, px, py, l)
        BY <3>3, <3>4, <3>5, <3>6, <2>6 DEF Covered, a, b, n
      <3> HIDE DEF i
      <3> QED
        BY <2>1, <3>3, <3>7 DEF b
    <2>7. CASE a < py
      <3>1. a * X_RES + X_RES <= py * X_RES
        BY <2>7, <1>1, <2>3, RowOrder
      <3>2. ~(p <= l)
        BY <3>1, <1>0, <1>1, <2>4, <2>5
      <3>3. ~Covered(f, px, py, l)
        BY <2>7, <1>1, <2>3 DEF Covered, a
      <3> QED
        BY <2>1, <3>2, <3>3
    <2>8. CASE py < a
      <3>1. py * X_RES + X_RES <= a * X_RES
        BY <2>8, <1>1, <2>3, RowOrder
      <3>2. ~(l < p + c)
        BY <3>1, <1>0, <1>1, <2>4, <2>5
      <3>3. ~Covered(f, px, py, l)
        BY <2>8, <1>1, <2>3 DEF Covered, a
      <3> QED
        BY <2>1, <3>2, <3>3
    <2> QED
      BY <2>6, <2>7, <2>8, <1>1, <2>3
  <1> QED
    BY <1>3, <1>4

LEMMA ConvertedFits ==
    ASSUME NEW n \in Int, NEW w \in Nat, w < 65536, w - 65536 <= n, n < 65536
    PROVE  Converted(n) < w <=> 0 <= n /\ n < w
  BY DEF Converted

LEMMA ConvertedSame ==
    ASSUME NEW n \in Int, 0 <= n, n < 65536
    PROVE  Converted(n) = n
  BY DEF Converted

\* gpu_draw_pixel puts the row where it belongs and leaves out what is
\* transparent or outside.
LEMMA PixelsEffect ==
    ASSUME NEW f, GoodFrame(f), NEW r \in Nat, NEW px \in Int, NEW py \in Int,
           X_RES - 65536 <= px, px + f.sx <= 65536, Y_RES - 65536 <= py, py < 65536,
           gpu_draw_pixels(f, r, px, py), NEW l \in Pixels
    PROVE  buf'[l] = IF Covered(f, px, py, l) /\ Byte(f, r, Column(l) - px) # TRANSPARENT
                     THEN Byte(f, r, Column(l) - px) ELSE buf[l]
  <1>0. f.sx \in Nat /\ X_RES \in Nat /\ Y_RES \in Nat /\ X_RES < 65536 /\ Y_RES < 65536
    BY FrameTypes, ScreenAssumption, WidthAssumption
  <1> DEFINE drawn == {i \in 0..f.sx - 1 : PixelVisible(px + i, py) /\ Byte(f, r, i) # TRANSPARENT}
             here == {i \in drawn : PixelLocation(px + i, py) = l}
             a == Row(l)
             b == Column(l)
  <1>1. buf'[l] = IF here = {} THEN buf[l] ELSE Byte(f, r, CHOOSE i \in here : TRUE)
    BY DEF gpu_draw_pixels
  <1>2. /\ b \in Nat /\ b < X_RES /\ a \in Nat /\ a < Y_RES
        /\ a * X_RES \in Nat /\ l = a * X_RES + b /\ l \in Int
    BY PixelPlace
  <1> HIDE DEF a, b
  <1>3. ASSUME NEW i \in 0..f.sx - 1
        PROVE  /\ PixelVisible(px + i, py) <=> 0 <= px + i /\ px + i < X_RES
                                               /\ 0 <= py /\ py < Y_RES
               /\ PixelVisible(px + i, py) => PixelLocation(px + i, py) = py * X_RES + (px + i)
    <2>1. px + i \in Int /\ X_RES - 65536 <= px + i /\ px + i < 65536
      BY <1>0
    <2>2. Converted(px + i) < X_RES <=> 0 <= px + i /\ px + i < X_RES
      BY <2>1, <1>0, ConvertedFits
    <2>3. Converted(py) < Y_RES <=> 0 <= py /\ py < Y_RES
      BY <1>0, ConvertedFits
    <2>4. 0 <= px + i => Converted(px + i) = px + i
      BY <2>1, ConvertedSame
    <2>5. 0 <= py => Converted(py) = py
      BY ConvertedSame
    <2> QED
      BY <2>2, <2>3, <2>4, <2>5 DEF PixelVisible, PixelLocation
  <1>4. ASSUME NEW i \in here
        PROVE  /\ i = b - px /\ py = a /\ i \in 0..f.sx - 1
               /\ Byte(f, r, i) # TRANSPARENT
    <2>1. i \in 0..f.sx - 1 /\ PixelVisible(px + i, py) /\ Byte(f, r, i) # TRANSPARENT
          /\ PixelLocation(px + i, py) = l
      OBVIOUS
    <2>2. 0 <= px + i /\ px + i < X_RES /\ l = py * X_RES + (px + i) /\ px + i \in Int
      BY <2>1, <1>0, <1>3
    <2>3. py = a /\ px + i = b
      BY <2>2, SamePlace DEF a, b
    <2>4. i = b - px
      BY <2>1, <2>3, <1>0
    <2> QED
      BY <2>1, <2>3, <2>4
  <1>5. CASE Covered(f, px, py, l) /\ Byte(f, r, b - px) # TRANSPARENT
    <2>1. a = py /\ b - px >= 0 /\ b - px < f.sx
      BY <1>5 DEF Covered, a, b
    <2>2. b - px \in 0..f.sx - 1 /\ px + (b - px) = b
      BY <2>1, <1>0, <1>2
    <2>3. PixelVisible(px + (b - px), py)
      <3>1. 0 <= px + (b - px) /\ px + (b - px) < X_RES /\ 0 <= py /\ py < Y_RES
        BY <2>1, <2>2, <1>2
      <3> QED
        BY <3>1, <2>2, <1>3
    <2>4. PixelLocation(px + (b - px), py) = l
      <3>1. PixelLocation(px + (b - px), py) = py * X_RES + (px + (b - px))
        BY <2>2, <2>3, <1>3
      <3> QED
        BY <3>1, <2>1, <2>2, <1>2
    <2>5. b - px \in here
      BY <2>2, <2>3, <2>4, <1>5
    <2>6. (CHOOSE i \in here : TRUE) \in here
      BY <2>5
    <2> HIDE DEF here
    <2>7. (CHOOSE i \in here : TRUE) = b - px
      BY <2>6, <1>4
    <2>8. buf'[l] = Byte(f, r, b - px)
      <3> DEFINE first == CHOOSE i \in here : TRUE
      <3>1. here # {}
        BY <2>5
      <3>2. buf'[l] = Byte(f, r, first)
        BY <3>1, <1>1
      <3>3. first = b - px
        BY <2>7
      <3> HIDE DEF first
      <3> QED
        BY <3>2, <3>3
    <2> QED
      BY <2>8, <1>5 DEF b
  <1>6. CASE ~(Covered(f, px, py, l) /\ Byte(f, r, b - px) # TRANSPARENT)
    <2>1. here = {}
      <3> SUFFICES ASSUME NEW i \in here PROVE FALSE
        OBVIOUS
      <3>1. i = b - px /\ py = a /\ i \in 0..f.sx - 1 /\ Byte(f, r, i) # TRANSPARENT
        BY <1>4
      <3>2. b - px >= 0 /\ b - px < f.sx
        BY <3>1, <1>0
      <3>3. Covered(f, px, py, l)
        BY <3>1, <3>2 DEF Covered, a, b
      <3> QED
        BY <3>1, <3>3, <1>6
    <2> QED
      BY <2>1, <1>1, <1>6 DEF b
  <1> QED
    BY <1>5, <1>6

\* Drawing row by row: the rows above are as they should be, the others as
\* they were before.
PictureInv ==
    /\ ~op.busy => buf = want
    /\ op.busy =>
          /\ op.x \in Xs /\ op.y \in Ys
          /\ \E old \in Picture :
                /\ want = Overlay(old, Frames[current_frame], op.x, op.y)
                /\ buf = [l \in Pixels |-> IF Row(l) - op.y < row THEN want[l] ELSE old[l]]

\* One pixel of the picture that should be there.
LEMMA OverlayAt ==
    ASSUME NEW pic, NEW f, NEW px, NEW py, NEW l \in Pixels
    PROVE  Overlay(pic, f, px, py)[l] =
              IF /\ Column(l) - px >= 0 /\ Column(l) - px < f.sx
                 /\ Row(l) - py >= 0 /\ Row(l) - py < f.sy
                 /\ transparent => Byte(f, Row(l) - py, Column(l) - px) # TRANSPARENT
              THEN Byte(f, Row(l) - py, Column(l) - px) ELSE pic[l]
  BY DEF Overlay, Column, Row

LEMMA RowDrawn ==
    ASSUME PositionsFit, TypeOK, PictureInv, DrawRow
    PROVE  PictureInv'
  <1> DEFINE f == Frames[current_frame]
             x == op.x
             y == op.y
  <1>1. /\ op.busy /\ row < f.sy /\ row' = row + 1
        /\ op' = op /\ want' = want /\ transparent' = transparent
        /\ current_frame' = current_frame
        /\ IF transparent THEN gpu_draw_pixels(f, row, x, y + row)
                          ELSE gpu_draw_line(f, row, x, y + row)
    BY DEF DrawRow, sprite
  <1>2. GoodFrame(f) /\ current_frame \in 0..framesc - 1 /\ transparent \in BOOLEAN
    BY FramesAreGood DEF TypeOK
  <1>3. f.sx \in Nat /\ f.sy \in Nat /\ row \in Nat /\ x \in Int /\ y \in Int
    BY <1>2, FrameTypes DEF TypeOK, Drawing
  <1>4. buf \in Picture /\ want \in Picture
    BY DEF TypeOK, Picture
  <1>5. x \in Xs /\ y \in Ys
    BY <1>1 DEF PictureInv
  <1>6. PICK old \in Picture :
                /\ want = Overlay(old, f, x, y)
                /\ buf = [l \in Pixels |-> IF Row(l) - y < row THEN want[l] ELSE old[l]]
    BY <1>1 DEF PictureInv
  <1>7. /\ X_RES - 65536 <= x /\ x + f.sx <= 65536
        /\ Y_RES - 65536 <= y /\ y + f.sy <= 65536
    BY <1>2, <1>5 DEF PositionsFit
  <1> HIDE DEF f, x, y
  <1>8. ASSUME NEW l \in Pixels
        PROVE  buf'[l] = IF Covered(f, x, y + row, l)
                            /\ (transparent => Byte(f, row, Column(l) - x) # TRANSPARENT)
                         THEN Byte(f, row, Column(l) - x) ELSE buf[l]
    <2>1. y + row \in Int
      BY <1>3
    <2>2. CASE transparent = TRUE
      <3>1. gpu_draw_pixels(f, row, x, y + row)
        BY <1>1, <2>2
      <3>2. Y_RES - 65536 <= y + row /\ y + row < 65536
        BY <1>1, <1>3, <1>7, ScreenType
      <3>3. buf'[l] = IF Covered(f, x, y + row, l) /\ Byte(f, row, Column(l) - x) # TRANSPARENT
                      THEN Byte(f, row, Column(l) - x) ELSE buf[l]
        BY <3>1, <3>2, <2>1, <1>2, <1>3, <1>7, PixelsEffect
      <3> QED
        BY <3>3, <2>2
    <2>3. CASE transparent = FALSE
      <3>1. gpu_draw_line(f, row, x, y + row)
        BY <1>1, <2>3
      <3>2. buf'[l] = IF Covered(f, x, y + row, l)
                      THEN Byte(f, row, Column(l) - x) ELSE buf[l]
        BY <3>1, <2>1, <1>2, <1>3, <1>4, LineEffect
      <3> QED
        BY <3>2, <2>3
    <2> QED
      BY <1>2, <2>2, <2>3
  <1>9. ASSUME NEW l \in Pixels
        PROVE  buf'[l] = IF Row(l) - y < row + 1 THEN want[l] ELSE old[l]
    <2>1. Row(l) \in Nat /\ Column(l) \in Nat
      BY PixelPlace
    <2>2. buf[l] = IF Row(l) - y < row THEN want[l] ELSE old[l]
      BY <1>6
    <2>3. CASE Row(l) - y = row
      <3>1. Row(l) = y + row /\ ~(Row(l) - y < row) /\ Row(l) - y < row + 1
            /\ Row(l) - y >= 0 /\ Row(l) - y < f.sy
        BY <2>1, <2>3, <1>1, <1>3
      <3>2. want[l] = IF /\ Column(l) - x >= 0 /\ Column(l) - x < f.sx
                         /\ Row(l) - y >= 0 /\ Row(l) - y < f.sy
                         /\ transparent => Byte(f, Row(l) - y, Column(l) - x) # TRANSPARENT
                      THEN Byte(f, Row(l) - y, Column(l) - x) ELSE old[l]
        BY <1>6, OverlayAt
      <3>3. want[l] = IF /\ Column(l) - x >= 0 /\ Column(l) - x < f.sx
                         /\ transparent => Byte(f, row, Column(l) - x) # TRANSPARENT
                      THEN Byte(f, row, Column(l) - x) ELSE old[l]
        BY <3>1, <3>2, <2>3
      <3>4. buf'[l] = want[l]
        BY <3>1, <3>3, <2>2, <1>8 DEF Covered
      <3> QED
        BY <3>1, <3>4
    <2>4. CASE Row(l) - y # row
      <3>1. Row(l) # y + row /\ (Row(l) - y < row <=> Row(l) - y < row + 1)
        BY <2>1, <2>4, <1>3
      <3>2. buf'[l] = buf[l]
        BY <3>1, <1>8 DEF Covered
      <3> QED
        BY <3>1, <3>2, <2>2
    <2> QED
      BY <2>3, <2>4
  <1>10. buf' = [l \in Pixels |-> buf'[l]]
    BY <1>1, <1>2, <1>4 DEF gpu_draw_pixels, gpu_draw_line, Picture
  <1>11. buf' = [l \in Pixels |-> IF Row(l) - y < row' THEN want[l] ELSE old[l]]
    BY <1>1, <1>9, <1>10
  <1>12. Overlay(old, f, x, y)' = Overlay(old, f, x, y)
    BY <1>1 DEF Overlay, f, x, y
  <1>13. want' = Overlay(old, Frames[current_frame], op.x, op.y)'
    BY <1>1, <1>6, <1>12 DEF f, x, y
  <1> QED
    BY <1>1, <1>5, <1>11, <1>13 DEF PictureInv, x, y

LEMMA DrawBegun ==
    ASSUME TypeOK, PictureInv, NEW px \in Xs, NEW py \in Ys, Sprite_draw(px, py)
    PROVE  PictureInv'
  <1> DEFINE f == Frames[current_frame]
  <1>1. /\ ~op.busy /\ op' = [busy |-> TRUE, x |-> px, y |-> py] /\ row' = 0
        /\ want' = Overlay(want, f, px, py) /\ buf' = buf
        /\ transparent' = transparent /\ current_frame' = current_frame
    BY DEF Sprite_draw, sprite
  <1>2. buf = want /\ want \in Picture
    BY <1>1 DEF PictureInv, TypeOK, Picture
  <1>3. op'.busy = TRUE /\ op'.x = px /\ op'.y = py /\ px \in Int /\ py \in Int
    BY <1>1, InputAssumption
  <1>4. ASSUME NEW l \in Pixels
        PROVE  buf'[l] = IF Row(l) - py < 0 THEN want'[l] ELSE want[l]
    <2>1. Row(l) \in Nat
      BY PixelPlace
    <2>2. Row(l) - py < 0 => want'[l] = want[l]
      <3> SUFFICES ASSUME Row(l) - py < 0 PROVE want'[l] = want[l]
        OBVIOUS
      <3>1. ~(Row(l) - py >= 0)
        BY <2>1, <1>3
      <3> QED
        BY <3>1, <1>1, OverlayAt
    <2> QED
      BY <2>2, <1>1, <1>2
  <1>5. buf' = [l \in Pixels |-> IF Row(l) - op'.y < row' THEN want'[l] ELSE want[l]]
    BY <1>1, <1>2, <1>3, <1>4 DEF Picture
  <1>6. want' = Overlay(want, Frames[current_frame'], op'.x, op'.y)
    BY <1>1, <1>3
  <1>7. PICK old \in Picture : old = want
    BY <1>2
  <1>8. Overlay(old, Frames[current_frame], op.x, op.y)'
           = Overlay(want, Frames[current_frame'], op'.x, op'.y)
    BY <1>1, <1>7 DEF Overlay
  <1> QED
    BY <1>1, <1>3, <1>5, <1>6, <1>7, <1>8 DEF PictureInv

LEMMA DrawEnded ==
    ASSUME TypeOK, PictureInv, Advance
    PROVE  PictureInv'
  <1> DEFINE f == Frames[current_frame]
  <1>1. op.busy /\ row = f.sy /\ op' = Idle /\ buf' = buf /\ want' = want
    BY DEF Advance
  <1>2. PICK old \in Picture :
                /\ want = Overlay(old, f, op.x, op.y)
                /\ buf = [l \in Pixels |-> IF Row(l) - op.y < row THEN want[l] ELSE old[l]]
    BY <1>1 DEF PictureInv
  <1>3. ASSUME NEW l \in Pixels
        PROVE  buf[l] = want[l]
    <2>1. CASE Row(l) - op.y < row
      BY <2>1, <1>2
    <2>2. CASE ~(Row(l) - op.y < row)
      <3>1. buf[l] = old[l]
        BY <2>2, <1>2
      <3>2. ~(Row(l) - op.y < f.sy)
        BY <2>2, <1>1
      <3>3. want[l] = old[l]
        BY <3>2, <1>2, OverlayAt
      <3> QED
        BY <3>1, <3>3
    <2> QED
      BY <2>1, <2>2
  <1>4. buf = want
    BY <1>3 DEF TypeOK
  <1>5. op'.busy = FALSE
    BY <1>1 DEF Idle
  <1> QED
    BY <1>1, <1>4, <1>5 DEF PictureInv

\* On every screen, for every sheet and at every position that 16 bits can
\* tell from one on the screen, a finished call of Sprite_draw leaves exactly
\* the visible part of the frame in the back buffer, over what was there.
THEOREM PicturesAreRight ==
    ASSUME PositionsFit
    PROVE  Spec => []PictureIsRight
  <1>1. Init => PictureInv
    BY DEF Init, PictureInv, Idle
  <1>2. TypeOK /\ PictureInv /\ [Next]_vars => PictureInv'
    <2> SUFFICES ASSUME TypeOK, PictureInv, [Next]_vars PROVE PictureInv'
      OBVIOUS
    <2>1. ASSUME NEW px \in Xs, NEW py \in Ys, Sprite_draw(px, py)
          PROVE  PictureInv'
      BY <2>1, DrawBegun
    <2>2. CASE DrawRow
      BY <2>2, RowDrawn
    <2>3. CASE Advance
      BY <2>3, DrawEnded
    <2>4. CASE Exchange
      BY <2>4 DEF Exchange, PictureInv
    <2>5. CASE UNCHANGED vars
      BY <2>5 DEF vars, sprite, PictureInv, Overlay
    <2> QED
      BY <2>1, <2>2, <2>3, <2>4, <2>5 DEF Next
  <1>3. PictureInv => PictureIsRight
    BY DEF PictureInv, PictureIsRight
  <1> QED
    BY <1>1, <1>2, <1>3, DrawingTypeCorrect, PTL DEF Spec
=============================================================================
