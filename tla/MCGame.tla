------------------------------- MODULE MCGame -------------------------------
(***************************************************************************)
(* Small instances of Game on the real screen and menus.  The movements    *)
(* are chosen so that every button, and the space between the buttons, is  *)
(* hit: 10 x 10 positions when the pointer moves freely, 6 x 6 when it     *)
(* only moves right and down.                                              *)
(***************************************************************************)
EXTENDS Game

Move(d) == [neg |-> d < 0, byte |-> d % 256]

AnyX == {Move(d) : d \in {-255, 0, 255}}
AnyY == {Move(d) : d \in {-165, 0, 165}}
RightX == {Move(d) : d \in {0, 250}}
DownY == {Move(d) : d \in {-165, 0}}
=============================================================================
