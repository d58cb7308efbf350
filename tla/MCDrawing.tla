------------------------------ MODULE MCDrawing ------------------------------
(***************************************************************************)
(* A screen of 3 x 2 pixels and a sheet with two frames of 2 x 2 and 1 x 1 *)
(* pixels, drawn everywhere around and across its borders.                 *)
(***************************************************************************)
EXTENDS Drawing

SmallSheet == [width |-> 3, height |-> 2, bytes |-> [i \in 0..5 |-> IF i = 1 THEN 99 ELSE i + 1]]
TwoFrames == [i \in 0..1 |-> IF i = 0 THEN [ox |-> 1, oy |-> 0, sx |-> 2, sy |-> 2]
                                     ELSE [ox |-> 0, oy |-> 1, sx |-> 1, sy |-> 1]]
AroundX == -3..4
AroundY == -3..3
=============================================================================
