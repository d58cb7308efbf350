-------------------------------- MODULE MCRtc --------------------------------
(***************************************************************************)
(* Instants at which several registers change at once: the end of a       *)
(* century, of a year, of a February with 29 days and of one with 28, of a *)
(* day and of an hour.                                                     *)
(***************************************************************************)
EXTENDS Rtc

MCStarts == { <<58, 59, 23, 7, 31, 12, 24>>, <<59, 59, 23, 4, 28, 2, 24>>,
              <<59, 59, 23, 6, 28, 2, 25>>, <<59, 59, 23, 1, 30, 4, 25>>,
              <<59, 59, 9, 3, 9, 9, 9>>, <<59, 9, 19, 3, 19, 10, 99>>,
              <<58, 59, 23, 5, 31, 12, 99>> }
MCGarbage == [i \in Registers |-> 255]
=============================================================================
