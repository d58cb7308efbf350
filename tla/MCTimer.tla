------------------------------- MODULE MCTimer -------------------------------
(* The lowest and the highest frequencies, those next to them, and the ones *)
(* the labs use, in every mode.                                             *)
EXTENDS Timer

MCFrequencies == {0, 1, 18, 19, 20, 60, 256, 1000, 4660, 4661, TIMER_FREQ - 1, TIMER_FREQ, TIMER_FREQ + 1}
MCModes == 0..15
=============================================================================
