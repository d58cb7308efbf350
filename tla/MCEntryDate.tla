----------------------------- MODULE MCEntryDate -----------------------------
(* Leap years and others, the first and the last year of the century. *)
EXTENDS EntryDate
=============================================================================
