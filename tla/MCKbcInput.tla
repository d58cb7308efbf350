----------------------------- MODULE MCKbcInput -----------------------------
(* Small instances of KbcInput. *)
EXTENDS KbcInput
=============================================================================
