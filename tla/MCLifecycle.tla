----------------------------- MODULE MCLifecycle -----------------------------
(* A small instance of Lifecycle: three attempts, and few events of each kind. *)
EXTENDS Lifecycle
=============================================================================
