----------------------------- MODULE PacketFeed -----------------------------
(***************************************************************************)
(* What the mouse driver and its manager promise: every packet of the      *)
(* mouse moves the pointer, in the order they were sent and before the     *)
(* next one is complete, and at most one of them is applied twice.         *)
(*                                                                         *)
(* Packets are numbered modulo a number of at least three.  At most one is *)
(* on its way, so a packet that is skipped, swapped with another or        *)
(* applied before it was sent has a number no action accepts: a skipped    *)
(* packet blocks the next Send.                                            *)
(***************************************************************************)
EXTENDS Integers

CONSTANT Packets    \* packets are numbered modulo this

VARIABLES next,     \* the packet the mouse sends next
          last,     \* the packet applied last
          repeats   \* how often a packet was applied again

Following(p) == IF p = Packets - 1 THEN 0 ELSE p + 1

Init == next = 0 /\ last = Packets - 1 /\ repeats = 0

\* The mouse completes a packet; the one before it has been applied.
Send ==
    /\ next = Following(last)
    /\ next' = Following(next)
    /\ UNCHANGED <<last, repeats>>

\* The packet on its way moves the pointer.
Deliver ==
    /\ next # Following(last)
    /\ last' = Following(last)
    /\ UNCHANGED <<next, repeats>>

\* A wake-up without a byte applies the last packet once more.
Redeliver ==
    /\ repeats = 0 /\ repeats' = 1
    /\ UNCHANGED <<next, last>>

Next == Send \/ Deliver \/ Redeliver

Spec == Init /\ [][Next]_<<next, last, repeats>>
=============================================================================
