---------------------------- MODULE MCLeaderboard ----------------------------
(* A small instance of Leaderboard: five entries, equal times included. *)
EXTENDS Leaderboard
=============================================================================
