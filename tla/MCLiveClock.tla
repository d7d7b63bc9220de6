---------------------------- MODULE MCLiveClock -----------------------------
(* A small instance of LiveClock. *)
EXTENDS LiveClock
=============================================================================
