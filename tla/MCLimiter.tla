------------------------------ MODULE MCLimiter ------------------------------
(* Instances of Limiter for TLC. *)
EXTENDS Limiter

\* time.Time's zero lies before the clock's start by more than MaxTime units.
MCZeroTime == -10
===============================================================================
