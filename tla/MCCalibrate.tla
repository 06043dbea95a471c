----------------------------- MODULE MCCalibrate -----------------------------
(* Instances of Calibrate for TLC. *)
EXTENDS Calibrate

\* Bursts without errors, with a few, with 3% (requests end between the reads)
\* and with nothing else, of which some are not yet in RequestSum; one below a
\* request a second, and one whose only worker fails.
MCBursts ==
  { [sum |-> 3000, amount |-> 20, errors |-> 0, divisor |-> 3002],
    [sum |-> 3000, amount |-> 20, errors |-> 30, divisor |-> 3000],
    [sum |-> 100, amount |-> 11, errors |-> 3, divisor |-> 101],
    [sum |-> 100, amount |-> 3, errors |-> 104, divisor |-> 101],
    [sum |-> 5, amount |-> 1, errors |-> 0, divisor |-> 5],
    [sum |-> 5, amount |-> 1, errors |-> 6, divisor |-> 5] }
===============================================================================
