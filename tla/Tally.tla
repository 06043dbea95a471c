--------------------------------- MODULE Tally ---------------------------------
(***************************************************************************)
(* The sum of the numbers that a function takes: of a counter over the     *)
(* generations of the metrics, of the jobs over the channels, or of the    *)
(* bars of a chart.  It is a number of units, f[x] for each x, and so a    *)
(* cardinality, about which more can be proved than about a fold.          *)
(***************************************************************************)
EXTENDS Integers, FiniteSets

Units(f) == UNION {{x} \X (1..f[x]) : x \in DOMAIN f}

Tally(f) == Cardinality(Units(f))
===============================================================================
