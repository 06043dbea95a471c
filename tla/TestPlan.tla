------------------------------ MODULE TestPlan ------------------------------
(***************************************************************************)
(* What a load test promises, whatever its goroutines do: its stages run   *)
(* one after another, each with what the stage before it has measured,     *)
(* samples are taken of the stage that runs, and it ends with one report   *)
(* to which nothing is added, or without one.  Loader.tla is shown to      *)
(* implement this.                                                         *)
(***************************************************************************)

VARIABLES
  running,  \* the stage that runs; "none" before the first one
  basis,    \* what it runs with: the flags, or an earlier stage's results
  page,     \* the stages of which samples have been taken
  outcome   \* "none" while the test goes on

planVars == <<running, basis, page, outcome>>

PlanInit ==
  /\ running = "none" /\ basis = "flags"
  /\ page = {} /\ outcome = "none"

\* -q leaves out the stages that find out the limit.
First == running = "none" /\ running' \in {"burst", "load"} /\ basis' = "flags"

Second ==
  \/ running = "burst" /\ running' = "adjust" /\ basis' = "burst"
  \/ running = "adjust" /\ running' = "load" /\ basis' = "adjust"

Begin == outcome = "none" /\ (First \/ Second) /\ UNCHANGED <<page, outcome>>

TakeSample ==
  /\ outcome = "none" /\ running \in {"adjust", "load"}
  /\ page' = page \union {running}
  /\ UNCHANGED <<running, basis, outcome>>

\* A test ends after its last stage, or before its first one.
End ==
  /\ outcome = "none"
  /\ \/ running = "load" /\ outcome' \in {"written", "lost"}
     \/ running = "none" /\ outcome' = "refused"
  /\ UNCHANGED <<running, basis, page>>

PlanNext == Begin \/ TakeSample \/ End

PlanSpec == PlanInit /\ [][PlanNext]_planVars
===============================================================================
