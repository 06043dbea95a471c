------------------------------ MODULE RateBudget ------------------------------
(***************************************************************************)
(* What a rate limiter promises, whatever it does inside: permits are      *)
(* issued against a budget of MaxRate permits per Second of elapsed time,  *)
(* at most Cap of them wait to be taken, and once the limiter is closed no *)
(* permit is issued any more.  Limiter.tla is shown to implement this.     *)
(***************************************************************************)
EXTENDS Integers

CONSTANTS MaxRate, Second, Cap

VARIABLES
  time,     \* clock units since the limiter was created
  issued,   \* permits issued so far
  waiting,  \* permits issued and neither taken nor discarded
  open      \* FALSE once the limiter is closed

budgetVars == <<time, issued, waiting, open>>

BudgetInit ==
  /\ time = 0
  /\ issued = 0
  /\ waiting = 0
  /\ open = TRUE

Elapse ==
  /\ time' = time + 1
  /\ UNCHANGED <<issued, waiting, open>>

Issue ==
  /\ open
  /\ waiting < Cap
  /\ (issued + 1) * Second <= MaxRate * time
  /\ issued' = issued + 1
  /\ waiting' = waiting + 1
  /\ UNCHANGED <<time, open>>

\* A permit leaves the buffer: taken by a client, or discarded by a reset.
Take ==
  /\ waiting > 0
  /\ waiting' = waiting - 1
  /\ UNCHANGED <<time, issued, open>>

Close ==
  /\ open
  /\ open' = FALSE
  /\ UNCHANGED <<time, issued, waiting>>

BudgetNext == Elapse \/ Issue \/ Take \/ Close

BudgetSpec == BudgetInit /\ [][BudgetNext]_budgetVars
===============================================================================
