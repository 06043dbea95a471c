----------------------------- MODULE LoaderProofs -----------------------------
(***************************************************************************)
(* Proofs about Loader: how main and the goroutine of a stage take turns,  *)
(* for any URLs, numbers of workers and jobs and capacities, and that      *)
(* every run keeps to the plan of a test.                                  *)
(***************************************************************************)
EXTENDS Loader, TLAPS

\* main is inside the load() of one of the last two stages,
Loading == main \in {"select", "send"}

\* or has not come to start a stage.
Preparing == main \in {"new", "drain", "start"}

\* The numbers behind the bounds of TypeOK.
Bounded ==
  /\ cfg.c <= MaxWorkers
  /\ filler = "fill" => due >= 1

\* The goroutine of a stage is at work from Start, inside the load() of its
\* stage, until it cancels the context.
TurnsTaken ==
  /\ Timing => Loading
  /\ Loading => stage # "burst" /\ client = stage /\ running = stage
  /\ Loading /\ context = "live" => Timing
  /\ Timing => context = "live"

\* What main has started so far, and whose results it goes on with.
Begun ==
  /\ main \in {"burst", "flood"} => stage = "burst" /\ running = "burst"
  /\ Preparing /\ stage = "burst" => running = "none"
  /\ Preparing /\ stage = "adjust" => running = "burst"
  /\ Preparing /\ stage = "load" => running \in {"none", "adjust"}
  /\ Preparing => cfg.by = IF running = "none" THEN "flags" ELSE running
  /\ main = "drain" => stage # "burst"
  /\ main \in {"drain", "start"} => client = stage
  /\ main = "create" => stage = "load" /\ running = "load"

\* The URL is good once the first client has been made.
Reachable == acquireAddr(url) = "fatal" => main = "new" /\ running = "none"

\* The adjustment has put its result into cfg before it cancels.
Measures ==
  Loading /\ stage = "adjust" /\ (context = "cancelled" \/ timer = "cancel")
    => cfg.by = "adjust"

\* The limiter is stopped by the load stage, between its timeout and its end.
Stopping ==
  /\ timer \in {"stop", "join", "sweep"} => stage = "load"
  /\ timer = "sweep" => filler = "exited"
  /\ filler = "exited" => stage = "load" /\ ~Preparing
                          /\ (Timing => timer \in {"sweep", "cancel"})
  /\ Loading /\ stage = "load" /\ (context = "cancelled" \/ timer = "cancel")
       => filler = "exited" /\ ch = 0
  /\ main = "create" => filler = "exited" /\ ch = 0

\* The burst's timer rings when a request has been counted, or while the
\* sender is blocked behind busy workers.
Late ==
  main \in {"burst", "flood"} /\ alarm = "rung" /\ counted = "no" =>
    main = "flood" /\ ~Room /\ busy[stage] = crew[stage]

IInv ==
  /\ TypeOK /\ Bounded
  /\ TurnsTaken /\ Begun /\ Reachable /\ Measures /\ Stopping /\ Late
  /\ BurstMeasures
-----------------------------------------------------------------------------
(* The initial states are in the invariant. *)
LEMMA InitIInv == Init => IInv
BY LoaderAssumption DEF Init, IInv, TypeOK, Bounded, TurnsTaken, Begun, Reachable, Measures, Stopping, Late,
  BurstMeasures, Stages, Timing, Loading, Preparing

(* The values keep to their types, whatever order the steps come in. *)
LEMMA TypeStep == IInv /\ [Next]_vars => TypeOK' /\ Bounded'
<1> SUFFICES ASSUME IInv, [Next]_vars PROVE TypeOK' /\ Bounded'
  OBVIOUS
<1> USE LoaderAssumption DEF IInv, TypeOK, Bounded, Stages, Alive, TurnsTaken, Loading, Timing,
  flags, timing, pools, limiter, result, history
<1>1. CASE Refuse
  BY <1>1 DEF Refuse
<1>2. CASE New
  BY <1>2 DEF New
<1>3. CASE MainSetLimit
  BY <1>3 DEF MainSetLimit, Drain, Drained
<1>4. CASE Start
  BY <1>4 DEF Start, RunWorkers
<1>5. CASE Default
  BY <1>5 DEF Default
<1>6. CASE Send
  BY <1>6 DEF Send, Room
<1>7. CASE BurstEnd
  <2>1. crew[stage] \in 0..MaxWorkers /\ stage = "burst"
    BY <1>7 DEF BurstEnd, Begun
  <2>2. cfg' \in [c : Int, by : {"flags", "burst", "adjust"}] /\ cfg'.c <= MaxWorkers
    BY <1>7, <2>1 DEF BurstEnd, Measured, Amounts
  <2> QED
    BY <1>7, <2>2 DEF BurstEnd
<1>8. CASE Receive
  BY <1>8 DEF Receive
<1>9. CASE Return
  BY <1>9 DEF Return
<1>10. CASE Create
  BY <1>10 DEF Create
<1>11. CASE Tick
  BY <1>11 DEF Tick
<1>12. CASE printState
  BY <1>12 DEF printState, Proceed, Following
<1>13. CASE calibrate
  BY <1>13 DEF calibrate, Proceed, Following
<1>14. CASE TimerSetLimit
  BY <1>14 DEF TimerSetLimit, Drain, Drained
<1>15. CASE Timeout
  BY <1>15 DEF Timeout, Proceed, Following
<1>16. CASE Summary
  BY <1>16 DEF Summary, Proceed, Following, Measured, Amounts
<1>17. CASE Stop
  BY <1>17 DEF Stop
<1>18. CASE Join
  BY <1>18 DEF Join
<1>19. CASE Sweep
  BY <1>19 DEF Sweep, Drain, Proceed, Following
<1>20. CASE Cancel
  BY <1>20 DEF Cancel, Proceed, Following
<1>21. CASE Ring
  BY <1>21 DEF Ring
<1>22. CASE Generate
  BY <1>22 DEF Generate
<1>23. CASE Fill
  BY <1>23 DEF Fill
<1>24. ASSUME NEW s \in Stages, Take(s) PROVE TypeOK' /\ Bounded'
  BY <1>24 DEF Take
<1>25. ASSUME NEW s \in Stages, Done(s) PROVE TypeOK' /\ Bounded'
  BY <1>25 DEF Done, Counts
<1>26. CASE UNCHANGED vars
  BY <1>26 DEF vars
<1> QED
  BY <1>1, <1>2, <1>3, <1>4, <1>5, <1>6, <1>7, <1>8, <1>9, <1>10, <1>11, <1>12, <1>13, <1>14, <1>15, <1>16, <1>17, <1>18, <1>19, <1>20, <1>21, <1>22, <1>23, <1>24, <1>25, <1>26 DEF Next, MainSteps, TimerSteps, Worker, Over

(* main and the goroutine of a stage hand over to each other. *)
LEMMA TurnsStep == IInv /\ [Next]_vars => TurnsTaken' /\ Begun' /\ Measures' /\ Reachable' /\ Stopping'
<1> SUFFICES ASSUME IInv, [Next]_vars PROVE TurnsTaken' /\ Begun' /\ Measures' /\ Reachable' /\ Stopping'
  OBVIOUS
<1> USE LoaderAssumption DEF IInv, TurnsTaken, Begun, Reachable, Measures, Stopping, Loading, Preparing, Timing, Alive, Stages, TypeOK,
  flags, timing, pools, limiter, result, history
<1>1. CASE Refuse
  BY <1>1 DEF Refuse
<1>2. CASE New
  BY <1>2 DEF New
<1>3. CASE MainSetLimit
  BY <1>3 DEF MainSetLimit, Drain, Drained
<1>4. CASE Start
  BY <1>4 DEF Start, RunWorkers
<1>5. CASE Default
  BY <1>5 DEF Default
<1>6. CASE Send
  BY <1>6 DEF Send, Room
<1>7. CASE BurstEnd
  BY <1>7 DEF BurstEnd, Measured, Amounts
<1>8. CASE Receive
  BY <1>8 DEF Receive
<1>9. CASE Return
  BY <1>9 DEF Return
<1>10. CASE Create
  BY <1>10 DEF Create
<1>11. CASE Tick
  BY <1>11 DEF Tick
<1>12. CASE printState
  BY <1>12 DEF printState, Proceed, Following
<1>13. CASE calibrate
  BY <1>13 DEF calibrate, Proceed, Following
<1>14. CASE TimerSetLimit
  BY <1>14 DEF TimerSetLimit, Drain, Drained
<1>15. CASE Timeout
  BY <1>15 DEF Timeout, Proceed, Following
<1>16. CASE Summary
  BY <1>16 DEF Summary, Proceed, Following, Measured, Amounts
<1>17. CASE Stop
  BY <1>17 DEF Stop
<1>18. CASE Join
  BY <1>18 DEF Join
<1>19. CASE Sweep
  BY <1>19 DEF Sweep, Drain, Proceed, Following
<1>20. CASE Cancel
  BY <1>20 DEF Cancel, Proceed, Following
<1>21. CASE Ring
  BY <1>21 DEF Ring
<1>22. CASE Generate
  BY <1>22 DEF Generate
<1>23. CASE Fill
  BY <1>23 DEF Fill
<1>24. ASSUME NEW s \in Stages, Take(s) PROVE TurnsTaken' /\ Begun' /\ Measures' /\ Reachable' /\ Stopping'
  BY <1>24 DEF Take
<1>25. ASSUME NEW s \in Stages, Done(s) PROVE TurnsTaken' /\ Begun' /\ Measures' /\ Reachable' /\ Stopping'
  BY <1>25 DEF Done, Counts
<1>26. CASE UNCHANGED vars
  BY <1>26 DEF vars
<1> QED
  BY <1>1, <1>2, <1>3, <1>4, <1>5, <1>6, <1>7, <1>8, <1>9, <1>10, <1>11, <1>12, <1>13, <1>14, <1>15, <1>16, <1>17, <1>18, <1>19, <1>20, <1>21, <1>22, <1>23, <1>24, <1>25, <1>26 DEF Next, MainSteps, TimerSteps, Worker, Over

(* The burst does not come to its end before a request has been counted. *)
LEMMA LateStep == IInv /\ [Next]_vars => Late' /\ BurstMeasures'
<1> SUFFICES ASSUME IInv, [Next]_vars PROVE Late' /\ BurstMeasures'
  OBVIOUS
<1> USE LoaderAssumption DEF IInv, Late, BurstMeasures, TypeOK, Bounded, Stages, TurnsTaken, Begun, Preparing, Loading,
  Timing, Room, Alive, flags, timing, pools, limiter, result, history
<1>1. CASE Refuse
  BY <1>1 DEF Refuse
<1>2. CASE New
  BY <1>2 DEF New
<1>3. CASE MainSetLimit
  BY <1>3 DEF MainSetLimit, Drain, Drained
<1>4. CASE Start
  BY <1>4 DEF Start, RunWorkers
<1>5. CASE Default
  BY <1>5 DEF Default
<1>6. CASE Send
  BY <1>6 DEF Send, Room
<1>7. CASE BurstEnd
  BY <1>7 DEF BurstEnd, Measured, Amounts
<1>8. CASE Receive
  BY <1>8 DEF Receive
<1>9. CASE Return
  BY <1>9 DEF Return
<1>10. CASE Create
  BY <1>10 DEF Create
<1>11. CASE Tick
  BY <1>11 DEF Tick
<1>12. CASE printState
  BY <1>12 DEF printState, Proceed, Following
<1>13. CASE calibrate
  BY <1>13 DEF calibrate, Proceed, Following
<1>14. CASE TimerSetLimit
  BY <1>14 DEF TimerSetLimit, Drain, Drained
<1>15. CASE Timeout
  BY <1>15 DEF Timeout, Proceed, Following
<1>16. CASE Summary
  BY <1>16 DEF Summary, Proceed, Following, Measured, Amounts
<1>17. CASE Stop
  BY <1>17 DEF Stop
<1>18. CASE Join
  BY <1>18 DEF Join
<1>19. CASE Sweep
  BY <1>19 DEF Sweep, Drain, Proceed, Following
<1>20. CASE Cancel
  BY <1>20 DEF Cancel, Proceed, Following
<1>21. CASE Ring
  BY <1>21 DEF Ring
<1>22. CASE Generate
  BY <1>22 DEF Generate
<1>23. CASE Fill
  BY <1>23 DEF Fill
<1>24. ASSUME NEW s \in Stages, Take(s) PROVE Late' /\ BurstMeasures'
  BY <1>24 DEF Take
<1>25. ASSUME NEW s \in Stages, Done(s) PROVE Late' /\ BurstMeasures'
  BY <1>25 DEF Done, Counts
<1>26. CASE UNCHANGED vars
  BY <1>26 DEF vars
<1> QED
  BY <1>1, <1>2, <1>3, <1>4, <1>5, <1>6, <1>7, <1>8, <1>9, <1>10, <1>11, <1>12, <1>13, <1>14, <1>15, <1>16, <1>17, <1>18, <1>19, <1>20, <1>21, <1>22, <1>23, <1>24, <1>25, <1>26 DEF Next, MainSteps, TimerSteps, Worker, Over

(* Every step of the program is one of the plan, or changes nothing of it: *)
(* Start begins a stage, printState takes a sample, Refuse and Create end. *)
LEMMA PlanStep == IInv /\ [Next]_vars => [Plan!PlanNext]_(Plan!planVars)
<1> SUFFICES ASSUME IInv, [Next]_vars PROVE [Plan!PlanNext]_(Plan!planVars)
  OBVIOUS
<1> USE DEF IInv, Plan!planVars, result, history, Alive, TypeOK, Stages
<1>1. CASE Alive /\ Refuse
  BY <1>1 DEF Refuse, Reachable, Plan!PlanNext, Plan!End
<1>2. CASE Alive /\ Start
  BY <1>2 DEF Start, Begun, Preparing, Plan!PlanNext, Plan!Begin, Plan!First, Plan!Second
<1>3. CASE Alive /\ printState
  BY <1>3 DEF printState, TurnsTaken, Timing, Loading, Plan!PlanNext, Plan!TakeSample
<1>4. CASE BurstEnd
  BY <1>4 DEF BurstEnd, Late
<1>5. CASE Alive /\ Create
  BY <1>5 DEF Create, Begun, Plan!PlanNext, Plan!End
<1>6. CASE New \/ MainSetLimit \/ Default \/ Send \/ Receive \/ Return
  BY <1>6 DEF New, MainSetLimit, Default, Send, Receive, Return
<1>7. CASE Tick \/ calibrate \/ TimerSetLimit \/ Timeout \/ Summary
  BY <1>7 DEF Tick, calibrate, TimerSetLimit, Timeout, Summary
<1>8. CASE Stop \/ Join \/ Sweep \/ Cancel
  BY <1>8 DEF Stop, Join, Sweep, Cancel
<1>9. CASE Ring \/ Generate \/ Fill
  BY <1>9 DEF Ring, Generate, Fill
<1>10. ASSUME NEW s \in Stages, Take(s) \/ Done(s) PROVE UNCHANGED Plan!planVars
  BY <1>10 DEF Take, Done
<1>11. CASE UNCHANGED vars
  BY <1>11 DEF vars
<1> QED
  BY <1>1, <1>2, <1>3, <1>4, <1>5, <1>6, <1>7, <1>8, <1>9, <1>10, <1>11
  DEF Next, MainSteps, TimerSteps, Worker, Over
-----------------------------------------------------------------------------
(* The parts above hold in every state of every run. *)
THEOREM Invariant == Spec => []IInv
<1>1. IInv /\ [Next]_vars => IInv'
  BY TypeStep, TurnsStep, LateStep DEF IInv
<1> QED
  BY InitIInv, <1>1, PTL DEF Spec

(* The type invariant, for any URLs, workers and capacities. *)
THEOREM TypeCorrect == Spec => []TypeOK
<1>1. IInv => TypeOK
  BY DEF IInv
<1> QED
  BY Invariant, <1>1, PTL

(* While the goroutine of a stage samples and calibrates, main is in the   *)
(* load() of that stage: one reader of the client and of its metrics.      *)
THEOREM OneReaderAtATime == Spec => []OneReader
<1>1. IInv => OneReader
  BY DEF IInv, TurnsTaken, Loading, OneReader
<1> QED
  BY Invariant, <1>1, PTL

(* No two calls of the limiter overlap and none comes after its Stop. *)
THEOREM LimiterUsedInTurn == Spec => []LimiterSerial
<1>1. IInv => LimiterSerial
  BY DEF IInv, TurnsTaken, Stopping, Timing, Loading, Preparing, LimiterSerial, MainCalls, TimerCalls
<1> QED
  BY Invariant, <1>1, PTL

(* The report is made of a test at rest. *)
THEOREM ReportAtRest == Spec => []QuietEnd
<1>1. IInv => QuietEnd
  BY DEF IInv, TurnsTaken, Stopping, Loading, QuietEnd
<1> QED
  BY Invariant, <1>1, PTL

(* The burst divides by a number of requests that is not zero. *)
THEOREM BurstIsMeasured == Spec => []BurstMeasures
<1>1. IInv => BurstMeasures
  BY DEF IInv
<1> QED
  BY Invariant, <1>1, PTL

(* Every run of the program is a run of the plan of TestPlan. *)
THEOREM LoaderImplementsPlan == Spec => ImplementsPlan
<1>1. Init => Plan!PlanInit
  BY DEF Init, Plan!PlanInit
<1> QED
  BY <1>1, Invariant, PlanStep, PTL DEF Spec, ImplementsPlan, Plan!PlanSpec
===============================================================================
