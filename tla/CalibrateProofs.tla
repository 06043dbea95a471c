--------------------------- MODULE CalibrateProofs ---------------------------
(***************************************************************************)
(* Proofs about Calibrate: how calibrate() answers errors and what the     *)
(* load phase begins with, for any bursts, any number of ticks and errors, *)
(* and any interleaving of the reads of isFlawed with the workers that     *)
(* count errors.                                                           *)
(***************************************************************************)
EXTENDS Calibrate, TLAPS

\* A turn that acts has been counted, and so has every tick of a pause.
Turned ==
  /\ shrinks + (IF step = "select" THEN 0 ELSE 1) <= turns
  /\ pause.passed <= turns

\* A turn past isFlawed has seen every error it began with.
ErrorsSeen ==
  /\ before <= errors /\ answered = noted
  /\ step \in {"sound", "workers"} => before <= noted
  /\ step = "changed" => errors > 0
  /\ step = "flawed" => noted < errors

\* await holds the ticks that are still to pass.
Waiting ==
  /\ pause.due <= pause.passed + await + (IF step = "select" THEN 1 ELSE 0)
  /\ step # "select" => await = 0

\* The sampling goroutine is inside calibrate() in the adjustment only.
Adjusting == phase # "adjust" => step = "select"

\* From the end of the burst on the limit is what the burst has given or more.
Reached ==
  phase # "burst" => limit >= Throughput(burst).qps /\ limit >= Unit

IInv ==
  TypeOK /\ Turned /\ ErrorsAnsweredOnce /\ ErrorsSeen /\ Waiting /\ Adjusting /\ Reached

USE DEF client, control, history, Act, isFlawed, calibrate
-----------------------------------------------------------------------------
(* What the end of the burst gives is a number of requests a second and of *)
(* workers, also when it is halved.                                        *)
LEMMA ThroughputType ==
  ASSUME NEW b \in Bursts
  PROVE  Throughput(b) \in [qps : Nat, c : Nat]
<1>1. b.sum * Unit \in Nat /\ b.amount \in Nat
  BY CalibrateAssumption
<1>2. (b.sum * Unit) \div 10 \in Nat
  BY <1>1
<1>3. ((b.sum * Unit) \div 10) \div 2 \in Nat /\ b.amount \div 2 \in Nat
  BY <1>1, <1>2
<1> QED
  BY <1>1, <1>2, <1>3 DEF Throughput

\* What a limit is multiplied by never makes it smaller.
LEMMA GrownBound ==
  ASSUME TypeOK, NEW x \in Nat
  PROVE  Multiplied(x) \in Nat /\ Grown(x) \in Nat /\ Grown(x) >= x
<1>1. x * multiplier.num \in Nat /\ multiplier.den \in Nat \ {0}
  BY DEF TypeOK
<1>2. (x * multiplier.num) \div multiplier.den \in Nat
  BY <1>1
<1> QED
  BY <1>2 DEF Multiplied, Grown

\* The initial states are in the invariant.
LEMMA InitIInv == Init => IInv
<1> SUFFICES ASSUME Init PROVE IInv
  OBVIOUS
<1> USE CalibrateAssumption DEF Init, NoPause
<1>1. multiplier \in [num : Nat \ {0}, den : Nat \ {0}] /\ pause \in [passed : 0..MaxTurns, due : 0..4]
  OBVIOUS
<1>b. overflow \in BOOLEAN
  OBVIOUS
<1>2. TypeOK
  BY <1>1, <1>b DEF TypeOK
<1> QED
  BY <1>2 DEF IInv, Turned, ErrorsAnsweredOnce, ErrorsSeen, Waiting, Adjusting, Reached

\* The turns of calibrate() keep to the types: await is spent before a turn
\* acts, and each division of the multiplier has a tick and an error.
LEMMA TypeStep == IInv /\ [Next]_vars => TypeOK' /\ Turned'
<1> SUFFICES ASSUME IInv, [Next]_vars PROVE TypeOK' /\ Turned'
  OBVIOUS
<1> USE CalibrateAssumption DEF IInv, TypeOK, Turned
<1>1. CASE calibrateThroughput
  <2>1. cfg' \in [qps : Nat, c : Nat]
    BY <1>1, ThroughputType DEF calibrateThroughput
  <2>2. limit' \in Nat /\ created' \in Nat
    BY <1>1, <2>1 DEF calibrateThroughput, SetLimit, RunWorkers, AtLeast
  <2> QED
    BY <1>1, <2>1, <2>2 DEF calibrateThroughput
<1>2. CASE Work
  <2>1. overflow' \in BOOLEAN
    BY <1>2 DEF Work
  <2>2. amount' \in Nat /\ errors' \in 0..MaxErrors
    BY <1>2 DEF Work
  <2> QED
    BY <1>2, <2>1, <2>2 DEF Work
<1>3. CASE Turn
  BY <1>3 DEF Turn, Awaiting, AfterAwait
<1>4. CASE SomeErrors \/ ChangedErrors \/ Overflows
  BY <1>4 DEF SomeErrors, ChangedErrors, NewErrors, Overflows
<1>5. CASE Flawed
  BY <1>5 DEF Flawed, Waiting
<1>6. CASE MoreWorkers
  <2>1. Multiplied(amount) \in Nat
    BY GrownBound
  <2> QED
    BY <1>6, <2>1 DEF MoreWorkers, RunWorkers, AtLeast, Waiting
<1>7. CASE MoreQps
  <2>1. Grown(limit) \in Nat
    BY GrownBound
  <2> QED
    BY <1>7, <2>1 DEF MoreQps, SetLimit, AtLeast, Waiting
<1>8. CASE Timeout
  BY <1>8 DEF Timeout, SetLimit, RunWorkers, AtLeast
<1>9. CASE UNCHANGED vars
  BY <1>9 DEF vars
<1> QED
  BY <1>1, <1>2, <1>3, <1>4, <1>5, <1>6, <1>7, <1>8, <1>9 DEF Next

\* Errors are answered and ticks waited for as the invariant says.
LEMMA AnswerStep ==
  IInv /\ [Next]_vars => ErrorsAnsweredOnce' /\ ErrorsSeen' /\ Waiting' /\ Adjusting'
<1> SUFFICES ASSUME IInv, [Next]_vars
             PROVE  ErrorsAnsweredOnce' /\ ErrorsSeen' /\ Waiting' /\ Adjusting'
  OBVIOUS
<1> USE CalibrateAssumption DEF IInv, ErrorsAnsweredOnce, ErrorsSeen, Waiting, Adjusting
<1>t. /\ errors \in Nat /\ noted \in Nat /\ before \in Nat /\ await \in Nat /\ shrinks \in Nat
      /\ pause \in [passed : Nat, due : Nat]
  BY DEF TypeOK
<1>1. CASE calibrateThroughput
  BY <1>t, <1>1 DEF calibrateThroughput
<1>2. CASE Work
  BY <1>t, <1>2 DEF Work
<1>3. CASE Turn
  BY <1>t, <1>3 DEF Turn, Awaiting, AfterAwait
<1>4. CASE SomeErrors
  BY <1>t, <1>4 DEF SomeErrors
<1>5. CASE ChangedErrors
  BY <1>t, <1>5 DEF ChangedErrors, NewErrors
<1>6. CASE Flawed
  BY <1>t, <1>6 DEF Flawed
<1>7. CASE Overflows
  BY <1>t, <1>7 DEF Overflows
<1>8. CASE MoreWorkers
  BY <1>t, <1>8 DEF MoreWorkers
<1>9. CASE MoreQps
  BY <1>t, <1>9 DEF MoreQps
<1>10. CASE Timeout
  BY <1>t, <1>10 DEF Timeout
<1>11. CASE UNCHANGED vars
  BY <1>t, <1>11 DEF vars
<1>12. QED
  BY <1>1, <1>2, <1>3, <1>4, <1>5, <1>6, <1>7, <1>8, <1>9, <1>10, <1>11 DEF Next

\* The limit begins at what the burst gives and never falls.
LEMMA ReachedStep == IInv /\ [Next]_vars => Reached'
<1> SUFFICES ASSUME IInv, [Next]_vars PROVE Reached'
  OBVIOUS
<1> USE CalibrateAssumption DEF IInv, Reached
<1>t. /\ limit \in Nat /\ Unit \in Nat /\ burst \in Bursts
      /\ Throughput(burst) \in [qps : Nat, c : Nat]
  BY ThroughputType DEF TypeOK
<1>1. CASE calibrateThroughput
  BY <1>t, <1>1 DEF calibrateThroughput, SetLimit, AtLeast
<1>2. CASE MoreQps
  <2>1. Grown(limit) \in Nat /\ Grown(limit) >= limit
    BY <1>t, GrownBound
  <2>2. limit' >= limit /\ limit' >= Unit /\ limit' \in Nat
    BY <1>2, <1>t, <2>1 DEF MoreQps, SetLimit, AtLeast
  <2>3. phase # "burst" /\ burst' = burst
    BY <1>2 DEF MoreQps, Adjusting
  <2> QED
    BY <1>t, <2>2, <2>3
<1>3. CASE Timeout
  BY <1>t, <1>3 DEF Timeout, SetLimit, AtLeast
<1>4. CASE Work \/ Turn \/ SomeErrors \/ ChangedErrors \/ Flawed \/ Overflows \/ MoreWorkers
  <2>1. UNCHANGED <<phase, limit, burst>>
    BY <1>4 DEF Work, Turn, SomeErrors, ChangedErrors, Flawed, Overflows, MoreWorkers
  <2> QED
    BY <2>1
<1>5. CASE UNCHANGED vars
  BY <1>5 DEF vars
<1> QED
  BY <1>1, <1>2, <1>3, <1>4, <1>5 DEF Next

\* The invariant holds in every state.
LEMMA Inductive == Spec => []IInv
<1>1. IInv /\ [Next]_vars => IInv'
  BY TypeStep, AnswerStep, ReachedStep DEF IInv
<1>2. QED
  BY InitIInv, <1>1, PTL DEF Spec
-----------------------------------------------------------------------------
(* Every variable keeps its type: await never exceeds the three ticks that *)
(* follow an error, and the multiplier shrinks no more often than it ticks.*)
THEOREM TypeCorrect == Spec => []TypeOK
<1>1. IInv => TypeOK
  BY DEF IInv
<1>2. QED
  BY <1>1, Inductive, PTL

(* The load phase begins with no fewer requests a second than the burst    *)
(* has measured, or half of it, whatever calibrate() does in between.      *)
THEOREM LoadReachesBurst == Spec => []NotBelowBurst
<1>1. IInv => NotBelowBurst
  BY DEF IInv, Reached, NotBelowBurst
<1>2. QED
  BY <1>1, Inductive, PTL

(* However the three reads of isFlawed fall between the increments of the  *)
(* workers, the multiplier shrinks at most once for each error.            *)
THEOREM AnswersOnce == Spec => []ErrorsAnsweredOnce
<1>1. IInv => ErrorsAnsweredOnce
  BY DEF IInv
<1>2. QED
  BY <1>1, Inductive, PTL

(* No turn of calibrate() grows the limit or the workers while an error    *)
(* counted before it began has not been answered.                          *)
THEOREM AnswersBeforeGrowing == Spec => NoGrowthOnErrors
<1>1. IInv /\ [Next]_vars => [MoreQps \/ MoreWorkers => answered >= before]_vars
  <2> SUFFICES ASSUME IInv, MoreQps \/ MoreWorkers PROVE answered >= before
    OBVIOUS
  <2>1. QED
    BY DEF IInv, TypeOK, ErrorsSeen, MoreQps, MoreWorkers
<1>2. QED
  BY <1>1, Inductive, PTL DEF Spec, NoGrowthOnErrors

(* A turn that acts waits for the ticks that the one before it asked for.  *)
THEOREM TurnsSpaced == Spec => Spaced
<1>1. IInv /\ [Next]_vars
        => [MoreQps \/ MoreWorkers \/ Flawed => pause.passed >= pause.due]_vars
  <2> SUFFICES ASSUME IInv, MoreQps \/ MoreWorkers \/ Flawed
               PROVE  pause.passed >= pause.due
    OBVIOUS
  <2>1. step # "select"
    BY DEF MoreQps, MoreWorkers, Flawed
  <2>2. QED
    BY <2>1 DEF IInv, TypeOK, Waiting
<1>2. QED
  BY <1>1, Inductive, PTL DEF Spec, Spaced
===============================================================================
