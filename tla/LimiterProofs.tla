---------------------------- MODULE LimiterProofs ----------------------------
(***************************************************************************)
(* Proofs about Limiter, for every value of its constants.                 *)
(***************************************************************************)
EXTENDS Limiter, TLAPS

USE DEF shared, locals, caller, history, start, Continue

\* The initial values have their types.
LEMMA TypeInit == Init => TypeOK
<1> SUFFICES ASSUME Init
             PROVE  TypeOK
  OBVIOUS
<1> USE LimiterAssumption DEF Init, NewLimiter
<1>1. ticking \in BOOLEAN
  OBVIOUS
<1>2. call \in [Callers -> {"idle", "drain", "set", "join", "sweep", "stopped"}]
  OBVIOUS
<1> QED
  BY <1>1, <1>2 DEF TypeOK

(* One step keeps every variable in its type.                              *)
LEMMA TypeStep == TypeOK /\ [Next]_vars => TypeOK'
<1> SUFFICES ASSUME TypeOK, [Next]_vars
             PROVE  TypeOK'
  OBVIOUS
<1> USE LimiterAssumption DEF TypeOK
<1>1. CASE Advance
  BY <1>1 DEF Advance
<1>2. CASE Tick
  BY <1>2 DEF Tick
<1>3. CASE Tokens
  BY <1>3 DEF Tokens, Accrued
<1>4. CASE Count
  BY <1>4 DEF Count, Due, Fraction
<1>5. CASE Fill
  BY <1>5 DEF Fill
<1>6. CASE Stamp
  BY <1>6 DEF Stamp
<1>7. CASE Receive
  BY <1>7 DEF Receive
<1>8. ASSUME NEW c \in Callers, NEW r \in Rates, SetLimit(c, r)
      PROVE  TypeOK'
  BY <1>8 DEF SetLimit, setLimit, Enter, AtLeastOne
<1>9. ASSUME NEW c \in Callers, Drain(c)
      PROVE  TypeOK'
  BY <1>9 DEF Drain
<1>10. ASSUME NEW c \in Callers, Drained(c)
       PROVE  TypeOK'
  BY <1>10 DEF Drained
<1>11. ASSUME NEW c \in Callers, SetLimitReturn(c)
       PROVE  TypeOK'
  BY <1>11 DEF SetLimitReturn, setLimit
<1>12. ASSUME NEW c \in Callers, Stop(c)
       PROVE  TypeOK'
  BY <1>12 DEF Stop, Enter
<1>13. ASSUME NEW c \in Callers, Done(c)
       PROVE  TypeOK'
  BY <1>13 DEF Done
<1>14. CASE UNCHANGED vars
  BY <1>14 DEF vars
<1> QED
  BY <1>1, <1>2, <1>3, <1>4, <1>5, <1>6, <1>7, <1>8, <1>9, <1>10, <1>11,
     <1>12, <1>13, <1>14 DEF Next

(* Every variable keeps its type in every behaviour of the limiter.        *)
THEOREM TypeCorrect == Spec => []TypeOK
BY TypeInit, TypeStep, PTL DEF Spec
-----------------------------------------------------------------------------
(* Products grow with either factor.                                       *)
LEMMA ProductGrows ==
  ASSUME NEW a \in Nat, NEW b \in Int, NEW c \in Int, b <= c
  PROVE  a * b <= a * c
OBVIOUS

(* What a turn of start() counts is at most MaxRate for each unit since    *)
(* lastEvent, on top of the fraction kept from the turn before; it is that *)
(* fraction alone if a SetLimit stored a lastEvent later than now.         *)
LEMMA AccruedBound ==
  ASSUME TypeOK, Limits, lastEvent < 0 => limit = 0, now >= 0
  PROVE  \/ Accrued <= surplus
         \/ /\ lastEvent >= 0
            /\ Accrued <= MaxRate * now - MaxRate * lastEvent + surplus
<1> USE LimiterAssumption DEF TypeOK, Limits
<1>1. CASE limit = 0
  BY <1>1 DEF Accrued
<1>2. CASE now < lastEvent
  <2>1. limit * (now - lastEvent) <= limit * 0
    BY <1>2, ProductGrows
  <2> QED
    BY <2>1 DEF Accrued
<1>3. CASE now >= lastEvent /\ lastEvent >= 0
  <2>1. (now - lastEvent) * limit <= (now - lastEvent) * MaxRate
    BY <1>3, ProductGrows
  <2>2. (now - lastEvent) * MaxRate = MaxRate * now - MaxRate * lastEvent
    OBVIOUS
  <2> QED
    BY <1>3, <2>1, <2>2 DEF Accrued
<1> QED
  BY <1>1, <1>2, <1>3

\* A new limiter has generated nothing and owes nothing.
LEMMA AccountsInit == Init => Accounts
BY LimiterAssumption
   DEF Init, NewLimiter, Accounts, Limits, Timely, Charged, Counted, Filling,
       Accounted

(* One step hands the accounts on: the clock only adds to the budget, a    *)
(* SetLimit moves lastEvent forward to the clock, Tokens and Count split   *)
(* what has accrued, Fill spends it and Stamp charges it to now.           *)
LEMMA AccountsStep == TypeOK /\ Accounts /\ [Next]_vars => Accounts'
<1> SUFFICES ASSUME TypeOK, Accounts, [Next]_vars
             PROVE  Accounts'
  OBVIOUS
<1> USE LimiterAssumption DEF Accounts
<1>0. TypeOK'
  BY TypeStep
<1>1. CASE Advance
  BY <1>1 DEF Advance, TypeOK, Limits, Timely, Charged, Counted, Filling, Accounted
<1>2. CASE Tick
  BY <1>2 DEF Tick, TypeOK, Limits, Timely, Charged, Counted, Filling, Accounted
<1>3. CASE Tokens
  <2>1. Limits' /\ Timely' /\ Charged' /\ Filling'
    BY <1>3 DEF Tokens, TypeOK, Limits, Timely, Charged, Filling, Accounted
  <2>2. Counted'
    <3>1. CASE Accrued <= surplus
      BY <1>0, <1>3, <3>1 DEF Tokens, TypeOK, Counted
    <3>2. CASE /\ lastEvent >= 0
               /\ Accrued <= MaxRate * now - MaxRate * lastEvent + surplus
      <4>1. generated * Second + surplus <= MaxRate * lastEvent
        BY <1>3, <3>2 DEF Tokens, TypeOK, Charged, Accounted
      <4>2. generated * Second + Accrued <= MaxRate * now
        BY <3>2, <4>1 DEF TypeOK, Accrued
      <4> QED
        BY <1>3, <4>2 DEF Tokens, Counted
    <3> QED
      BY <1>3, <3>1, <3>2, AccruedBound DEF Tokens, Timely
  <2> QED
    BY <2>1, <2>2
<1>4. CASE Count
  <2> DEFINE due == tokens \div Second - ch
  <2>1. CASE due <= 0 /\ pc' = "select" /\ UNCHANGED <<n, surplus>>
    BY <1>4, <2>1 DEF Count, Due, Fraction, TypeOK, Limits, Timely, Charged, Counted, Filling, Accounted
  <2>2. CASE due > 0 /\ pc' = "fill" /\ n' = due /\ surplus' = tokens % Second
    <3>1. tokens = Second * (tokens \div Second) + (tokens % Second)
      BY DEF TypeOK
    <3>2. tokens >= Second
      <4>1. tokens \div Second >= 1
        BY <2>2 DEF TypeOK
      <4>2. Second * 1 <= Second * (tokens \div Second)
        BY <4>1, ProductGrows DEF TypeOK
      <4> QED
        BY <3>1, <4>2 DEF TypeOK
    <3>3. generated * Second + tokens <= MaxRate * now
      BY <1>4, <3>2 DEF Count, Due, Fraction, Counted, TypeOK
    <3>4. Second * due <= Second * (tokens \div Second)
      BY <2>2, ProductGrows DEF TypeOK
    <3>5. (generated + due) * Second = generated * Second + Second * due
      BY <2>2 DEF TypeOK
    <3>6. Filling'
      BY <1>4, <2>2, <3>1, <3>3, <3>4, <3>5 DEF Count, Due, Fraction, Filling, TypeOK
    <3> QED
      BY <1>4, <2>2, <3>6 DEF Count, Due, Fraction, TypeOK, Limits, Timely, Charged, Counted
  <2> QED
    BY <1>4, <2>1, <2>2 DEF Count, Due, Fraction
<1>5. CASE Fill
  <2>1. (generated' + n') * Second = (generated + n) * Second
    BY <1>5 DEF Fill, TypeOK
  <2> QED
    BY <1>5, <2>1 DEF Fill, TypeOK, Limits, Timely, Charged, Counted, Filling
<1>6. CASE Stamp
  BY <1>6 DEF Stamp, TypeOK, Limits, Timely, Charged, Counted, Filling, Accounted
<1>7. CASE Receive
  BY <1>7 DEF Receive, TypeOK, Limits, Timely, Charged, Counted, Filling, Accounted
<1>8. ASSUME NEW c \in Callers, NEW r \in Rates, SetLimit(c, r)
      PROVE  Accounts'
  <2>1. MaxRate * Accounted <= MaxRate * clock
    BY ProductGrows DEF TypeOK, Timely, Accounted
  <2>2. Limits'
    BY <1>8 DEF SetLimit, setLimit, AtLeastOne, TypeOK, Limits
  <2>3. Timely' /\ Counted' /\ Filling'
    BY <1>8 DEF SetLimit, setLimit, TypeOK, Timely, Counted, Filling
  <2>4. Charged'
    BY <1>8, <2>1 DEF SetLimit, setLimit, TypeOK, Charged, Accounted
  <2> QED
    BY <2>2, <2>3, <2>4
<1>9. ASSUME NEW c \in Callers, Drain(c) \/ Drained(c) \/ Stop(c) \/ Done(c)
      PROVE  Accounts'
  BY <1>9 DEF Drain, Drained, Stop, Enter, Done, TypeOK, Limits, Timely,
              Charged, Counted, Filling, Accounted
<1>10. ASSUME NEW c \in Callers, SetLimitReturn(c)
       PROVE  Accounts'
  <2>1. MaxRate * Accounted <= MaxRate * clock
    BY ProductGrows DEF TypeOK, Timely, Accounted
  <2>2. Limits'
    BY <1>10 DEF SetLimitReturn, setLimit, TypeOK, Limits
  <2>3. Timely' /\ Counted' /\ Filling'
    BY <1>10 DEF SetLimitReturn, setLimit, TypeOK, Timely, Counted, Filling
  <2>4. Charged'
    BY <1>10, <2>1 DEF SetLimitReturn, setLimit, TypeOK, Charged, Accounted
  <2> QED
    BY <2>2, <2>3, <2>4
<1>11. CASE UNCHANGED vars
  BY <1>11 DEF vars, TypeOK, Limits, Timely, Charged, Counted, Filling, Accounted
<1> QED
  BY <1>1, <1>2, <1>3, <1>4, <1>5, <1>6, <1>7, <1>8, <1>9, <1>10, <1>11 DEF Next

(* The budget is accounted for in every state, through every step of       *)
(* start() and every call of SetLimit that comes between.                  *)
THEOREM AccountsCorrect == Spec => []Accounts
<1>1. Init => Accounts
  BY AccountsInit
<1>2. TypeOK /\ Accounts /\ [Next]_vars => Accounts'
  BY AccountsStep
<1> QED
  BY <1>1, <1>2, TypeCorrect, PTL DEF Spec

(* The messages put in ch never exceed MaxRate for the time elapsed,       *)
(* whatever the rates, the callers and the interleaving of their calls.    *)
THEOREM RateBounded == Spec => []RateBound
<1>1. TypeOK /\ Accounts => RateBound
  <2> SUFFICES ASSUME TypeOK, Accounts
               PROVE  RateBound
    OBVIOUS
  <2> USE LimiterAssumption DEF TypeOK, Accounts, Timely
  <2>1. CASE pc = "fill"
    <3>1. MaxRate * now <= MaxRate * clock
      BY ProductGrows
    <3>2. generated * Second <= (generated + n) * Second
      BY ProductGrows
    <3> QED
      BY <2>1, <3>1, <3>2 DEF Filling, RateBound
  <2>2. CASE pc # "fill"
    <3>1. MaxRate * Accounted <= MaxRate * clock
      BY ProductGrows DEF Accounted
    <3> QED
      BY <2>2, <3>1 DEF Charged, Accounted, RateBound
  <2> QED
    BY <2>1, <2>2
<1> QED
  BY <1>1, TypeCorrect, AccountsCorrect, PTL
-----------------------------------------------------------------------------
(* Once a Stop has handed over, start() is gone; once it has drained as    *)
(* well, ch is empty for good.                                             *)
LEMMA StopStep ==
  TypeOK /\ Joined /\ StopQuiet /\ [Next]_vars => Joined' /\ StopQuiet'
<1> SUFFICES ASSUME TypeOK, Joined, StopQuiet, [Next]_vars
             PROVE  Joined' /\ StopQuiet'
  OBVIOUS
<1> USE LimiterAssumption DEF TypeOK, Joined, StopQuiet, Stopped
<1>1. CASE Advance
  BY <1>1 DEF Advance
<1>2. CASE start
  BY <1>2 DEF Tick, Tokens, Count, Due, Fraction, Fill, Stamp
<1>3. CASE Receive
  BY <1>3 DEF Receive
<1>4. ASSUME NEW c \in Callers, NEW r \in Rates, SetLimit(c, r)
      PROVE  Joined' /\ StopQuiet'
  BY <1>4 DEF SetLimit, setLimit, Enter, Stopping
<1>5. ASSUME NEW c \in Callers, Drain(c)
      PROVE  Joined' /\ StopQuiet'
  BY <1>5 DEF Drain
<1>6. ASSUME NEW c \in Callers, Drained(c)
      PROVE  Joined' /\ StopQuiet'
  BY <1>6 DEF Drained
<1>7. ASSUME NEW c \in Callers, SetLimitReturn(c)
      PROVE  Joined' /\ StopQuiet'
  BY <1>7 DEF SetLimitReturn, setLimit
<1>8. ASSUME NEW c \in Callers, Stop(c)
      PROVE  Joined' /\ StopQuiet'
  BY <1>8 DEF Stop, Enter
<1>9. ASSUME NEW c \in Callers, Done(c)
      PROVE  Joined' /\ StopQuiet'
  BY <1>9 DEF Done
<1>10. CASE UNCHANGED vars
  BY <1>10 DEF vars
<1> QED
  BY <1>1, <1>2, <1>3, <1>4, <1>5, <1>6, <1>7, <1>8, <1>9, <1>10 DEF Next

(* When Stop has returned nothing is in ch and nothing will ever be.       *)
THEOREM StopIsQuiet == Spec => []StopQuiet
<1>1. Init => Joined /\ StopQuiet
  BY DEF Init, Joined, StopQuiet, Stopped
<1>2. TypeOK /\ (Joined /\ StopQuiet) /\ [Next]_vars => (Joined /\ StopQuiet)'
  BY StopStep
<1> QED
  BY <1>1, <1>2, TypeCorrect, PTL DEF Spec

\* A step that stores no limit and ends no SetLimit restores no less of it.
LEMMA LimitUntouched ==
  ASSUME LimitRestored, UNCHANGED <<limit, sets>>,
         \A c \in Callers : call[c] \in {"drain", "set"} => call'[c] \in {"drain", "set"}
  PROVE  LimitRestored'
BY DEF LimitRestored

(* SetLimit stores the zero when it begins and the limit when it returns:  *)
(* whoever else is draining then is under way, and has its own to store.   *)
LEMMA RestoredStep == TypeOK /\ Accounts /\ LimitRestored /\ [Next]_vars => LimitRestored'
<1> SUFFICES ASSUME TypeOK, Accounts, LimitRestored, [Next]_vars
             PROVE  LimitRestored'
  OBVIOUS
<1> USE LimiterAssumption DEF TypeOK
<1>begin. ASSUME NEW c \in Callers, NEW r \in Rates, SetLimit(c, r)
          PROVE  call'[c] \in {"drain", "set"}
  BY <1>begin DEF SetLimit, Enter
<1>return. ASSUME NEW c \in Callers, SetLimitReturn(c)
           PROVE  limit' >= 1
  BY <1>return DEF SetLimitReturn, setLimit, Accounts, Limits
<1>goroutine. ASSUME Advance \/ start \/ Receive \/ UNCHANGED vars
              PROVE  UNCHANGED <<limit, sets, call>>
  BY <1>goroutine DEF Advance, Tick, Tokens, Count, Due, Fraction, Fill, Stamp, Receive, vars
<1>caller. ASSUME NEW c \in Callers, Drain(c) \/ Drained(c) \/ Stop(c) \/ Done(c)
           PROVE  /\ UNCHANGED <<limit, sets>>
                  /\ \A d \in Callers : call[d] \in {"drain", "set"} => call'[d] \in {"drain", "set"}
  BY <1>caller DEF Drain, Drained, Stop, Enter, Done
<1> QED
  BY <1>begin, <1>return, <1>goroutine, <1>caller, LimitUntouched DEF Next, LimitRestored

(* No interleaving of SetLimit calls leaves the limit at the zero that     *)
(* they store while they drain.                                            *)
THEOREM LimitIsRestored == Spec => []LimitRestored
<1>init. Init => LimitRestored
  BY DEF Init, LimitRestored
<1> QED
  BY <1>init, RestoredStep, TypeCorrect, AccountsCorrect, PTL DEF Spec
-----------------------------------------------------------------------------
(* A message that start() puts in ch is paid for: the abstract limiter may *)
(* issue it.                                                               *)
LEMMA FillIsPaid ==
  ASSUME TypeOK, Accounts, pc = "fill", n > 0
  PROVE  (generated + 1) * Second <= MaxRate * clock
<1> USE LimiterAssumption DEF TypeOK
<1>1. Second * (generated + 1) <= Second * (generated + n)
  BY ProductGrows
<1>2. MaxRate * now <= MaxRate * clock
  BY ProductGrows DEF Accounts, Timely
<1> QED
  BY <1>1, <1>2 DEF Accounts, Filling

(* The limiter implements the abstract rate limiter: every step is a step  *)
(* of RateBudget or leaves it as it was.                                   *)
THEOREM LimiterImplementsBudget == Spec => ImplementsBudget
<1> USE LimiterAssumption
    DEF Budget!BudgetInit, Budget!BudgetNext, Budget!budgetVars,
        Budget!Elapse, Budget!Issue, Budget!Take, Budget!Close
<1>1. Init => Budget!BudgetInit
  BY DEF Init, NewLimiter
<1>2. TypeOK /\ Accounts /\ [Next]_vars => [Budget!BudgetNext]_(Budget!budgetVars)
  <2> SUFFICES ASSUME TypeOK, Accounts, [Next]_vars
               PROVE  [Budget!BudgetNext]_(Budget!budgetVars)
    OBVIOUS
  <2>1. CASE Advance
    BY <2>1 DEF Advance
  <2>2. CASE Tick \/ Tokens \/ Count \/ Stamp
    BY <2>2 DEF Tick, Tokens, Count, Due, Fraction, Stamp
  <2>3. CASE Fill
    BY <2>3, FillIsPaid DEF Fill
  <2>4. CASE Receive
    BY <2>4 DEF Receive
  <2>5. ASSUME NEW c \in Callers, NEW r \in Rates, SetLimit(c, r)
        PROVE  UNCHANGED Budget!budgetVars
    BY <2>5 DEF SetLimit
  <2>6. ASSUME NEW c \in Callers, Drain(c)
        PROVE  Budget!Take
    BY <2>6 DEF Drain
  <2>7. ASSUME NEW c \in Callers, Done(c)
        PROVE  Budget!Close
    BY <2>7 DEF Done
  <2>8. ASSUME NEW c \in Callers, Drained(c) \/ SetLimitReturn(c) \/ Stop(c)
        PROVE  UNCHANGED Budget!budgetVars
    BY <2>8 DEF Drained, SetLimitReturn, Stop
  <2>9. CASE UNCHANGED vars
    BY <2>9 DEF vars
  <2> QED
    BY <2>1, <2>2, <2>3, <2>4, <2>5, <2>6, <2>7, <2>8, <2>9 DEF Next
<1> QED
  BY <1>1, <1>2, TypeCorrect, AccountsCorrect, PTL
     DEF Spec, ImplementsBudget, Budget!BudgetSpec
-----------------------------------------------------------------------------
\* A caller is between the begin of a SetLimit and its return.
Setting(c) == call[c] \in {"drain", "set"}

\* At most one SetLimit has begun.
Single ==
  /\ sets = 0 => \A c \in Callers : ~Setting(c)
  /\ sets = 1 => \A c, d \in Callers : Setting(c) /\ Setting(d) => c = d

\* No SetLimit has returned yet, and there is nothing to count.
Fresh ==
  sets = 0 \/ (sets = 1 /\ \E c \in Callers : Setting(c)) =>
    /\ limit = 0 /\ surplus = 0 /\ generated = 0
    /\ pc # "fill" /\ (pc = "count" => tokens = 0)

\* The first SetLimit has returned and no other one has begun: what was put in
\* ch since then, ...
Since == generated - mark.generated

\* ... what start() has counted and what it is putting in ch are paid for by
\* the limit in force, for the time since that return.
Metered ==
  sets = 1 /\ (\A c \in Callers : ~Setting(c)) =>
    /\ pc # "fill" => Since * Second + surplus <= limit * (lastEvent - mark.at)
    /\ pc = "count" => tokens < Second \/ Since * Second + tokens <= limit * (now - mark.at)
    /\ pc = "fill" => (Since + n) * Second + surplus <= limit * (now - mark.at)

RateInv == Single /\ Fresh /\ Metered

\* At most one call is counted in sets while sets is below two.
LEMMA SingleStep == TypeOK /\ Single /\ [Next]_vars => Single'
<1> SUFFICES ASSUME TypeOK, Single, [Next]_vars
             PROVE  Single'
  OBVIOUS
<1> USE DEF TypeOK, Single, Setting
<1>1. CASE UNCHANGED <<call, sets>>
  BY <1>1
<1>2. Advance \/ start \/ Receive \/ UNCHANGED vars => UNCHANGED <<call, sets>>
  BY DEF Advance, Tick, Tokens, Count, Fill, Stamp, Receive, vars
<1>3. ASSUME NEW c \in Callers, NEW r \in Rates, SetLimit(c, r)
      PROVE  Single'
  BY <1>3 DEF SetLimit, Enter
<1>4. ASSUME NEW c \in Callers, Drain(c) \/ Drained(c) \/ SetLimitReturn(c) \/ Stop(c) \/ Done(c)
      PROVE  Single'
  BY <1>4 DEF Drain, Drained, SetLimitReturn, Stop, Enter, Done
<1> QED
  BY <1>1, <1>2, <1>3, <1>4 DEF Next

(* Until the first SetLimit returns the limit is zero, and start() finds   *)
(* no token: nothing is put in ch whatever the ticks.                      *)
LEMMA FreshStep == TypeOK /\ Single /\ Fresh /\ [Next]_vars => Fresh'
<1> SUFFICES ASSUME TypeOK, Single, Fresh, [Next]_vars
             PROVE  Fresh'
  OBVIOUS
<1> USE LimiterAssumption DEF TypeOK, Fresh, Setting
<1>1. CASE Advance
  BY <1>1 DEF Advance
<1>2. CASE Tick
  BY <1>2 DEF Tick
<1>3. CASE Tokens
  BY <1>3 DEF Tokens, Accrued
<1>4. CASE Count
  <2>1. Due \in Int /\ (tokens = 0 => Due <= 0)
    BY DEF Due
  <2> QED
    BY <1>4, <2>1 DEF Count
<1>5. CASE Fill \/ Stamp \/ Receive
  BY <1>5 DEF Fill, Stamp, Receive
<1>6. ASSUME NEW c \in Callers, NEW r \in Rates, SetLimit(c, r)
      PROVE  Fresh'
  <2>1. sets' = sets + 1 /\ limit' = 0 /\ UNCHANGED <<surplus, generated, pc, tokens>>
    BY <1>6 DEF SetLimit, setLimit
  <2> QED
    BY <2>1
<1>7. ASSUME NEW c \in Callers, SetLimitReturn(c)
      PROVE  Fresh'
  BY <1>7 DEF SetLimitReturn, Single
<1>8. ASSUME NEW c \in Callers, Drain(c) \/ Drained(c) \/ Stop(c) \/ Done(c)
      PROVE  Fresh'
  BY <1>8 DEF Drain, Drained, Stop, Enter, Done
<1>9. CASE UNCHANGED vars
  BY <1>9 DEF vars
<1> QED
  BY <1>1, <1>2, <1>3, <1>4, <1>5, <1>6, <1>7, <1>8, <1>9 DEF Next

(* The limit that the first SetLimit has set pays for all that follows,    *)
(* also when start() was between its tick and its stamp at the return.     *)
LEMMA MeteredStep ==
  TypeOK /\ Accounts /\ RateInv /\ [Next]_vars => Metered'
<1> SUFFICES ASSUME TypeOK, Accounts, RateInv, [Next]_vars,
                    sets' = 1, \A c \in Callers : ~Setting(c)'
             PROVE  /\ pc' # "fill" => Since' * Second + surplus' <= limit' * (lastEvent' - mark'.at)
                    /\ pc' = "count" => \/ tokens' < Second
                                        \/ Since' * Second + tokens' <= limit' * (now' - mark'.at)
                    /\ pc' = "fill" => (Since' + n') * Second + surplus' <= limit' * (now' - mark'.at)
  BY DEF Metered, Setting
<1> DEFINE Goal ==
      /\ pc' # "fill" => Since' * Second + surplus' <= limit' * (lastEvent' - mark'.at)
      /\ pc' = "count" => tokens' < Second \/ Since' * Second + tokens' <= limit' * (now' - mark'.at)
      /\ pc' = "fill" => (Since' + n') * Second + surplus' <= limit' * (now' - mark'.at)
<1> USE LimiterAssumption
<1>t. /\ limit \in Nat /\ lastEvent \in Int /\ now \in Int /\ tokens \in Int /\ n \in Nat
      /\ surplus \in Nat /\ Second \in Nat \ {0} /\ ch \in Nat
      /\ mark.at \in Nat /\ mark.generated \in Nat /\ generated \in Nat /\ Since \in Int
  BY DEF TypeOK, Accounts, Limits, Since
<1>m. Single /\ Fresh /\ Metered
  BY DEF RateInv
<1>1. CASE UNCHANGED <<call, sets, generated, mark, limit, lastEvent, pc, now, tokens, n, surplus>>
  BY <1>1, <1>m DEF Metered, Setting, Since
<1>2. CASE Tick
  BY <1>2, <1>m DEF Tick, Metered, Setting, Since
<1>3. CASE Tokens
  <2>1. Since * Second + surplus <= limit * (lastEvent - mark.at)
    BY <1>3, <1>m DEF Tokens, Metered, Setting
  <2>2. Accrued = limit * (now - mark.at) - limit * (lastEvent - mark.at) + surplus
    BY <1>t DEF Accrued
  <2>3. Since * Second + Accrued <= limit * (now - mark.at)
    <3> DEFINE a == limit * (now - mark.at)
               b == limit * (lastEvent - mark.at)
               s == Since * Second
    <3>1. a \in Int /\ b \in Int /\ s \in Int
      BY <1>t
    <3>2. s + surplus <= b /\ Accrued = a - b + surplus
      BY <2>1, <2>2
    <3> HIDE DEF a, b, s
    <3>3. s + Accrued <= a
      BY <1>t, <3>1, <3>2
    <3> QED
      BY <3>3 DEF a, s
  <2> QED
    BY <1>3, <2>1, <2>3 DEF Tokens, Since
<1>4. CASE Count
  <2>0. /\ Since * Second + surplus <= limit * (lastEvent - mark.at)
        /\ tokens < Second \/ Since * Second + tokens <= limit * (now - mark.at)
        /\ UNCHANGED <<generated, mark, limit, lastEvent, now, tokens>> /\ Since' = Since
    BY <1>4, <1>m DEF Count, Metered, Setting, Since
  <2>1. CASE Due <= 0 /\ pc' = "select" /\ UNCHANGED <<n, surplus>>
    BY <2>0, <2>1
  <2>2. CASE Due > 0 /\ pc' = "fill" /\ n' = Due /\ surplus' = Fraction
    <3> DEFINE q == tokens \div Second
    <3>1. q \in Int /\ tokens = Second * q + Fraction /\ Fraction \in 0..(Second - 1)
      BY <1>t DEF Fraction
    <3>2. q >= 1 /\ Due <= q /\ Due \in Nat
      BY <1>t, <2>2, <3>1 DEF Due
    <3> HIDE DEF q
    <3>3. Second * 1 <= Second * q /\ Second * Due <= Second * q
      BY <1>t, <3>1, <3>2, ProductGrows
    <3>4. Since * Second + tokens <= limit * (now - mark.at)
      BY <1>t, <2>0, <3>1, <3>3
    <3>5. (Since + Due) * Second = Since * Second + Second * Due
      BY <1>t, <3>2
    <3>6. (Since + Due) * Second + Fraction <= limit * (now - mark.at)
      BY <1>t, <3>1, <3>2, <3>3, <3>4, <3>5
    <3> QED
      BY <2>0, <2>2, <3>6
  <2> QED
    BY <1>4, <2>1, <2>2 DEF Count
<1>5. CASE Fill
  <2>1. (Since + n) * Second + surplus <= limit * (now - mark.at)
    BY <1>5, <1>m DEF Fill, Metered, Setting
  <2>2. /\ Since' + n' = Since + n /\ pc' = "fill"
        /\ UNCHANGED <<surplus, limit, now, mark>>
    BY <1>5, <1>t DEF Fill, Since
  <2> QED
    BY <2>1, <2>2
<1>6. CASE Stamp
  <2>1. (Since + n) * Second + surplus <= limit * (now - mark.at)
    BY <1>6, <1>m DEF Stamp, Metered, Setting
  <2>2. Since + n = Since
    BY <1>6, <1>t DEF Stamp
  <2>3. /\ pc' = "select" /\ lastEvent' = now /\ Since' = Since
        /\ UNCHANGED <<surplus, limit, mark>>
    BY <1>6 DEF Stamp, Since
  <2>4. Since * Second + surplus <= limit * (now - mark.at)
    BY <2>1, <2>2
  <2> QED
    BY <2>3, <2>4
<1>7. ASSUME NEW c \in Callers, SetLimitReturn(c) PROVE Goal
  <2>1. sets = 1 /\ Setting(c)
    BY <1>7 DEF SetLimitReturn, Setting
  <2>2. surplus = 0 /\ pc # "fill" /\ (pc = "count" => tokens = 0)
    BY <1>m, <2>1 DEF Fresh
  <2>3. /\ limit' = arg[c] /\ lastEvent' = clock /\ mark' = [at |-> clock, generated |-> generated]
        /\ UNCHANGED <<pc, surplus, tokens, generated>>
    BY <1>7 DEF SetLimitReturn, setLimit
  <2>4. Since' = 0 /\ lastEvent' - mark'.at = 0 /\ limit' \in Int
    BY <1>7, <1>t, <2>3 DEF Since, TypeOK
  <2>5. Since' * Second + surplus' = 0 /\ limit' * (lastEvent' - mark'.at) = 0
    BY <1>t, <2>2, <2>3, <2>4
  <2> QED
    BY <1>t, <2>2, <2>3, <2>5
<1>8. Advance \/ Receive \/ UNCHANGED vars
        => UNCHANGED <<call, sets, generated, mark, limit, lastEvent, pc, now, tokens, n, surplus>>
  BY DEF Advance, Receive, vars
<1>9. ASSUME NEW c \in Callers, NEW r \in Rates, SetLimit(c, r) PROVE FALSE
  BY <1>9 DEF SetLimit, Enter, Setting, TypeOK
<1>10. ASSUME NEW c \in Callers, Drain(c) \/ Drained(c) \/ Stop(c) \/ Done(c) PROVE Goal
  <2>1. UNCHANGED <<sets, generated, mark, limit, lastEvent, now, tokens, n, surplus>>
    BY <1>10 DEF Drain, Drained, Stop, Enter, Done
  <2>2. \A d \in Callers : Setting(d) => Setting(d)'
    BY <1>10 DEF Drain, Drained, Stop, Enter, Done, Setting, TypeOK
  <2>3. pc' = pc \/ (pc = "select" /\ pc' = "exited")
    BY <1>10 DEF Drain, Drained, Stop, Enter, Done
  <2> QED
    BY <1>m, <2>1, <2>2, <2>3 DEF Metered, Since
<1> QED
  BY <1>1, <1>2, <1>3, <1>4, <1>5, <1>6, <1>7, <1>8, <1>9, <1>10 DEF Next

(* After the first SetLimit has returned, the messages put in ch since     *)
(* then keep to the limit it set, however late or early the goroutine's    *)
(* ticks, its reads of the clock and its stamp fall around that return.    *)
THEOREM RateIsKept == Spec => []OnRate
<1>1. Init => RateInv
  BY DEF Init, NewLimiter, RateInv, Single, Fresh, Metered, Setting
<1>2. TypeOK /\ Accounts /\ RateInv /\ [Next]_vars => RateInv'
  BY SingleStep, FreshStep, MeteredStep DEF RateInv
<1>3. TypeOK /\ Accounts /\ RateInv => OnRate
  <2> SUFFICES ASSUME TypeOK, Accounts, RateInv, sets = 1,
                      \A c \in Callers : ~Setting(c)
               PROVE  Since * Second <= limit * (clock - mark.at)
    BY DEF OnRate, Setting, Since
  <2> USE LimiterAssumption
  <2>1. /\ limit \in Nat /\ lastEvent \in Int /\ now \in Int /\ n \in Nat /\ clock \in Nat
        /\ surplus \in Nat /\ Second \in Nat \ {0} /\ mark.at \in Nat /\ Since \in Int
        /\ lastEvent <= clock /\ now <= clock
    BY DEF TypeOK, Accounts, Limits, Timely, Since
  <2>2. /\ limit * (lastEvent - mark.at) <= limit * (clock - mark.at)
        /\ limit * (now - mark.at) <= limit * (clock - mark.at)
    BY <2>1, ProductGrows
  <2>3. Second * Since <= Second * (Since + n)
    BY <2>1, ProductGrows
  <2>4. CASE pc = "fill"
    <3>1. (Since + n) * Second + surplus <= limit * (now - mark.at)
      BY <2>4 DEF RateInv, Metered
    <3>2. Since * Second <= (Since + n) * Second
      BY <2>1, <2>3
    <3> DEFINE a == Since * Second
               b == (Since + n) * Second
               d == limit * (now - mark.at)
               e == limit * (clock - mark.at)
    <3>3. a \in Int /\ b \in Int /\ d \in Int /\ e \in Int
      BY <2>1
    <3>4. a <= b /\ b + surplus <= d /\ d <= e
      BY <2>2, <3>1, <3>2
    <3> HIDE DEF a, b, d, e
    <3>5. a <= e
      BY <2>1, <3>3, <3>4
    <3> QED
      BY <3>5 DEF a, e
  <2>5. CASE pc # "fill"
    <3>1. Since * Second + surplus <= limit * (lastEvent - mark.at)
      BY <2>5 DEF RateInv, Metered
    <3> QED
      BY <2>1, <2>2, <3>1
  <2> QED
    BY <2>4, <2>5
<1> QED
  BY <1>1, <1>2, <1>3, TypeCorrect, AccountsCorrect, PTL DEF Spec
===============================================================================
