------------------------------ MODULE Calibrate ------------------------------
(***************************************************************************)
(* How loader.go finds the conditions of the load phase: burstThroughput   *)
(* turns the burst's counters into a loadConfig, calibrateThroughput       *)
(* starts from it, and on each tick of its sampler calibrate() changes the *)
(* limit or the number of workers, until its timeout hands both on.        *)
(*                                                                         *)
(* The client is what calibrate() reads of it: the error counter, which    *)
(* grows at any moment, Overflow(), and Amount(), which follows the number *)
(* of goroutines created.  A limit is an integer in units of 1/Unit QPS,   *)
(* rounded down; the multiplier, a float in the code, is a fraction.       *)
(***************************************************************************)
EXTENDS Integers

CONSTANTS
  Bursts,     \* what the burst's end reads: [sum, amount, errors, divisor]
  Unit,       \* precision of a limit
  MaxErrors,  \* bound on the errors counted while calibrating
  MaxTurns    \* bound on the ticks of the sampler

ASSUME CalibrateAssumption ==
  /\ Unit \in Nat \ {0} /\ MaxErrors \in Nat /\ MaxTurns \in Nat
  /\ \A b \in Bursts :
       /\ b.sum \in Nat \ {0} /\ b.amount \in Nat
       /\ b.divisor \in Nat /\ b.divisor >= b.sum
       /\ b.errors \in 0..(b.divisor + b.amount)

VARIABLES
  phase,             \* "burst", "adjust", or "load": the next phase has begun
  cfg,               \* the loadConfig the phases hand on: qps in Units, c
  limit, created,    \* throttle.Limit(); goroutines RunWorkers has created
  amount, overflow,  \* client.Amount(); whether client.Overflow() > 0
  errors,            \* client.Errors()
  noted,             \* the package variable errors
  await, multiplier, \* the package variables of these names
  step,              \* where the sampling goroutine is
  burst, turns,      \* history: the burst's result; ticks taken
  shrinks,           \* history: how often multiplier was divided
  before, answered,  \* history: errors when the turn began, and when the
                     \* multiplier last shrank;
  pause              \* ticks since a turn acted, and how many it asks for

client == <<created, amount, overflow, errors>>
control == <<cfg, limit, noted, await, multiplier>>
history == <<burst, turns, shrinks, before, answered, pause>>
vars == <<phase, step, client, control, history>>

NoPause == [passed |-> 0, due |-> 0]

Init ==
  /\ phase = "burst" /\ step = "select"
  /\ cfg = [qps |-> 0, c |-> 0]
  /\ limit = 0 /\ created = 0 /\ amount = 0 /\ overflow = FALSE /\ errors = 0
  /\ noted = 0 /\ await = 0 /\ multiplier = [num |-> 1, den |-> 10]
  /\ burst \in Bursts
  /\ turns = 0 /\ shrinks = 0 /\ before = 0 /\ answered = 0 /\ pause = NoPause

AtLeast(x, low) == IF x < low THEN low ELSE x

\* What SetLimit and RunWorkers make of their argument.
SetLimit(x) == AtLeast(x, Unit)
RunWorkers(n) == AtLeast(n, 1)
-----------------------------------------------------------------------------
\* (client.Errors()/client.RequestSum())*100 > 2, a division of integers.
\* Workers count on between the reads: the errors are read after sum, and the
\* divisor is RequestSum() read once more, later still.
Burdened(b) == (b.errors \div b.divisor) * 100 > 2

\* The end of burstThroughput: qps is the sum over the 10s of the burst.
Throughput(b) ==
  LET qps == (b.sum * Unit) \div 10 IN
  IF Burdened(b) THEN [qps |-> qps \div 2, c |-> b.amount \div 2]
                 ELSE [qps |-> qps, c |-> b.amount]

(* burstThroughput ends and calibrateThroughput begins with a new client.  *)
calibrateThroughput ==
  /\ phase = "burst"
  /\ phase' = "adjust"
  /\ cfg' = Throughput(burst)
  /\ limit' = SetLimit(cfg'.qps)
  /\ created' = RunWorkers(cfg'.c)
  /\ UNCHANGED <<step, amount, overflow, errors, noted, await, multiplier, history>>
-----------------------------------------------------------------------------
(* The client at work, between any two steps of calibrate(). *)
Work ==
  /\ phase = "adjust"
  /\ \/ amount < created /\ amount' = amount + 1 /\ UNCHANGED <<overflow, errors>>
     \/ overflow' = ~overflow /\ UNCHANGED <<amount, errors>>
     \/ errors < MaxErrors /\ errors' = errors + 1 /\ UNCHANGED <<amount, overflow>>
  /\ UNCHANGED <<phase, step, created, control, history>>

\* Mutant: a wait that is over is counted down as well.
AwaitingZero == await >= 0
Awaiting == await > 0

\* Mutant: the tick that is waited for goes on to calibrate.
NoReturn == "some"
AfterAwait == IF Awaiting THEN "select" ELSE "some"

(* case <-sampler: printState, then calibrate up to the call of isFlawed.  *)
Turn ==
  /\ phase = "adjust" /\ step = "select" /\ turns < MaxTurns
  /\ turns' = turns + 1 /\ before' = errors
  /\ pause' = [pause EXCEPT !.passed = @ + 1]
  /\ await' = IF Awaiting THEN await - 1 ELSE await
  /\ step' = AfterAwait
  /\ UNCHANGED <<phase, client, cfg, limit, noted, multiplier, burst, shrinks, answered>>

(* isFlawed reads client.Errors() three times: is it above 0, does it      *)
(* differ from the errors noted, and which number is to be noted.          *)
SomeErrors ==
  /\ step = "some"
  /\ step' = IF errors > 0 THEN "changed" ELSE "sound"
  /\ UNCHANGED <<phase, client, control, history>>

\* Mutant: any error counts, a new one or not.
AnyErrors == errors > 0
\* Mutant: the comparison is the wrong way round.
FewerErrors == errors < noted
NewErrors == errors # noted

ChangedErrors ==
  /\ step = "changed"
  /\ step' = IF NewErrors THEN "flawed" ELSE "sound"
  /\ UNCHANGED <<phase, client, control, history>>

Act(turnsToWait) ==
  /\ step' = "select"
  /\ await' = await + turnsToWait
  /\ pause' = [passed |-> 0, due |-> turnsToWait + 1]

(* isFlawed is true: the multiplier is divided by 1.2. *)
Flawed ==
  /\ step = "flawed"
  /\ noted' = errors /\ answered' = errors
  /\ multiplier' = [num |-> 5 * multiplier.num, den |-> 6 * multiplier.den]
  /\ shrinks' = shrinks + 1
  /\ Act(3)
  /\ UNCHANGED <<phase, client, cfg, limit, burst, turns, before>>

\* x * multiplier, rounded down.
Multiplied(x) == (x * multiplier.num) \div multiplier.den

(* isFlawed is false and jobs are waiting: Amount() is read after          *)
(* Overflow(), and a share of it is added in workers.                      *)
Overflows ==
  /\ step = "sound" /\ overflow
  /\ step' = "workers"
  /\ UNCHANGED <<phase, client, control, history>>

MoreWorkers ==
  /\ step = "workers"
  /\ created' = created + RunWorkers(Multiplied(amount))
  /\ Act(1)
  /\ UNCHANGED <<phase, amount, overflow, errors, cfg, limit, noted, multiplier, burst, turns, shrinks, before, answered>>

\* Mutant: the share is the new limit, not what is added to it.
ShareOnly(x) == Multiplied(x)
Grown(x) == x + Multiplied(x)

(* No job is waiting: the limit grows. *)
MoreQps ==
  /\ step = "sound" /\ ~overflow
  /\ limit' = SetLimit(Grown(limit))
  /\ Act(1)
  /\ UNCHANGED <<phase, client, cfg, noted, multiplier, burst, turns, shrinks, before, answered>>

(* case <-timeout: what was reached is what makeLoad begins with. *)
Timeout ==
  /\ phase = "adjust" /\ step = "select"
  /\ phase' = "load"
  /\ cfg' = [qps |-> limit, c |-> amount]
  /\ limit' = SetLimit(cfg'.qps)
  /\ created' = RunWorkers(cfg'.c)
  /\ UNCHANGED <<step, amount, overflow, errors, noted, await, multiplier, history>>

isFlawed == SomeErrors \/ ChangedErrors \/ Flawed
calibrate == Turn \/ isFlawed \/ Overflows \/ MoreWorkers \/ MoreQps

Next == calibrateThroughput \/ Work \/ calibrate \/ Timeout

Spec == Init /\ [][Next]_vars
-----------------------------------------------------------------------------
TypeOK ==
  /\ phase \in {"burst", "adjust", "load"}
  /\ step \in {"select", "some", "changed", "flawed", "sound", "workers"}
  /\ cfg \in [qps : Nat, c : Nat]
  /\ limit \in Nat
  /\ created \in Nat /\ amount \in Nat /\ overflow \in BOOLEAN
  /\ errors \in 0..MaxErrors /\ noted \in 0..MaxErrors
  /\ await \in 0..3 /\ multiplier \in [num : Nat \ {0}, den : Nat \ {0}]
  /\ burst \in Bursts /\ {turns, shrinks} \subseteq 0..MaxTurns /\ {before, answered} \subseteq 0..MaxErrors
  /\ pause \in [passed : 0..MaxTurns, due : 0..4]

(* Neither the limit nor the number of workers grows in a turn that begins *)
(* with an error not yet answered by a smaller multiplier: errors counted  *)
(* while await runs down, or between two reads of isFlawed, are not lost.  *)
NoGrowthOnErrors ==
  [][MoreQps \/ MoreWorkers => answered >= before]_vars

(* The multiplier shrinks at most once for each error: isFlawed notes a    *)
(* later reading than the one it compares, so no error is answered twice.  *)
ErrorsAnsweredOnce == shrinks <= noted /\ noted <= errors

(* A turn that acts leaves the new conditions in force for the ticks it    *)
(* asks for: one after growing, three after errors.                        *)
Spaced == [][MoreQps \/ MoreWorkers \/ Flawed => pause.passed >= pause.due]_vars

(* The load phase does not get fewer requests a second than the burst has  *)
(* measured, or half of it, and not fewer than one a second.               *)
NotBelowBurst == phase = "load" => limit >= Throughput(burst).qps /\ limit >= Unit

(* "just more than 2% of errors": the burst's figures are halved when more *)
(* than 2% of its requests failed, as counted when the code compares them. *)
HalvedOverTwoPercent ==
  phase = "adjust" /\ 100 * burst.errors > 2 * burst.divisor =>
    cfg.c = burst.amount \div 2
===============================================================================
