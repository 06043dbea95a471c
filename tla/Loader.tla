------------------------------- MODULE Loader -------------------------------
(***************************************************************************)
(* The run of a test, loader.go: run() takes the program through the burst,*)
(* the adjustment and the load stage.  Each makes a client, whose workers  *)
(* are never told to end, and the last two start a goroutine with a timer  *)
(* that samples, calibrates and at last ends the load() of main.           *)
(*                                                                         *)
(* The limiter is what Limiter.tla shows of it: a goroutine that may block *)
(* filling ch, a Stop that waits for it, a SetLimit that holds the limit   *)
(* at zero while it drains.  A client is its Jobsch and how many of its    *)
(* workers are busy.  Channels are their lengths.                          *)
(***************************************************************************)
EXTENDS Integers

CONSTANTS
  Urls,         \* URLs that may be given: their host and port
  Supposed,     \* values of -c
  MaxWorkers,   \* bound on the workers of a client
  JobCapacity,  \* capacity of Jobsch
  BufferSize,   \* capacity of the limiter's channel
  MaxDue        \* bound on the messages that are due at a tick

Ports == {"absent", "unparsable", "negative", "valid"}

ASSUME LoaderAssumption ==
  /\ Urls \subseteq [host : {"empty", "given"}, port : Ports]
  /\ MaxWorkers \in Nat \ {0}
  /\ Supposed \subseteq Int /\ \A n \in Supposed : n <= MaxWorkers
  /\ {JobCapacity, BufferSize, MaxDue} \subseteq Nat \ {0}

Stages == {"burst", "adjust", "load"}

VARIABLES
  url, supposed,      \* command line: the URL, -c
  main, stage,        \* main(): what it does, in which stage
  cfg,                \* the loadConfig: c, and (history) who determined it
  timer,              \* what the goroutine of the stage does
  alarm, context,     \* its timeout, "set" or "rung"; "live" or "cancelled"
  client,             \* the package variable: the stage that made the client
  jobs, crew, busy,   \* per client: len(Jobsch), its workers, those at work
  counted,            \* whether RequestSum() of the burst is positive
  limit,              \* of the limiter: "zero" or "positive";
  ch, filler, due,    \* len(ch); what start() does, messages still to fill;
  ticker,             \* "on", "last" (one tick left) or "off"
  page, outcome,      \* stages sampled in the report; how the program ended
  running, basis      \* history: stage whose workers run, who determined c

flags == <<url, supposed>>
timing == <<timer, alarm, context>>
pools == <<jobs, crew, busy, counted>>
limiter == <<limit, ch, filler, due, ticker>>
result == <<page, outcome>>
history == <<running, basis>>
vars == <<flags, main, stage, cfg, timing, client, pools, limiter, result, history>>

\* The goroutines run until the program ends.
Alive == outcome = "none"

Init ==
  /\ url \in Urls /\ supposed \in Supposed
  /\ main = "new" /\ stage \in {"burst", "load"}
  /\ cfg = [c |-> supposed, by |-> "flags"]
  /\ timer = "none" /\ alarm = "set" /\ context = "live"
  /\ client = "none"
  /\ jobs = [s \in Stages |-> 0]
  /\ crew = [s \in Stages |-> 0]
  /\ busy = [s \in Stages |-> 0]
  /\ counted = "no"
  /\ limit = "zero" /\ ch = 0 /\ filler = "select" /\ due = 0 /\ ticker = "on"
  /\ page = {} /\ outcome = "none"
  /\ running = "none" /\ basis = "flags"
-----------------------------------------------------------------------------
\* Mutant: the number of workers is taken as it is.
AsManyAsAsked(n) == n
RunWorkers(n) == IF n < 1 THEN 1 ELSE n

\* Mutant: the channel takes one more.
RoomForOneMore == jobs[stage] <= JobCapacity
Room == jobs[stage] < JobCapacity

\* log.Fatalf when host and port are both missing, as addr is empty then, or
\* when the port is not a number above -1; a port alone is an address.
acquireAddr(u) ==
  IF u = [host |-> "empty", port |-> "absent"] \/ u.port \in {"unparsable", "negative"}
    THEN "fatal" ELSE "address"

(* fastclient.New, of every stage. *)
Refuse ==
  /\ main = "new" /\ acquireAddr(url) = "fatal"
  /\ outcome' = "refused"
  /\ UNCHANGED <<flags, main, stage, cfg, timing, client, pools, limiter, page, history>>

(* The last two stages go on with SetLimit, which begins with setLimit(0). *)
New ==
  /\ main = "new" /\ acquireAddr(url) # "fatal"
  /\ client' = stage
  /\ IF stage = "burst"
       THEN main' = "start" /\ UNCHANGED limit
       ELSE main' = "drain" /\ limit' = "zero"
  /\ UNCHANGED <<flags, stage, cfg, timing, pools, ch, filler, due, ticker, result, history>>

\* One step of the drainChan of SetLimit; or it is over, and SetLimit sets n.
Drain == ch > 0 /\ ch' = ch - 1 /\ UNCHANGED limit
Drained == ch = 0 /\ limit' = "positive" /\ UNCHANGED ch

MainSetLimit ==
  /\ main = "drain"
  /\ \/ Drain /\ UNCHANGED main
     \/ Drained /\ main' = "start"
  /\ UNCHANGED <<flags, stage, cfg, timing, client, pools, filler, due, ticker, result, history>>

(* RunWorkers, and in the last two stages the start of the goroutine. *)
Start ==
  /\ main = "start"
  /\ crew' = [crew EXCEPT ![stage] = RunWorkers(cfg.c)]
  /\ alarm' = "set" /\ context' = "live"
  /\ running' = stage /\ basis' = cfg.by
  /\ IF stage = "burst"
       THEN main' = "burst" /\ UNCHANGED timer
       ELSE main' = "select" /\ timer' = "select"
  /\ UNCHANGED <<flags, stage, cfg, client, jobs, busy, counted, limiter, result>>

(* burstThroughput: the default case, ... *)
Default ==
  /\ main = "burst" /\ alarm = "set"
  /\ main' = "flood"
  /\ UNCHANGED <<flags, stage, cfg, timing, client, pools, limiter, result, history>>

\* ... client.Jobsch <- struct{}{}, here and in load(), ...
Send ==
  /\ main \in {"flood", "send"} /\ Room
  /\ jobs' = [jobs EXCEPT ![stage] = @ + 1]
  /\ main' = IF main = "flood" THEN "burst" ELSE "select"
  /\ UNCHANGED <<flags, stage, cfg, timing, client, crew, busy, counted, limiter, result, history>>

\* Mutant: what the stage has found out is not put into cfg.
NotHandedOver(n) == cfg
Measured(n) == [c |-> n, by |-> stage]

\* client.Amount(), the goroutines that have come to run, or half of it.
Amounts == 0..crew[stage]

\* ... and the timeout, where a RequestSum() of zero is divided by.
BurstEnd ==
  /\ main = "burst" /\ alarm = "rung"
  /\ IF counted = "yes"
       THEN /\ \E n \in Amounts : cfg' = Measured(n)
            /\ stage' = "adjust" /\ main' = "new"
            /\ UNCHANGED outcome
       ELSE outcome' = "panicked" /\ UNCHANGED <<cfg, stage, main>>
  /\ UNCHANGED <<flags, timing, client, pools, limiter, page, history>>

(* load(): a select of the messages of the limiter ... *)
Receive ==
  /\ main = "select" /\ ch > 0
  /\ ch' = ch - 1
  /\ main' = "send"
  /\ UNCHANGED <<flags, stage, cfg, timing, client, pools, limit, filler, due, ticker, result, history>>

\* ... and of ctx.Done(), after which the next stage or the report comes.
Return ==
  /\ main = "select" /\ context = "cancelled"
  /\ IF stage = "adjust"
       THEN main' = "new" /\ stage' = "load"
       ELSE main' = "create" /\ UNCHANGED stage
  /\ UNCHANGED <<flags, cfg, timing, client, pools, limiter, result, history>>

(* os.Create, which may fail and end the program, and the report. *)
Create ==
  /\ main = "create"
  /\ outcome' \in {"written", "lost"}
  /\ UNCHANGED <<flags, main, stage, cfg, timing, client, pools, limiter, page, history>>
-----------------------------------------------------------------------------
\* The goroutine of a stage is at work.
Timing == timer \notin {"none", "ended"}

(* A timer rings.  The ten seconds of the burst are enough for a request   *)
(* to end, or for filling Jobsch until the sender blocks.                  *)
Ring ==
  /\ alarm = "set"
  /\ \/ Timing
     \/ stage = "burst" /\ counted = "yes" /\ main \in {"burst", "flood"}
     \/ stage = "burst" /\ main = "flood" /\ ~Room /\ busy[stage] = crew[stage]
  /\ alarm' = "rung"
  /\ UNCHANGED <<flags, main, stage, cfg, timer, context, client, pools, limiter, result, history>>

\* Mutant: the context is cancelled first.
CancelFirst ==
  [sample |-> IF stage = "adjust" THEN "calibrate" ELSE "select",
   calibrate |-> "select", select |-> "cancel", cancel |-> "summary",
   summary |-> IF stage = "load" THEN "stop" ELSE "ended", sweep |-> "ended"]
\* Mutant: the context is cancelled before the limiter is stopped.
StopLast ==
  [sample |-> IF stage = "adjust" THEN "calibrate" ELSE "select",
   calibrate |-> "select", select |-> "summary", summary |-> "cancel",
   cancel |-> IF stage = "load" THEN "stop" ELSE "ended", sweep |-> "ended"]
\* Mutant: the limiter is stopped at the end of either stage.
StopTwice ==
  [sample |-> IF stage = "adjust" THEN "calibrate" ELSE "select",
   calibrate |-> "select", select |-> "summary", summary |-> "stop",
   sweep |-> "cancel", cancel |-> "ended"]
\* The order of the goroutine's statements: the load stage stops the limiter.
Following ==
  [sample |-> IF stage = "adjust" THEN "calibrate" ELSE "select",
   calibrate |-> "select", select |-> "summary",
   summary |-> IF stage = "load" THEN "stop" ELSE "cancel",
   sweep |-> "cancel", cancel |-> "ended"]

Proceed == timer' = Following[timer]

(* case <-sampler: printState, ... *)
Tick ==
  /\ timer = "select"
  /\ timer' = "sample"
  /\ UNCHANGED <<flags, main, stage, cfg, alarm, context, client, pools, limiter, result, history>>

printState ==
  /\ timer = "sample"
  /\ Proceed
  /\ page' = page \union {client}
  /\ UNCHANGED <<flags, main, stage, cfg, alarm, context, client, pools, limiter, outcome, history>>

\* ... and calibrate, which waits, adds workers or calls SetLimit.
calibrate ==
  /\ timer = "calibrate"
  /\ \/ Proceed /\ UNCHANGED <<crew, limit>>
     \/ /\ \E n \in (crew[client] + 1)..MaxWorkers : crew' = [crew EXCEPT ![client] = n]
        /\ Proceed /\ UNCHANGED limit
     \/ timer' = "drain" /\ limit' = "zero" /\ UNCHANGED crew
  /\ UNCHANGED <<flags, main, stage, cfg, alarm, context, client, jobs, busy, counted, ch, filler, due, ticker, result, history>>

TimerSetLimit ==
  /\ timer = "drain"
  /\ \/ Drain /\ UNCHANGED timer
     \/ Drained /\ timer' = "select"
  /\ UNCHANGED <<flags, main, stage, cfg, alarm, context, client, pools, filler, due, ticker, result, history>>

(* case <-timeout: the summary is printed, and cfg set by the adjustment,  *)
Timeout ==
  /\ timer = "select" /\ alarm = "rung"
  /\ Proceed
  /\ UNCHANGED <<flags, main, stage, cfg, alarm, context, client, pools, limiter, result, history>>

Summary ==
  /\ timer = "summary"
  /\ Proceed
  /\ IF stage = "adjust"
       THEN \E n \in Amounts : cfg' = Measured(n)
       ELSE UNCHANGED cfg
  /\ UNCHANGED <<flags, main, stage, alarm, context, client, pools, limiter, result, history>>

\* throttle.Stop(): the ticker, of which a tick may be left, ...
Stop ==
  /\ timer = "stop"
  /\ timer' = "join"
  /\ ticker' \in {"last", "off"}
  /\ UNCHANGED <<flags, main, stage, cfg, alarm, context, client, pools, limit, ch, filler, due, result, history>>

\* ... the message to the limiter's goroutine, ...
Join ==
  /\ timer = "join" /\ filler = "select"
  /\ timer' = "sweep" /\ filler' = "exited"
  /\ UNCHANGED <<flags, main, stage, cfg, alarm, context, client, pools, limit, ch, due, ticker, result, history>>

\* ... and drainChan.
Sweep ==
  /\ timer = "sweep"
  /\ \/ Drain /\ UNCHANGED timer
     \/ ch = 0 /\ Proceed /\ UNCHANGED <<limit, ch>>
  /\ UNCHANGED <<flags, main, stage, cfg, alarm, context, client, pools, filler, due, ticker, result, history>>

Cancel ==
  /\ timer = "cancel"
  /\ Proceed
  /\ context' = "cancelled"
  /\ UNCHANGED <<flags, main, stage, cfg, alarm, client, pools, limiter, result, history>>
-----------------------------------------------------------------------------
(* The limiter's goroutine: some messages are due at a tick, none without  *)
(* a limit; it blocks while ch is full.                                    *)
Generate ==
  /\ filler = "select" /\ limit = "positive" /\ ticker # "off"
  /\ filler' = "fill"
  /\ due' \in 1..MaxDue
  /\ ticker' = IF ticker = "last" THEN "off" ELSE ticker
  /\ UNCHANGED <<flags, main, stage, cfg, timing, client, pools, limit, ch, result, history>>

Fill ==
  /\ filler = "fill" /\ ch < BufferSize
  /\ ch' = ch + 1 /\ due' = due - 1
  /\ filler' = IF due = 1 THEN "select" ELSE "fill"
  /\ UNCHANGED <<flags, main, stage, cfg, timing, client, pools, limit, ticker, result, history>>

(* A worker of the client of stage s takes a job; it has done the request. *)
Take(s) ==
  /\ jobs[s] > 0 /\ busy[s] < crew[s]
  /\ jobs' = [jobs EXCEPT ![s] = @ - 1]
  /\ busy' = [busy EXCEPT ![s] = @ + 1]
  /\ UNCHANGED <<flags, main, stage, cfg, timing, client, crew, counted, limiter, result, history>>

\* Mutant: a request that failed is not counted.
CountedOrNot(s) == counted' \in {counted, "yes"}
Counts(s) == counted' = IF s = "burst" THEN "yes" ELSE counted

Done(s) ==
  /\ busy[s] > 0
  /\ busy' = [busy EXCEPT ![s] = @ - 1]
  /\ Counts(s)
  /\ UNCHANGED <<flags, main, stage, cfg, timing, client, jobs, crew, limiter, result, history>>
-----------------------------------------------------------------------------
MainSteps ==
  Alive /\ (Refuse \/ New \/ MainSetLimit \/ Start \/ Default \/ Send \/ BurstEnd
              \/ Receive \/ Return \/ Create)
TimerSteps ==
  Alive /\ (Tick \/ printState \/ calibrate \/ TimerSetLimit \/ Timeout \/ Summary
              \/ Stop \/ Join \/ Sweep \/ Cancel)
Worker(s) == Alive /\ (Take(s) \/ Done(s))

Over == ~Alive /\ UNCHANGED vars

Next ==
  \/ MainSteps
  \/ TimerSteps
  \/ Alive /\ (Ring \/ Generate \/ Fill)
  \/ \E s \in Stages : Worker(s)
  \/ Over

Spec == Init /\ [][Next]_vars

(* Timers ring, goroutines that can run do, and c.Do returns.  A select    *)
(* with several cases ready takes each of them in the end, since Go picks  *)
(* one at random: Return and Timeout are not passed over for ever.  There  *)
(* need not be another tick of any ticker.                                 *)
Fairness ==
  /\ WF_vars(MainSteps) /\ SF_vars(Alive /\ Return)
  /\ WF_vars(TimerSteps) /\ SF_vars(Alive /\ Timeout)
  /\ WF_vars(Alive /\ Ring) /\ WF_vars(Alive /\ Fill)
  /\ \A s \in Stages : WF_vars(Worker(s))

FairSpec == Spec /\ Fairness
-----------------------------------------------------------------------------
TypeOK ==
  /\ url \in Urls /\ supposed \in Supposed
  /\ main \in {"new", "drain", "start", "burst", "flood", "select", "send", "create"}
  /\ stage \in Stages
  /\ cfg \in [c : Int, by : {"flags", "burst", "adjust"}]
  /\ timer \in {"none", "select", "sample", "calibrate", "drain", "summary", "stop",
                "join", "sweep", "cancel", "ended"}
  /\ alarm \in {"set", "rung"} /\ context \in {"live", "cancelled"}
  /\ client \in {"none"} \union Stages
  /\ jobs \in [Stages -> 0..JobCapacity]
  /\ crew \in [Stages -> 0..MaxWorkers] /\ busy \in [Stages -> 0..MaxWorkers]
  /\ counted \in {"no", "yes"}
  /\ limit \in {"zero", "positive"} /\ ch \in 0..BufferSize
  /\ filler \in {"select", "fill", "exited"} /\ due \in 0..MaxDue
  /\ ticker \in {"on", "last", "off"}
  /\ page \subseteq Stages
  /\ outcome \in {"none", "refused", "panicked", "written", "lost"}
  /\ running \in {"none"} \union Stages /\ basis \in {"flags", "burst", "adjust"}

(* While the goroutine of a stage is at work, main is inside the load() of *)
(* that stage: client, cfg and the page are package variables without a    *)
(* lock, and all readers of the metrics fill the same dto.Metric.          *)
OneReader ==
  Timing => main \in {"select", "send"} /\ client = stage /\ running = stage

\* Calls of the limiter that are under way.
MainCalls == main = "drain"
TimerCalls == timer \in {"drain", "join", "sweep"}

(* SetLimit and Stop of the two goroutines never overlap, Stop is called   *)
(* once, and nothing of the limiter "used after Stop".                     *)
LimiterSerial ==
  /\ ~(MainCalls /\ TimerCalls)
  /\ filler = "exited" => ~MainCalls /\ timer \notin {"drain", "stop", "join"}

(* When the report is made the limiter's goroutine is gone, no message is  *)
(* left in ch, and the one load() had received has become a job.           *)
QuietEnd ==
  main = "create" => filler = "exited" /\ ch = 0 /\ ~Timing

(* The burst ends with at least one request counted, however slow the      *)
(* server: its loop, blocked by a full Jobsch, notices the timeout after a *)
(* worker has come back for another job.                                   *)
BurstMeasures == outcome # "panicked"

(* The test ends: Stop returns although load() may be blocked by a full    *)
(* Jobsch and the limiter by a full ch, and load() sees the cancellation   *)
(* beside messages that go on arriving.                                    *)
Ends == <>(outcome # "none")

Plan == INSTANCE TestPlan

(* Every run is one of the abstract plan of a test.                        *)
ImplementsPlan == Plan!PlanSpec
===============================================================================
